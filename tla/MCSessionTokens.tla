--------------------------- MODULE MCSessionTokens ---------------------------
(* Small instances of SessionTokens.  Model values stand for accounts, ids *)
(* and codes; each .cfg picks the sets and one of the owner functions.     *)
EXTENDS SessionTokens, TLC

CONSTANTS u1, u2, s1, s2, k1, d1, d2, c1, c2

(* Two accounts, each with a session, the first with a key-fetch token.    *)
TwoAccounts == (s1 :> u1) @@ (s2 :> u2) @@ (k1 :> u1)

(* One account with two sessions, or with one and a key-fetch token.       *)
OneAccount == [t \in TokenIds |-> u1]

(* In one account nothing tells two sessions, devices or connections apart.*)
Alike ==
  Permutations({s1, s2}) \cup Permutations({d1, d2}) \cup Permutations({c1, c2})

=============================================================================
