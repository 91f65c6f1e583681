----------------------------- MODULE MCMemTokens -----------------------------
(* Small instances of MemTokens: see the .cfg files.                       *)
EXTENDS MemTokens, TLC

CONSTANTS u1, u2, s1, s2, k1, d1, d2, r1, r2

OneAccount == [t \in TokenIds |-> u1]

(* In one account nothing tells two sessions, devices or requests apart.   *)
Alike ==
  Permutations({s1, s2}) \cup Permutations({d1, d2}) \cup Permutations({r1, r2})
=============================================================================
