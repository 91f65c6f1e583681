--------------------------- MODULE TokenLifecycle ---------------------------
(***************************************************************************)
(* What the session-token and key-fetch-token tables promise the server    *)
(* that uses them, whatever the tables, joins and stored procedures behind *)
(* the promise: a token is issued once, either verified or unverified; an  *)
(* unverified token becomes verified only together with tokens of its own  *)
(* account; a verified token never becomes unverified again; tokens go     *)
(* away by account, or, for session tokens, because they are too old.      *)
(***************************************************************************)
CONSTANTS
  TokenIds,     \* ids of session tokens and of key-fetch tokens
  SessionIds,   \* the session tokens among them
  Uids,         \* accounts
  OwnerOf       \* the account an id was minted for

VARIABLE status

Absent == "absent"
Unverified == "unverified"
Verified == "verified"

TypeOK == status \in [TokenIds -> {Absent, Unverified, Verified}]

Init == status = [t \in TokenIds |-> Absent]

(* One new token, which may start out verified.                            *)
Issue(t, st) ==
  /\ status[t] = Absent
  /\ st \in {Unverified, Verified}
  /\ status' = [status EXCEPT ![t] = st]

(* Some unverified tokens of account u become verified, together.          *)
Verify(u, T) ==
  /\ \A t \in T : status[t] = Unverified /\ OwnerOf[t] = u
  /\ status' = [t \in TokenIds |-> IF t \in T THEN Verified ELSE status[t]]

(* Tokens of account u go away; the ones that stay are what they were.     *)
Revoke(u, T) ==
  /\ \A t \in T : OwnerOf[t] = u
  /\ status' = [t \in TokenIds |-> IF t \in T THEN Absent ELSE status[t]]

(* Session tokens of any accounts go away.                                 *)
Expire(T) ==
  status' = [t \in TokenIds |-> IF t \in T THEN Absent ELSE status[t]]

Next ==
  \/ \E t \in TokenIds, st \in {Unverified, Verified} : Issue(t, st)
  \/ \E u \in Uids, T \in SUBSET TokenIds : Verify(u, T) \/ Revoke(u, T)
  \/ \E T \in SUBSET SessionIds : Expire(T)

Spec == Init /\ [][Next]_status

-----------------------------------------------------------------------------
(* What follows from it.  A token that was verified is so for as long as it*)
(* lives ...                                                               *)
VerifiedForGood ==
  [][\A t \in TokenIds : status[t] = Verified => status'[t] # Unverified]_status

(* ... and tokens that become verified together are of one account.        *)
VerifiedByAccount ==
  [][\A s, t \in TokenIds :
       /\ status[s] = Unverified /\ status'[s] = Verified
       /\ status[t] = Unverified /\ status'[t] = Verified
       => OwnerOf[s] = OwnerOf[t]]_status
=============================================================================
