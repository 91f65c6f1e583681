-------------------------- MODULE RecoveryCodesMem --------------------------
(***************************************************************************)
(* replaceRecoveryCodes and consumeRecoveryCode of lib/db/mem.js.          *)
(*                                                                         *)
(* One process runs every request, but scrypt runs on its thread pool: the *)
(* function continues in a callback, and other requests run before it.  A  *)
(* consumption fixes the array and the index of the matching code before   *)
(* it waits and splices that index afterwards.  Everything between two     *)
(* waits is one step.                                                      *)
(***************************************************************************)
EXTENDS Naturals, SequencesExt

CONSTANTS
  Uids,       \* accounts
  Codes,      \* the codes that generateRecoveryCodes can return
  Counts,     \* values of the count parameter of replaceRecoveryCodes
  Requests,   \* concurrent requests
  None        \* "undefined"

VARIABLES
  accounts,        \* keys of the object accounts
  recoveryCodes,   \* [Uids -> array or None]
  generated,       \* every code generated so far (history)
  uses,            \* how often a code was consumed with success (history)
  calls            \* [Requests -> what the request's callback holds]

vars == <<accounts, recoveryCodes, generated, uses, calls>>

Idle == [proc |-> "idle"]
Call ==
  {Idle}
    \cup [proc : {"replace"}, uid : Uids, codes : SUBSET Codes]
    \cup [proc : {"consume"}, uid : Uids, code : Codes, batch : SUBSET Codes, index : Nat]

(* An array is identified by the codes it was created with, its batch.     *)
TypeOK ==
  /\ accounts \subseteq Uids
  /\ \A u \in Uids : recoveryCodes[u] = None \/
       /\ recoveryCodes[u].batch \subseteq Codes
       /\ Range(recoveryCodes[u].codes) \subseteq recoveryCodes[u].batch
       /\ IsInjective(recoveryCodes[u].codes)
  /\ generated \subseteq Codes
  /\ uses \in [Uids \X Codes -> Nat]
  /\ calls \in [Requests -> Call]

Init ==
  /\ accounts = Uids
  /\ recoveryCodes = [u \in Uids |-> None]
  /\ generated = {}
  /\ uses = [p \in Uids \X Codes |-> 0]
  /\ calls = [r \in Requests |-> Idle]

-----------------------------------------------------------------------------
(* replaceRecoveryCodes, until the new codes are being hashed.             *)
ReplaceStart(r, u) ==
  /\ calls[r] = Idle
  /\ u \in accounts
  /\ \E C \in SUBSET (Codes \ generated) :
       /\ Cardinality(C) \in Counts
       /\ generated' = generated \cup C
       /\ calls' = [calls EXCEPT ![r] = [proc |-> "replace", uid |-> u, codes |-> C]]
  /\ UNCHANGED <<accounts, recoveryCodes, uses>>

(* ... the array of the hashed codes takes the place of the old one.       *)
ReplaceAssign(r) ==
  /\ calls[r].proc = "replace"
  /\ recoveryCodes' = [recoveryCodes EXCEPT
       ![calls[r].uid] = [batch |-> calls[r].codes, codes |-> SetToSeq(calls[r].codes)]]
  /\ calls' = [calls EXCEPT ![r] = Idle]
  /\ UNCHANGED <<accounts, generated, uses>>

(* consumeRecoveryCode, until the hashes of the account's array are being  *)
(* compared.  Without a match the request will end with notFound.          *)
ConsumeStart(r, u, c) ==
  /\ calls[r] = Idle
  /\ u \in accounts
  /\ recoveryCodes[u] # None
  /\ \E i \in DOMAIN recoveryCodes[u].codes :
       /\ recoveryCodes[u].codes[i] = c
       /\ calls' = [calls EXCEPT
            ![r] = [proc |-> "consume", uid |-> u, code |-> c,
                    batch |-> recoveryCodes[u].batch, index |-> i]]
  /\ UNCHANGED <<accounts, recoveryCodes, generated, uses>>

(* Faulty: the code stays in the array.                                    *)
ConsumeSplice_Keep(r) ==
  /\ calls[r].proc = "consume"
  /\ UNCHANGED recoveryCodes
  /\ uses' = [uses EXCEPT ![<<calls[r].uid, calls[r].code>>] = @ + 1]
  /\ calls' = [calls EXCEPT ![r] = Idle]
  /\ UNCHANGED <<accounts, generated>>

(* ... the index that matched is spliced out of the array it was found in, *)
(* whether or not the array is still the account's or the code still there.*)
ConsumeSplice(r) ==
  /\ calls[r].proc = "consume"
  /\ LET u == calls[r].uid
         stored == recoveryCodes[u]
     IN  IF stored # None /\ stored.batch = calls[r].batch
            /\ calls[r].index \in DOMAIN stored.codes
         THEN recoveryCodes' = [recoveryCodes EXCEPT
                ![u].codes = RemoveAt(stored.codes, calls[r].index)]
         ELSE UNCHANGED recoveryCodes
  /\ uses' = [uses EXCEPT ![<<calls[r].uid, calls[r].code>>] = @ + 1]
  /\ calls' = [calls EXCEPT ![r] = Idle]
  /\ UNCHANGED <<accounts, generated>>

(* deleteAccount, a request that waits for nothing.                        *)
DeleteAccount(r, u) ==
  /\ calls[r] = Idle
  /\ u \in accounts
  /\ accounts' = accounts \ {u}
  /\ recoveryCodes' = [recoveryCodes EXCEPT ![u] = None]
  /\ UNCHANGED <<generated, uses, calls>>

Next ==
  \/ \E r \in Requests, u \in Uids : ReplaceStart(r, u) \/ DeleteAccount(r, u)
  \/ \E r \in Requests, u \in Uids, c \in Codes : ConsumeStart(r, u, c)
  \/ \E r \in Requests : ReplaceAssign(r) \/ ConsumeSplice(r)

Spec == Init /\ [][Next]_vars

-----------------------------------------------------------------------------
Stored == {p \in Uids \X Codes :
  recoveryCodes[p[1]] # None /\ p[2] \in Range(recoveryCodes[p[1]].codes)}

Pending == {p \in Uids \X Codes : \E r \in Requests :
  calls[r].proc = "replace" /\ calls[r].uid = p[1] /\ p[2] \in calls[r].codes}

SingleUse == INSTANCE SingleUseCodes
  WITH Codes <- Uids \X Codes, live <- Stored,
       fresh <- {p \in Uids \X Codes : p[2] \notin generated} \cup Pending

(* The store keeps the promise of single-use codes as long as requests come*)
(* one after the other, which is all that db_tests.js tries.               *)
SingleUseSpec == SingleUse!Spec

(* db_tests.js, "should fail to consume code twice".  Violated when two    *)
(* requests consume one code at the same time: both find it, and the second*)
(* splice takes another code, or none, with it.                            *)
ConsumedOnce == \A p \in Uids \X Codes : uses[p] <= 1
=============================================================================
