------------------------ MODULE AccountCodes_proofs ------------------------
(***************************************************************************)
(* Proofs about AccountCodes.  The recovery codes and the one-time codes   *)
(* share the accounts and the requests and nothing else: what an action of *)
(* one kind leaves alone of the other is proved once, and each half of the *)
(* invariant is then followed through its own actions only.  CodesUnused is*)
(* the half from which the recovery codes refine SingleUseCodes.           *)
(*                                                                         *)
(* The last part is about the recovery codes of the in-memory store, which *)
(* promises the same, but only to requests that come one after the other.  *)
(***************************************************************************)
EXTENDS AccountCodes, FiniteSetTheorems, SequenceTheorems, TLAPS

(* The fields of a request that is in the middle of an operation.          *)
LEMMA CallFields ==
  ASSUME TypeOK, NEW r \in Requests
  PROVE  /\ calls[r] \in Call
         /\ calls[r].proc = "replace" => calls[r].uid \in Uids /\ calls[r].codes \in SUBSET Codes
         /\ calls[r].proc = "consume" => calls[r].uid \in Uids /\ calls[r].code \in Codes
         /\ calls[r].proc = "consumeSigninCode" =>
              calls[r].code \in SigninIds /\ calls[r].found \in BOOLEAN /\ calls[r].newer \in BOOLEAN
         /\ calls[r].proc = "consumeUnblockCode" =>
              calls[r].uid \in Uids /\ calls[r].code \in UnblockIds
         /\ calls[r] = Idle => calls[r].proc = "idle"
BY DEF TypeOK, Call, Idle

(* The type invariant is inductive by itself.                              *)
LEMMA TypeStep == ASSUME TypeOK, [Next]_vars PROVE TypeOK'
<1> USE DEF TypeOK, recoveryVars, oneTimeVars
<1>1. CASE UNCHANGED vars BY <1>1 DEF vars
<1>2. CASE ReplaceStep
  <2>1. ASSUME NEW r \in Requests, NEW u \in Uids, ReplaceDelete(r, u) PROVE TypeOK'
    BY <2>1 DEF ReplaceDelete, Call, RowsOf
  <2>2. ASSUME NEW r \in Requests, ReplaceInsert(r) PROVE TypeOK'
    <3>1. calls[r].uid \in Uids /\ calls[r].codes \in SUBSET Codes
      BY <2>2, CallFields DEF ReplaceInsert
    <3>2. {calls[r].uid} \X calls[r].codes \subseteq Uids \X Codes BY <3>1
    <3>3. recoveryCodes' \subseteq Uids \X Codes BY <2>2, <3>2 DEF ReplaceInsert
    <3> QED BY <2>2, <3>3 DEF ReplaceInsert, Call
  <2> QED BY <1>2, <2>1, <2>2 DEF ReplaceStep
<1>3. CASE ConsumeStep
  <2>1. ASSUME NEW r \in Requests, NEW u \in Uids, NEW c \in Codes, ConsumeSelect(r, u, c)
        PROVE TypeOK'
    BY <2>1 DEF ConsumeSelect, Call
  <2>2. ASSUME NEW r \in Requests, ConsumeDelete(r) PROVE TypeOK'
    <3>1. <<calls[r].uid, calls[r].code>> \in Uids \X Codes
      BY <2>2, CallFields DEF ConsumeDelete
    <3>2. recoveryCodes' \subseteq Uids \X Codes BY <2>2 DEF ConsumeDelete
    <3>3. uses' \in [Uids \X Codes -> Nat]
      <4> DEFINE row == <<calls[r].uid, calls[r].code>>
      <4>1. uses' = [uses EXCEPT ![row] = @ + 1] \/ uses' = uses BY <2>2 DEF ConsumeDelete
      <4>2. row \in Uids \X Codes BY <3>1
      <4> HIDE DEF row
      <4> QED BY <4>1, <4>2
    <3> QED BY <2>2, <3>2, <3>3 DEF ConsumeDelete, Call
  <2> QED BY <1>3, <2>1, <2>2 DEF ConsumeStep
<1>4. CASE SigninStep
  <2>1. ASSUME NEW c \in SigninIds, ExpireSigninCode(c) PROVE TypeOK'
    BY <2>1, CodesAssumption DEF ExpireSigninCode, SigninCode
  <2>2. ASSUME NEW c \in SigninIds, NEW u \in Uids, CreateSigninCode(u, c) PROVE TypeOK'
    BY <2>2 DEF CreateSigninCode, SigninCode
  <2>3. ASSUME NEW r \in Requests, NEW c \in SigninIds, ConsumeSigninSelect(r, c) PROVE TypeOK'
    BY <2>3, CodesAssumption DEF ConsumeSigninSelect, Call, SigninCode
  <2>4. ASSUME NEW r \in Requests, ConsumeSigninDelete(r) PROVE TypeOK'
    BY <2>4, CallFields DEF ConsumeSigninDelete, Call, SigninCode
  <2> QED BY <1>4, <2>1, <2>2, <2>3, <2>4 DEF SigninStep
<1>5. CASE UnblockStep
  <2>1. ASSUME NEW c \in UnblockIds, NEW u \in Uids, CreateUnblockCode(u, c) PROVE TypeOK'
    BY <2>1 DEF CreateUnblockCode
  <2>2. ASSUME NEW r \in Requests, NEW u \in Uids, NEW c \in UnblockIds,
               ConsumeUnblockSelect(r, u, c)
        PROVE TypeOK'
    BY <2>2 DEF ConsumeUnblockSelect, Call
  <2>3. ASSUME NEW r \in Requests, ConsumeUnblockDelete(r) PROVE TypeOK'
    BY <2>3, CallFields DEF ConsumeUnblockDelete, Call
  <2> QED BY <1>5, <2>1, <2>2, <2>3 DEF UnblockStep
<1>6. ASSUME NEW r \in Requests, RequestFails(r) PROVE TypeOK'
  BY <1>6 DEF RequestFails, Call
<1>7. ASSUME NEW u \in Uids, DeleteAccount(u) PROVE TypeOK'
  BY <1>7 DEF DeleteAccount, RowsOf
<1>8. ASSUME NEW C \in SUBSET (SigninIds \cup UnblockIds), Prune(C) PROVE TypeOK'
  BY <1>8 DEF Prune
<1> QED BY <1>1, <1>2, <1>3, <1>4, <1>5, <1>6, <1>7, <1>8 DEF Next

(* What each action does to the pending codes.                             *)
LEMMA PendingAfterReplaceDelete ==
  ASSUME TypeOK, NEW r \in Requests, NEW u \in Uids, NEW C \in SUBSET Codes,
         calls[r] = Idle,
         calls' = [calls EXCEPT ![r] = [proc |-> "replace", uid |-> u, codes |-> C]]
  PROVE  Pending' = Pending \cup ({u} \X C)
<1>1. calls'[r] = [proc |-> "replace", uid |-> u, codes |-> C] BY DEF TypeOK
<1>2. \A q \in Requests \ {r} : calls'[q] = calls[q] BY DEF TypeOK
<1>3. calls[r].proc # "replace" BY DEF Idle
<1> QED BY <1>1, <1>2, <1>3 DEF Pending

(* A request that held no codes, or drops the codes it held, adds none.    *)
LEMMA PendingAfterAnswer ==
  ASSUME TypeOK, NEW r \in Requests, calls' = [calls EXCEPT ![r] = Idle]
  PROVE  /\ Pending' \subseteq Pending
         /\ calls[r].proc # "replace" => Pending' = Pending
         /\ \A q \in Requests : calls'[q].proc = "replace" => q # r /\ calls'[q] = calls[q]
<1>1. calls'[r].proc = "idle" BY DEF TypeOK, Idle
<1>2. \A q \in Requests \ {r} : calls'[q] = calls[q] BY DEF TypeOK
<1> QED BY <1>1, <1>2 DEF Pending

(* Starting a consumption leaves the pending codes as they are.            *)
LEMMA PendingAfterSelect ==
  ASSUME TypeOK, NEW r \in Requests, NEW call, calls[r] = Idle, call.proc # "replace",
         calls' = [calls EXCEPT ![r] = call]
  PROVE  /\ Pending' = Pending
         /\ \A q \in Requests : calls'[q].proc = "replace" => q # r /\ calls'[q] = calls[q]
<1>1. calls'[r] = call BY DEF TypeOK
<1>2. \A q \in Requests \ {r} : calls'[q] = calls[q] BY DEF TypeOK
<1>3. calls[r].proc # "replace" BY DEF Idle
<1> QED BY <1>1, <1>2, <1>3 DEF Pending

(* No action on sign-in or unblock codes touches the recovery codes or the *)
(* replacements in flight.                                                 *)
RecoveryUntouched ==
  /\ UNCHANGED <<recoveryCodes, generated, uses, Pending>>
  /\ \A q \in Requests : calls'[q].proc = "replace" => calls'[q] = calls[q]

LEMMA OneTimeActions ==
  ASSUME TypeOK,
         SigninStep \/ UnblockStep \/ \E C \in SUBSET (SigninIds \cup UnblockIds) : Prune(C)
  PROVE  RecoveryUntouched
<1> USE DEF recoveryVars
<1>1. ASSUME calls' = calls, UNCHANGED recoveryVars PROVE RecoveryUntouched
  BY <1>1 DEF RecoveryUntouched, Pending
<1>2. ASSUME NEW r \in Requests, NEW call, calls[r] = Idle, call.proc # "replace",
             calls' = [calls EXCEPT ![r] = call], UNCHANGED recoveryVars
      PROVE  RecoveryUntouched
  BY <1>2, PendingAfterSelect DEF RecoveryUntouched
<1>3. ASSUME NEW r \in Requests, calls[r].proc # "replace",
             calls' = [calls EXCEPT ![r] = Idle], UNCHANGED recoveryVars
      PROVE  RecoveryUntouched
  BY <1>3, PendingAfterAnswer DEF RecoveryUntouched
<1>4. ASSUME NEW c \in SigninIds, ExpireSigninCode(c) PROVE RecoveryUntouched
  BY <1>1, <1>4 DEF ExpireSigninCode
<1>5. ASSUME NEW c \in SigninIds, NEW u \in Uids, CreateSigninCode(u, c) PROVE RecoveryUntouched
  BY <1>1, <1>5 DEF CreateSigninCode
<1>6. ASSUME NEW r \in Requests, NEW c \in SigninIds, ConsumeSigninSelect(r, c)
      PROVE  RecoveryUntouched
  <2> DEFINE call == [proc |-> "consumeSigninCode", code |-> c,
                      newer |-> signinCodes[c] = None \/ ~signinCodes[c].expired,
                      found |-> /\ signinCodes[c] # None
                                /\ signinCodes[c] = None \/ ~signinCodes[c].expired
                                /\ signinCodes[c].uid \in accounts]
  <2>1. calls' = [calls EXCEPT ![r] = call] /\ calls[r] = Idle /\ UNCHANGED recoveryVars
    BY <1>6 DEF ConsumeSigninSelect
  <2>2. call.proc # "replace" OBVIOUS
  <2> HIDE DEF call
  <2> QED BY <1>2, <2>1, <2>2
<1>7. ASSUME NEW r \in Requests, ConsumeSigninDelete(r) PROVE RecoveryUntouched
  BY <1>3, <1>7 DEF ConsumeSigninDelete
<1>8. ASSUME NEW c \in UnblockIds, NEW u \in Uids, CreateUnblockCode(u, c)
      PROVE  RecoveryUntouched
  BY <1>1, <1>8 DEF CreateUnblockCode
<1>9. ASSUME NEW r \in Requests, NEW u \in Uids, NEW c \in UnblockIds,
             ConsumeUnblockSelect(r, u, c)
      PROVE  RecoveryUntouched
  <2> DEFINE call == [proc |-> "consumeUnblockCode", uid |-> u, code |-> c]
  <2>1. calls' = [calls EXCEPT ![r] = call] /\ calls[r] = Idle /\ UNCHANGED recoveryVars
    BY <1>9 DEF ConsumeUnblockSelect
  <2>2. call.proc # "replace" OBVIOUS
  <2> HIDE DEF call
  <2> QED BY <1>2, <2>1, <2>2
<1>10. ASSUME NEW r \in Requests, ConsumeUnblockDelete(r) PROVE RecoveryUntouched
  BY <1>3, <1>10 DEF ConsumeUnblockDelete
<1>11. ASSUME NEW C \in SUBSET (SigninIds \cup UnblockIds), Prune(C) PROVE RecoveryUntouched
  BY <1>1, <1>11 DEF Prune
<1> QED BY <1>4, <1>5, <1>6, <1>7, <1>8, <1>9, <1>10, <1>11 DEF SigninStep, UnblockStep

(* Every action keeps the stored and the pending codes unused and apart.   *)
LEMMA CodesUnusedStep == ASSUME TypeOK, CodesUnused, [Next]_vars PROVE CodesUnused'
<1> USE DEF CodesUnused
<1>0. TypeOK /\ TypeOK' BY TypeStep
<1>1. CASE UNCHANGED vars BY <1>1 DEF vars, recoveryVars, Pending
<1>2. ASSUME NEW r \in Requests, NEW u \in Uids, ReplaceDelete(r, u) PROVE CodesUnused'
  <2>1. PICK C \in SUBSET (Codes \ generated) :
          /\ generated' = generated \cup C
          /\ calls' = [calls EXCEPT ![r] = [proc |-> "replace", uid |-> u, codes |-> C]]
    BY <1>2 DEF ReplaceDelete
  <2>2. Pending' = Pending \cup ({u} \X C)
    <3>1. C \in SUBSET Codes /\ calls[r] = Idle BY <1>2, <2>1 DEF ReplaceDelete
    <3> QED BY <1>0, <2>1, <3>1, PendingAfterReplaceDelete
  <2>3. recoveryCodes' \subseteq recoveryCodes /\ uses' = uses BY <1>2 DEF ReplaceDelete
  <2>4. calls'[r] = [proc |-> "replace", uid |-> u, codes |-> C]
        /\ \A q \in Requests \ {r} : calls'[q] = calls[q]
    BY <1>0, <2>1 DEF TypeOK
  <2>5. \A p \in {u} \X C : p[2] \in generated' /\ p \notin recoveryCodes /\ uses[p] = 0
    <3>1. SUFFICES ASSUME NEW p \in {u} \X C
                   PROVE  p[2] \in generated' /\ p \notin recoveryCodes /\ uses[p] = 0
      OBVIOUS
    <3>2. p[2] \in generated' /\ p[2] \notin generated BY <2>1
    <3>3. p \notin recoveryCodes BY <3>2
    <3>4. p \in Uids \X Codes BY <2>1
    <3> QED BY <3>2, <3>3, <3>4
  <2>6. \A p \in recoveryCodes' \cup Pending' : p[2] \in generated' /\ uses'[p] = 0
    BY <2>1, <2>2, <2>3, <2>5
  <2>7. recoveryCodes' \cap Pending' = {} BY <2>2, <2>3, <2>5
  <2>8. \A q \in Requests : calls[q].proc = "replace" => calls[q].codes \cap C = {}
    <3>1. SUFFICES ASSUME NEW q \in Requests, calls[q].proc = "replace",
                          NEW c \in calls[q].codes
                   PROVE  c \in generated
      BY <2>1
    <3>2. <<calls[q].uid, c>> \in Pending BY <1>0, <3>1, CallFields DEF Pending
    <3> QED BY <3>2
  <2>9. \A p \in Uids \X Codes : uses'[p] <= 1 /\ (p[2] \notin generated' => uses'[p] = 0)
    BY <2>1, <2>3
  <2> QED BY <2>4, <2>6, <2>7, <2>8, <2>9
<1>3. ASSUME NEW r \in Requests, NEW u \in Uids, NEW c \in Codes, ConsumeSelect(r, u, c)
      PROVE CodesUnused'
  <2> DEFINE call == [proc |-> "consume", uid |-> u, code |-> c]
  <2>1. recoveryCodes' = recoveryCodes /\ generated' = generated /\ uses' = uses
        /\ calls[r] = Idle /\ calls' = [calls EXCEPT ![r] = call]
    BY <1>3 DEF ConsumeSelect, recoveryVars
  <2>2. call.proc # "replace" OBVIOUS
  <2> HIDE DEF call
  <2>3. /\ Pending' = Pending
        /\ \A q \in Requests : calls'[q].proc = "replace" => q # r /\ calls'[q] = calls[q]
    BY <1>0, <2>1, <2>2, PendingAfterSelect
  <2> QED BY <2>1, <2>3
<1>4. ASSUME NEW r \in Requests, ReplaceInsert(r) PROVE CodesUnused'
  <2>1. generated' = generated /\ uses' = uses /\ calls' = [calls EXCEPT ![r] = Idle]
        /\ recoveryCodes' = recoveryCodes \cup ({calls[r].uid} \X calls[r].codes)
    BY <1>4 DEF ReplaceInsert
  <2>2. calls[r].proc = "replace" /\ calls[r].uid \in Uids /\ calls[r].codes \in SUBSET Codes
    BY <1>0, <1>4, CallFields DEF ReplaceInsert
  <2>3. {calls[r].uid} \X calls[r].codes \subseteq Pending BY <2>2 DEF Pending
  <2>4. /\ Pending' \subseteq Pending
        /\ \A q \in Requests : calls'[q].proc = "replace" => q # r /\ calls'[q] = calls[q]
    BY <1>0, <2>1, PendingAfterAnswer
  <2>5. ({calls[r].uid} \X calls[r].codes) \cap Pending' = {}
    BY <2>2, <2>4 DEF Pending
  <2> QED BY <2>1, <2>3, <2>4, <2>5
<1>5. ASSUME NEW r \in Requests, ConsumeDelete(r) PROVE CodesUnused'
  <2> DEFINE row == <<calls[r].uid, calls[r].code>>
  <2>1. row \in Uids \X Codes BY <1>0, <1>5, CallFields DEF ConsumeDelete
  <2>2. /\ Pending' \subseteq Pending
        /\ \A q \in Requests : calls'[q].proc = "replace" => q # r /\ calls'[q] = calls[q]
    BY <1>0, <1>5, PendingAfterAnswer DEF ConsumeDelete
  <2>3. CASE row \in recoveryCodes
    <3>1. recoveryCodes' = recoveryCodes \ {row} /\ generated' = generated
      BY <1>5, <2>3 DEF ConsumeDelete
    <3>2. uses' = [uses EXCEPT ![row] = @ + 1] /\ uses[row] = 0
      BY <1>5, <2>3 DEF ConsumeDelete
    <3>3. uses'[row] = 1 /\ \A p \in Uids \X Codes : p # row => uses'[p] = uses[p]
      BY <1>0, <2>1, <3>2 DEF TypeOK
    <3>4. \A p \in recoveryCodes' \cup Pending' : p \in Uids \X Codes /\ p # row
      BY <1>0, <2>2, <2>3, <3>1 DEF TypeOK, Pending
    <3>5. row[2] \in generated BY <2>3
    <3>6. \A p \in Uids \X Codes : uses'[p] <= 1 /\ (p[2] \notin generated' => uses'[p] = 0)
      BY <3>1, <3>3, <3>5
    <3>7. \A p \in recoveryCodes' \cup Pending' : p[2] \in generated' /\ uses'[p] = 0
      BY <2>2, <3>1, <3>3, <3>4
    <3>8. recoveryCodes' \cap Pending' = {} BY <2>2, <3>1
    <3>9. \A p, q \in Requests : p # q /\ calls'[p].proc = "replace" /\ calls'[q].proc = "replace"
            => calls'[p].codes \cap calls'[q].codes = {}
      BY <2>2
    <3> HIDE DEF row
    <3> QED BY <3>6, <3>7, <3>8, <3>9
  <2>4. CASE row \notin recoveryCodes
    BY <1>5, <2>2, <2>4 DEF ConsumeDelete
  <2> QED BY <2>3, <2>4
<1>6. ASSUME NEW r \in Requests, RequestFails(r) PROVE CodesUnused'
  <2>1. recoveryCodes' = recoveryCodes /\ generated' = generated /\ uses' = uses
    BY <1>6 DEF RequestFails, recoveryVars
  <2> QED BY <1>0, <1>6, <2>1, PendingAfterAnswer DEF RequestFails
<1>7. ASSUME NEW u \in Uids, DeleteAccount(u) PROVE CodesUnused'
  BY <1>7 DEF DeleteAccount, Pending
<1>8. ASSUME SigninStep \/ UnblockStep \/
               \E C \in SUBSET (SigninIds \cup UnblockIds) : Prune(C)
      PROVE  CodesUnused'
  <2>1. RecoveryUntouched BY <1>0, <1>8, OneTimeActions
  <2> QED BY <2>1 DEF RecoveryUntouched
<1> QED BY <1>1, <1>2, <1>3, <1>4, <1>5, <1>6, <1>7, <1>8 DEF Next, ReplaceStep, ConsumeStep

(* No action on recovery codes touches the sign-in and unblock codes or a  *)
(* consumption of one in flight.                                           *)
OneTimeUntouched ==
  /\ UNCHANGED oneTimeVars
  /\ \A q \in Requests :
       calls'[q].proc \in {"consumeSigninCode", "consumeUnblockCode"} => calls'[q] = calls[q]

LEMMA RecoveryActions ==
  ASSUME TypeOK, ReplaceStep \/ ConsumeStep
  PROVE  OneTimeUntouched
<1>1. ASSUME NEW r \in Requests, NEW call, UNCHANGED oneTimeVars,
             call.proc \notin {"consumeSigninCode", "consumeUnblockCode"},
             calls' = [calls EXCEPT ![r] = call]
      PROVE  OneTimeUntouched
  <2>1. calls'[r] = call /\ \A q \in Requests \ {r} : calls'[q] = calls[q]
    BY <1>1 DEF TypeOK
  <2> QED BY <1>1, <2>1 DEF OneTimeUntouched
<1>2. ASSUME NEW r \in Requests, NEW u \in Uids, ReplaceDelete(r, u) PROVE OneTimeUntouched
  <2>1. PICK C : calls' = [calls EXCEPT ![r] = [proc |-> "replace", uid |-> u, codes |-> C]]
    BY <1>2 DEF ReplaceDelete
  <2> DEFINE call == [proc |-> "replace", uid |-> u, codes |-> C]
  <2>2. UNCHANGED oneTimeVars BY <1>2 DEF ReplaceDelete
  <2>3. call.proc \notin {"consumeSigninCode", "consumeUnblockCode"} OBVIOUS
  <2> HIDE DEF call
  <2> QED BY <1>1, <2>1, <2>2, <2>3 DEF call
<1>3. ASSUME NEW r \in Requests, ReplaceInsert(r) PROVE OneTimeUntouched
  BY <1>1, <1>3 DEF ReplaceInsert, Idle
<1>4. ASSUME NEW r \in Requests, NEW u \in Uids, NEW c \in Codes, ConsumeSelect(r, u, c)
      PROVE  OneTimeUntouched
  BY <1>1, <1>4 DEF ConsumeSelect
<1>5. ASSUME NEW r \in Requests, ConsumeDelete(r) PROVE OneTimeUntouched
  BY <1>1, <1>5 DEF ConsumeDelete, Idle
<1> QED BY <1>2, <1>3, <1>4, <1>5 DEF ReplaceStep, ConsumeStep

(* Every action keeps accepted codes out of the tables, each code with one *)
(* account, and the consumptions in flight matched with what they found.   *)
LEMMA OneTimeStep ==
  ASSUME TypeOK, AcceptedCodesGone, CreatedOnce, CallsMatch, [Next]_vars
  PROVE  AcceptedCodesGone' /\ CreatedOnce' /\ CallsMatch'
<1> DEFINE Goal == AcceptedCodesGone' /\ CreatedOnce' /\ CallsMatch'
<1> USE CodesAssumption
    DEF TypeOK, AcceptedCodesGone, CreatedOnce, CallsMatch, SigninCode, oneTimeVars
<1>1. CASE UNCHANGED vars BY <1>1 DEF vars
<1>2. CASE ReplaceStep \/ ConsumeStep
  BY <1>2, RecoveryActions DEF OneTimeUntouched
<1>3. ASSUME NEW c \in SigninIds, ExpireSigninCode(c) PROVE Goal
  BY <1>3 DEF ExpireSigninCode
<1>4. ASSUME NEW c \in SigninIds, NEW u \in Uids, CreateSigninCode(u, c) PROVE Goal
  BY <1>4 DEF CreateSigninCode
<1>5. ASSUME NEW r \in Requests, NEW c \in SigninIds, ConsumeSigninSelect(r, c) PROVE Goal
  BY <1>5 DEF ConsumeSigninSelect
<1>6. ASSUME NEW r \in Requests, ConsumeSigninDelete(r) PROVE Goal
  BY <1>6, CallFields DEF ConsumeSigninDelete, Idle
<1>7. ASSUME NEW c \in UnblockIds, NEW u \in Uids, CreateUnblockCode(u, c) PROVE Goal
  BY <1>7 DEF CreateUnblockCode
<1>8. ASSUME NEW r \in Requests, NEW u \in Uids, NEW c \in UnblockIds,
             ConsumeUnblockSelect(r, u, c)
      PROVE  Goal
  BY <1>8 DEF ConsumeUnblockSelect
<1>9. ASSUME NEW r \in Requests, ConsumeUnblockDelete(r) PROVE Goal
  BY <1>9, CallFields DEF ConsumeUnblockDelete, Idle
<1>10. ASSUME NEW r \in Requests, RequestFails(r) PROVE Goal
  BY <1>10 DEF RequestFails, Idle
<1>11. ASSUME NEW u \in Uids, DeleteAccount(u) PROVE Goal
  BY <1>11 DEF DeleteAccount
<1>12. ASSUME NEW C \in SUBSET (SigninIds \cup UnblockIds), Prune(C) PROVE Goal
  BY <1>12 DEF Prune
<1> QED
  BY <1>1, <1>2, <1>3, <1>4, <1>5, <1>6, <1>7, <1>8, <1>9, <1>10, <1>11, <1>12
     DEF Next, SigninStep, UnblockStep

(* Whatever the accounts, codes and requests: the tables and the requests  *)
(* have their types; no stored or pending recovery code was ever consumed, *)
(* and none was consumed twice; an accepted sign-in or unblock code is gone*)
(* and was created once.                                                   *)
THEOREM InductiveInvariant == Spec => []IInv
<1>1. Init => IInv
  BY DEF Init, IInv, TypeOK, CodesUnused, Pending, AcceptedCodesGone, CreatedOnce, CallsMatch,
         Call, Idle
<1>2. IInv /\ [Next]_vars => IInv'
  BY TypeStep, CodesUnusedStep, OneTimeStep DEF IInv
<1> QED BY <1>1, <1>2, PTL DEF Spec

(* The tables and the requests in flight always have their types.          *)
THEOREM TypeCorrect == Spec => []TypeOK
BY InductiveInvariant, PTL DEF IInv

(* For any number of accounts, codes and requests: a sign-in or unblock    *)
(* code that was accepted is in no table, so that no later request is      *)
(* answered with it.                                                       *)
THEOREM AcceptedCodesStayGone == Spec => []AcceptedCodesGone
BY InductiveInvariant, PTL DEF IInv

(* Every step is a step of the single-use codes, or none.                  *)
LEMMA StepMaps == ASSUME IInv, [Next]_vars PROVE [SingleUse!Next]_SingleUse!vars
<1> USE DEF IInv, SingleUse!vars
<1>0. TypeOK OBVIOUS
<1> DEFINE Kept == Fresh' = Fresh /\ recoveryCodes' = recoveryCodes /\ uses' = uses
<1>1. CASE UNCHANGED vars BY <1>1 DEF vars, recoveryVars, Fresh, Pending
<1>2. ASSUME NEW r \in Requests, NEW u \in Uids, ReplaceDelete(r, u) PROVE SingleUse!Change
  <2>1. PICK C \in SUBSET (Codes \ generated) :
          /\ generated' = generated \cup C
          /\ calls' = [calls EXCEPT ![r] = [proc |-> "replace", uid |-> u, codes |-> C]]
    BY <1>2 DEF ReplaceDelete
  <2>2. Pending' = Pending \cup ({u} \X C)
    BY <1>0, <1>2, <2>1, PendingAfterReplaceDelete DEF ReplaceDelete
  <2>3. Fresh' \subseteq Fresh BY <2>1, <2>2 DEF Fresh
  <2> QED BY <1>2, <2>3 DEF SingleUse!Change, ReplaceDelete
<1>3. ASSUME NEW r \in Requests, NEW u \in Uids, NEW c \in Codes, ConsumeSelect(r, u, c)
      PROVE Kept
  <2> DEFINE call == [proc |-> "consume", uid |-> u, code |-> c]
  <2>1. recoveryCodes' = recoveryCodes /\ generated' = generated /\ uses' = uses
        /\ calls[r] = Idle /\ calls' = [calls EXCEPT ![r] = call]
    BY <1>3 DEF ConsumeSelect, recoveryVars
  <2>2. call.proc # "replace" OBVIOUS
  <2> HIDE DEF call
  <2> QED BY <1>0, <2>1, <2>2, PendingAfterSelect DEF Fresh
<1>4. ASSUME NEW r \in Requests, ReplaceInsert(r) PROVE SingleUse!Change
  <2>1. generated' = generated /\ uses' = uses /\ calls' = [calls EXCEPT ![r] = Idle]
        /\ recoveryCodes' = recoveryCodes \cup ({calls[r].uid} \X calls[r].codes)
    BY <1>4 DEF ReplaceInsert
  <2>2. calls[r].proc = "replace" /\ calls[r].uid \in Uids /\ calls[r].codes \in SUBSET Codes
    BY <1>0, <1>4, CallFields DEF ReplaceInsert
  <2>3. {calls[r].uid} \X calls[r].codes \subseteq Pending BY <2>2 DEF Pending
  <2>4. /\ Pending' \subseteq Pending
        /\ \A q \in Requests : calls'[q].proc = "replace" => q # r /\ calls'[q] = calls[q]
    BY <1>0, <2>1, PendingAfterAnswer
  <2>5. ({calls[r].uid} \X calls[r].codes) \cap Fresh' = {}
    BY <2>1, <2>2, <2>3, <2>4 DEF Pending, Fresh, CodesUnused
  <2>6. Fresh' \subseteq Fresh BY <2>1, <2>4 DEF Fresh
  <2> QED BY <2>1, <2>3, <2>5, <2>6 DEF SingleUse!Change, Fresh
<1>5. ASSUME NEW r \in Requests, ConsumeDelete(r)
      PROVE  Kept \/ \E p \in Uids \X Codes : SingleUse!Use(p)
  <2> DEFINE row == <<calls[r].uid, calls[r].code>>
  <2>1. row \in Uids \X Codes BY <1>0, <1>5, CallFields DEF ConsumeDelete
  <2>2. Fresh' = Fresh
    BY <1>0, <1>5, PendingAfterAnswer DEF ConsumeDelete, Fresh
  <2> QED BY <1>5, <2>1, <2>2 DEF ConsumeDelete, SingleUse!Use
<1>6. ASSUME NEW r \in Requests, RequestFails(r) PROVE SingleUse!Change
  <2>1. Fresh' \subseteq Fresh
    BY <1>0, <1>6, PendingAfterAnswer DEF RequestFails, recoveryVars, Fresh
  <2> QED BY <1>6, <2>1 DEF RequestFails, recoveryVars, SingleUse!Change
<1>7. ASSUME NEW u \in Uids, DeleteAccount(u) PROVE SingleUse!Change
  BY <1>7 DEF DeleteAccount, SingleUse!Change, Fresh, Pending
<1>8. ASSUME SigninStep \/ UnblockStep \/
               \E C \in SUBSET (SigninIds \cup UnblockIds) : Prune(C)
      PROVE  Kept
  BY <1>0, <1>8, OneTimeActions DEF RecoveryUntouched, Fresh
<1> QED BY <1>1, <1>2, <1>3, <1>4, <1>5, <1>6, <1>7, <1>8
        DEF Next, ReplaceStep, ConsumeStep, SingleUse!Next

(* Recovery codes of the PostgreSQL store are single-use, whatever         *)
(* replacements, consumptions, account deletions and failures overlap.     *)
THEOREM RecoveryCodesSingleUse == Spec => SingleUseSpec
<1>1. Init => SingleUse!Init
  BY DEF Init, SingleUse!Init, Fresh, Pending
<1>2. IInv /\ [Next]_vars => [SingleUse!Next]_SingleUse!vars
  BY StepMaps
<1> QED BY <1>1, <1>2, InductiveInvariant, PTL DEF Spec, SingleUseSpec, SingleUse!Spec

(* So no recovery code of the PostgreSQL store is accepted twice, however  *)
(* many requests consume it at the same time.                              *)
THEOREM RecoveryCodesAcceptedOnce == Spec => []SingleUse!AcceptedOnce
<1>1. IInv => SingleUse!AcceptedOnce BY DEF IInv, CodesUnused, SingleUse!AcceptedOnce
<1> QED BY <1>1, InductiveInvariant, PTL

-----------------------------------------------------------------------------
(* The in-memory store, on the same accounts, codes and requests.          *)
Mem == INSTANCE RecoveryCodesMem

(* Taking an element out of an array of distinct codes takes that code out *)
(* and no other.                                                           *)
LEMMA RemoveAtOne ==
  ASSUME NEW S, NEW s \in Seq(S), NEW i \in DOMAIN s, Mem!IsInjective(s)
  PROVE  /\ Mem!RemoveAt(s, i) \in Seq(S)
         /\ Mem!IsInjective(Mem!RemoveAt(s, i))
         /\ Mem!Range(Mem!RemoveAt(s, i)) = Mem!Range(s) \ {s[i]}
<1> DEFINE a == SubSeq(s, 1, i - 1)
           b == SubSeq(s, i + 1, Len(s))
           t == Mem!RemoveAt(s, i)
<1>1. i \in 1 .. Len(s) /\ Len(s) \in Nat /\ \A j \in 1 .. Len(s) : s[j] \in S OBVIOUS
<1>2. a \in Seq(S) /\ Len(a) = i - 1 /\ \A j \in 1 .. i - 1 : a[j] = s[j]
  BY <1>1, SubSeqProperties
<1>3. b \in Seq(S) /\ Len(b) = Len(s) - i /\ \A j \in 1 .. Len(s) - i : b[j] = s[i + j]
  BY <1>1, SubSeqProperties
<1>4. t = a \o b BY DEF Mem!RemoveAt
<1> HIDE DEF a, b, t
<1>5. /\ t \in Seq(S)
      /\ Len(t) = Len(s) - 1
      /\ \A j \in 1 .. Len(s) - 1 : t[j] = IF j < i THEN s[j] ELSE s[j + 1]
  BY <1>1, <1>2, <1>3, <1>4, ConcatProperties
<1>6. DOMAIN t = 1 .. Len(s) - 1 /\ DOMAIN s = 1 .. Len(s) BY <1>5
<1>7. \A j, k \in DOMAIN s : s[j] = s[k] => j = k BY DEF Mem!IsInjective
<1>8. Mem!IsInjective(t)
  <2>1. SUFFICES ASSUME NEW j \in 1 .. Len(s) - 1, NEW k \in 1 .. Len(s) - 1, t[j] = t[k]
                 PROVE  j = k
    BY <1>6 DEF Mem!IsInjective
  <2> DEFINE at(m) == IF m < i THEN m ELSE m + 1
  <2>2. at(j) \in DOMAIN s /\ at(k) \in DOMAIN s BY <1>1, <1>6
  <2>3. s[at(j)] = s[at(k)] BY <1>5, <2>1
  <2>4. at(j) = at(k) BY <1>7, <2>2, <2>3
  <2> QED BY <1>1, <2>4
<1>9. Mem!Range(t) \subseteq Mem!Range(s) \ {s[i]}
  <2>1. SUFFICES ASSUME NEW j \in 1 .. Len(s) - 1 PROVE t[j] \in Mem!Range(s) \ {s[i]}
    BY <1>6 DEF Mem!Range
  <2>2. PICK k \in DOMAIN s : t[j] = s[k] /\ k # i BY <1>1, <1>5, <1>6
  <2> QED BY <1>7, <2>2 DEF Mem!Range
<1>10. Mem!Range(s) \ {s[i]} \subseteq Mem!Range(t)
  <2>1. SUFFICES ASSUME NEW k \in DOMAIN s, k # i PROVE s[k] \in Mem!Range(t)
    BY DEF Mem!Range
  <2>2. CASE k < i BY <1>1, <1>5, <1>6, <2>2 DEF Mem!Range
  <2>3. CASE k > i
    <3>1. k - 1 \in DOMAIN t /\ t[k - 1] = s[k] BY <1>1, <1>5, <1>6, <2>3
    <3> QED BY <3>1 DEF Mem!Range
  <2> QED BY <1>1, <1>6, <2>1, <2>2, <2>3
<1> QED BY <1>5, <1>8, <1>9, <1>10 DEF t

(* The array of a finite set holds each of its elements once.              *)
LEMMA ArrayOfSet ==
  ASSUME NEW C, IsFiniteSet(C)
  PROVE  /\ Mem!SetToSeq(C) \in Seq(C)
         /\ Mem!IsInjective(Mem!SetToSeq(C))
         /\ Mem!Range(Mem!SetToSeq(C)) \subseteq C
<1> DEFINE n == Cardinality(C)
<1>1. n \in Nat /\ ExistsBijection(1 .. n, C) BY FS_CardinalityType
<1>2. PICK f \in [1 .. n -> C] : Mem!IsInjective(f)
  BY <1>1 DEF ExistsBijection, Bijection, Injection, IsInjective, Mem!IsInjective
<1>3. Mem!SetToSeq(C) \in [1 .. n -> C] /\ Mem!IsInjective(Mem!SetToSeq(C))
  <2>1. Mem!Cardinality(C) = n BY DEF Mem!Cardinality, Cardinality
  <2> HIDE DEF n
  <2> QED BY <1>2, <2>1 DEF Mem!SetToSeq
<1> HIDE DEF n
<1>4. Mem!SetToSeq(C) \in Seq(C) BY <1>1, <1>3
<1> QED BY <1>3, <1>4 DEF Mem!Range

(* The array of an account, if it has one, and the batch it was made from. *)
Array == [batch : SUBSET Codes, codes : Seq(Codes)]

(* What the in-memory proofs need of the constants: replaceRecoveryCodes   *)
(* makes arrays of finitely many codes, and no array is undefined.         *)
ArraysAssumption == IsFiniteSet(Codes) /\ None \notin Array

(* The type invariant of the in-memory store, with the arrays' own type.   *)
MemTyped == Mem!TypeOK /\ recoveryCodes \in [Uids -> Array \cup {None}]

(* The fields of a request that waits for scrypt.                          *)
LEMMA MemCallFields ==
  ASSUME Mem!TypeOK, NEW r \in Requests
  PROVE  /\ calls[r].proc = "replace" => calls[r].uid \in Uids /\ calls[r].codes \in SUBSET Codes
         /\ calls[r].proc = "consume" =>
              /\ calls[r].uid \in Uids /\ calls[r].code \in Codes
              /\ calls[r].batch \in SUBSET Codes /\ calls[r].index \in Nat
BY DEF Mem!TypeOK, Mem!Call, Mem!Idle

(* Each step of the in-memory store keeps its types.  What an array holds  *)
(* is followed through the array of a finite set and the splice.           *)
LEMMA MemTypeStep ==
  ASSUME ArraysAssumption, MemTyped, [Mem!Next]_Mem!vars
  PROVE  MemTyped'
<1> USE DEF MemTyped, Mem!TypeOK
<1>1. CASE UNCHANGED Mem!vars BY <1>1 DEF Mem!vars
<1>2. ASSUME NEW r \in Requests, NEW u \in Uids, Mem!ReplaceStart(r, u) PROVE MemTyped'
  BY <1>2 DEF Mem!ReplaceStart, Mem!Call
<1>3. ASSUME NEW r \in Requests, NEW u \in Uids, Mem!DeleteAccount(r, u) PROVE MemTyped'
  BY <1>3 DEF Mem!DeleteAccount
<1>4. ASSUME NEW r \in Requests, NEW u \in Uids, NEW c \in Codes, Mem!ConsumeStart(r, u, c)
      PROVE  MemTyped'
  <2>1. PICK i \in DOMAIN recoveryCodes[u].codes :
          calls' = [calls EXCEPT ![r] = [proc |-> "consume", uid |-> u, code |-> c,
                                         batch |-> recoveryCodes[u].batch, index |-> i]]
    BY <1>4 DEF Mem!ConsumeStart
  <2>2. recoveryCodes[u] \in Array BY <1>4 DEF Mem!ConsumeStart
  <2>3. i \in Nat /\ recoveryCodes[u].batch \in SUBSET Codes BY <2>1, <2>2 DEF Array
  <2> QED BY <1>4, <2>1, <2>3 DEF Mem!ConsumeStart, Mem!Call
<1>5. ASSUME NEW r \in Requests, Mem!ReplaceAssign(r) PROVE MemTyped'
  <2> DEFINE u == calls[r].uid
             C == calls[r].codes
             array == [batch |-> C, codes |-> Mem!SetToSeq(C)]
  <2>1. u \in Uids /\ C \in SUBSET Codes BY <1>5, MemCallFields DEF Mem!ReplaceAssign
  <2>2. IsFiniteSet(C) BY <2>1, FS_Subset DEF ArraysAssumption
  <2>3. /\ array \in Array
        /\ Mem!Range(array.codes) \subseteq array.batch
        /\ Mem!IsInjective(array.codes)
    <3>1. Mem!SetToSeq(C) \in Seq(Codes) BY <2>1, <2>2, ArrayOfSet
    <3> QED BY <2>1, <2>2, <3>1, ArrayOfSet DEF Array
  <2>4. recoveryCodes' = [recoveryCodes EXCEPT ![u] = array] BY <1>5 DEF Mem!ReplaceAssign
  <2>5. recoveryCodes' \in [Uids -> Array \cup {None}] BY <2>1, <2>3, <2>4
  <2>6. \A v \in Uids : recoveryCodes'[v] = None \/
          /\ recoveryCodes'[v].batch \subseteq Codes
          /\ Mem!Range(recoveryCodes'[v].codes) \subseteq recoveryCodes'[v].batch
          /\ Mem!IsInjective(recoveryCodes'[v].codes)
    <3>1. recoveryCodes'[u] = array BY <2>1, <2>4
    <3>2. array.batch \subseteq Codes BY <2>1
    <3> HIDE DEF u, array
    <3> QED BY <2>3, <2>4, <3>1, <3>2
  <2> QED BY <1>5, <2>5, <2>6 DEF Mem!ReplaceAssign, Mem!Call
<1>6. ASSUME NEW r \in Requests, Mem!ConsumeSplice(r) PROVE MemTyped'
  <2> DEFINE u == calls[r].uid
             stored == recoveryCodes[u]
             rest == Mem!RemoveAt(stored.codes, calls[r].index)
  <2>1. u \in Uids /\ <<u, calls[r].code>> \in Uids \X Codes
    BY <1>6, MemCallFields DEF Mem!ConsumeSplice
  <2>2. calls' \in [Requests -> Mem!Call] BY <1>6 DEF Mem!ConsumeSplice, Mem!Call
  <2>3. uses' \in [Uids \X Codes -> Nat]
    <3> DEFINE p == <<u, calls[r].code>>
    <3>1. uses' = [uses EXCEPT ![p] = @ + 1] BY <1>6 DEF Mem!ConsumeSplice
    <3>2. p \in Uids \X Codes BY <2>1
    <3> HIDE DEF p
    <3> QED BY <3>1, <3>2
  <2>4. CASE recoveryCodes' = recoveryCodes
    BY <1>6, <2>2, <2>3, <2>4 DEF Mem!ConsumeSplice
  <2>5. CASE /\ stored # None /\ calls[r].index \in DOMAIN stored.codes
             /\ recoveryCodes' = [recoveryCodes EXCEPT ![u].codes = rest]
    <3>1. stored \in Array /\ stored.codes \in Seq(Codes) BY <2>1, <2>5 DEF Array
    <3>2. Mem!IsInjective(stored.codes) /\ Mem!Range(stored.codes) \subseteq stored.batch
      BY <2>1, <2>5
    <3>3. /\ rest \in Seq(Codes)
          /\ Mem!IsInjective(rest)
          /\ Mem!Range(rest) \subseteq stored.batch
      BY <2>5, <3>1, <3>2, RemoveAtOne
    <3> DEFINE array == [batch |-> stored.batch, codes |-> rest]
    <3>4. [stored EXCEPT !.codes = rest] = array BY <3>1 DEF Array
    <3>5. recoveryCodes' = [recoveryCodes EXCEPT ![u] = array] BY <2>5, <3>4
    <3>6. array \in Array /\ array.batch \subseteq Codes BY <3>1, <3>3 DEF Array
    <3>7. recoveryCodes' \in [Uids -> Array \cup {None}] BY <2>1, <3>5, <3>6
    <3>8. array.batch = stored.batch /\ array.codes = rest OBVIOUS
    <3>9. \A v \in Uids : recoveryCodes'[v] = None \/
            /\ recoveryCodes'[v].batch \subseteq Codes
            /\ Mem!Range(recoveryCodes'[v].codes) \subseteq recoveryCodes'[v].batch
            /\ Mem!IsInjective(recoveryCodes'[v].codes)
      <4>1. recoveryCodes'[u] = array BY <2>1, <3>5
      <4> HIDE DEF u, array, rest
      <4> QED BY <3>3, <3>5, <3>6, <3>8, <4>1
    <3> QED BY <1>6, <2>2, <2>3, <3>7, <3>9 DEF Mem!ConsumeSplice
  <2> QED BY <1>6, <2>4, <2>5 DEF Mem!ConsumeSplice
<1> QED BY <1>1, <1>2, <1>3, <1>4, <1>5, <1>6 DEF Mem!Next

(* Whatever requests overlap, the in-memory store's arrays hold distinct   *)
(* codes of the batch they were made from.                                 *)
THEOREM MemTypeCorrect ==
  ASSUME ArraysAssumption
  PROVE  Mem!Spec => []Mem!TypeOK
<1>1. Mem!Init => MemTyped
  BY DEF Mem!Init, MemTyped, Mem!TypeOK, Mem!Call, Mem!Idle
<1>2. MemTyped /\ [Mem!Next]_Mem!vars => MemTyped'
  BY MemTypeStep
<1> QED BY <1>1, <1>2, PTL DEF Mem!Spec, MemTyped

(* With one request at a time: the codes that a replacement holds were     *)
(* generated, those in the store too and are not held as well, and the     *)
(* place that a consumption has found is still where its code is.          *)
Serial ==
  /\ \A p \in Mem!Stored \cup Mem!Pending : p[2] \in generated
  /\ Mem!Stored \cap Mem!Pending = {}
  /\ \A r \in Requests : calls[r].proc = "consume" =>
       LET array == recoveryCodes[calls[r].uid]
       IN  /\ array # None
           /\ array.batch = calls[r].batch
           /\ calls[r].index \in DOMAIN array.codes
           /\ array.codes[calls[r].index] = calls[r].code

(* The codes that may still be issued, as SingleUseSpec maps them.         *)
MemFresh == {p \in Uids \X Codes : p[2] \notin generated} \cup Mem!Pending

(* What the one request waits with decides what is pending.                *)
LEMMA MemPending ==
  ASSUME NEW r, Requests = {r}
  PROVE  Mem!Pending = {p \in Uids \X Codes :
           calls[r].proc = "replace" /\ calls[r].uid = p[1] /\ p[2] \in calls[r].codes}
BY DEF Mem!Pending

(* The store changes only at the account that an assignment names.         *)
LEMMA MemStored ==
  ASSUME MemTyped, NEW u \in Uids, NEW array,
         recoveryCodes' = [recoveryCodes EXCEPT ![u] = array]
  PROVE  Mem!Stored' = {p \in Mem!Stored : p[1] # u}
           \cup {p \in {u} \X Codes : array # None /\ p[2] \in Mem!Range(array.codes)}
<1>1. recoveryCodes'[u] = array /\ \A v \in Uids \ {u} : recoveryCodes'[v] = recoveryCodes[v]
  BY DEF MemTyped
<1> QED BY <1>1 DEF Mem!Stored

(* A step of the in-memory store, one request at a time, keeps Serial and  *)
(* is a step of the single-use codes.                                      *)
LEMMA SerialStep ==
  ASSUME ArraysAssumption, MemTyped, MemTyped', Serial, [Mem!Next]_Mem!vars,
         NEW r, Requests = {r}
  PROVE  Serial' /\ [Mem!SingleUse!Next]_Mem!SingleUse!vars
<1> DEFINE Step == [Mem!SingleUse!Next]_Mem!SingleUse!vars
<1>0. r \in Requests /\ \A q \in Requests : q = r OBVIOUS
<1>1. CASE UNCHANGED Mem!vars
  BY <1>1 DEF Mem!vars, Serial, Mem!Stored, Mem!Pending, Mem!SingleUse!vars
<1>2. ASSUME NEW u \in Uids, Mem!ReplaceStart(r, u) PROVE Serial' /\ Step
  <2>1. PICK C \in SUBSET (Codes \ generated) :
          /\ generated' = generated \cup C
          /\ calls' = [calls EXCEPT ![r] = [proc |-> "replace", uid |-> u, codes |-> C]]
    BY <1>2 DEF Mem!ReplaceStart
  <2>2. calls'[r] = [proc |-> "replace", uid |-> u, codes |-> C]
    BY <1>0, <2>1 DEF MemTyped, Mem!TypeOK
  <2>3. Mem!Pending' = {u} \X C BY <1>0, <2>1, <2>2 DEF Mem!Pending
  <2>4. Mem!Stored' = Mem!Stored /\ uses' = uses
    BY <1>2 DEF Mem!ReplaceStart, Mem!Stored
  <2>5. \A p \in {u} \X C : p[2] \in generated' /\ p[2] \notin generated BY <2>1
  <2>6. Mem!Stored' \cap Mem!Pending' = {} BY <2>3, <2>4, <2>5 DEF Serial
  <2>7. Serial' BY <1>0, <2>1, <2>2, <2>3, <2>4, <2>5, <2>6 DEF Serial
  <2>8. MemFresh' \subseteq MemFresh BY <2>1, <2>3, <2>5 DEF MemFresh
  <2> QED BY <2>4, <2>7, <2>8 DEF MemFresh, Mem!SingleUse!Next, Mem!SingleUse!Change
<1>3. ASSUME NEW u \in Uids, Mem!DeleteAccount(r, u) PROVE Serial' /\ Step
  <2>1. /\ recoveryCodes' = [recoveryCodes EXCEPT ![u] = None]
        /\ generated' = generated /\ uses' = uses /\ calls' = calls
        /\ calls[r].proc = "idle"
    BY <1>3 DEF Mem!DeleteAccount, Mem!Idle
  <2>2. Mem!Stored' \subseteq Mem!Stored
    <3>1. \A v \in Uids : recoveryCodes'[v] = None \/ recoveryCodes'[v] = recoveryCodes[v]
      BY <2>1 DEF MemTyped
    <3> QED BY <3>1 DEF Mem!Stored
  <2>3. Mem!Pending' = Mem!Pending BY <2>1 DEF Mem!Pending
  <2>4. Serial' BY <1>0, <2>1, <2>2, <2>3 DEF Serial
  <2>5. MemFresh' = MemFresh BY <2>1, <2>3 DEF MemFresh
  <2> QED BY <2>1, <2>2, <2>4, <2>5 DEF MemFresh, Mem!SingleUse!Next, Mem!SingleUse!Change
<1>4. ASSUME NEW u \in Uids, NEW c \in Codes, Mem!ConsumeStart(r, u, c) PROVE Serial' /\ Step
  <2>1. PICK i \in DOMAIN recoveryCodes[u].codes :
          /\ recoveryCodes[u].codes[i] = c
          /\ calls' = [calls EXCEPT ![r] = [proc |-> "consume", uid |-> u, code |-> c,
                                            batch |-> recoveryCodes[u].batch, index |-> i]]
    BY <1>4 DEF Mem!ConsumeStart
  <2>2. calls'[r] = [proc |-> "consume", uid |-> u, code |-> c,
                     batch |-> recoveryCodes[u].batch, index |-> i]
    BY <1>0, <2>1 DEF MemTyped, Mem!TypeOK
  <2>3. calls[r].proc = "idle" BY <1>4 DEF Mem!ConsumeStart, Mem!Idle
  <2>4. Mem!Pending' = {} /\ Mem!Pending = {} BY <1>0, <2>2, <2>3 DEF Mem!Pending
  <2>5. /\ recoveryCodes' = recoveryCodes /\ generated' = generated /\ uses' = uses
        /\ recoveryCodes[u] # None
    BY <1>4 DEF Mem!ConsumeStart
  <2>6. Mem!Stored' = Mem!Stored BY <2>5 DEF Mem!Stored
  <2>7. Serial' BY <1>0, <2>1, <2>2, <2>4, <2>5, <2>6 DEF Serial
  <2>8. MemFresh' = MemFresh BY <2>4, <2>5 DEF MemFresh
  <2> QED BY <2>5, <2>6, <2>7, <2>8 DEF MemFresh, Mem!SingleUse!vars
<1>5. ASSUME Mem!ReplaceAssign(r) PROVE Serial' /\ Step
  <2> DEFINE u == calls[r].uid
             C == calls[r].codes
             array == [batch |-> C, codes |-> Mem!SetToSeq(C)]
  <2>1. u \in Uids /\ C \in SUBSET Codes
    BY <1>0, <1>5, MemCallFields DEF Mem!ReplaceAssign, MemTyped
  <2>2. IsFiniteSet(C) BY <2>1, FS_Subset DEF ArraysAssumption
  <2>3. Mem!Range(array.codes) \subseteq C BY <2>2, ArrayOfSet
  <2>4. /\ recoveryCodes' = [recoveryCodes EXCEPT ![u] = array]
        /\ generated' = generated /\ uses' = uses
    BY <1>5 DEF Mem!ReplaceAssign
  <2>5. calls'[r].proc = "idle"
    BY <1>0, <1>5 DEF Mem!ReplaceAssign, Mem!Idle, MemTyped, Mem!TypeOK
  <2>6. Mem!Pending' = {} /\ Mem!Pending = {u} \X C
    BY <1>0, <1>5, <2>1, <2>5 DEF Mem!Pending, Mem!ReplaceAssign
  <2>7. Mem!Stored' \subseteq Mem!Stored \cup ({u} \X C)
    <3> HIDE DEF u, C, array
    <3>1. Mem!Stored' = {p \in Mem!Stored : p[1] # u}
            \cup {p \in {u} \X Codes : array # None /\ p[2] \in Mem!Range(array.codes)}
      BY <2>1, <2>4, MemStored
    <3>2. \A p \in {u} \X Codes : p[2] \in C => p \in {u} \X C OBVIOUS
    <3> QED BY <2>3, <3>1, <3>2
  <2>8. Serial'
    <3>1. \A p \in Mem!Stored' \cup Mem!Pending' : p[2] \in generated'
      BY <2>4, <2>6, <2>7 DEF Serial
    <3>2. Mem!Stored' \cap Mem!Pending' = {} BY <2>6
    <3> QED BY <1>0, <2>5, <3>1, <3>2 DEF Serial
  <2>9. MemFresh' \subseteq MemFresh /\ MemFresh' \cap ({u} \X C) = {}
    BY <2>4, <2>6 DEF MemFresh, Serial
  <2>10. Mem!Stored' \subseteq Mem!Stored \cup (MemFresh \ MemFresh')
    BY <2>6, <2>7, <2>9 DEF MemFresh
  <2> QED
    BY <2>4, <2>8, <2>9, <2>10 DEF MemFresh, Mem!SingleUse!Next, Mem!SingleUse!Change
<1>6. ASSUME Mem!ConsumeSplice(r) PROVE Serial' /\ Step
  <2> DEFINE u == calls[r].uid
             c == calls[r].code
             stored == recoveryCodes[u]
             rest == Mem!RemoveAt(stored.codes, calls[r].index)
             array == [batch |-> stored.batch, codes |-> rest]
  <2>1. u \in Uids /\ c \in Codes
    BY <1>0, <1>6, MemCallFields DEF Mem!ConsumeSplice, MemTyped
  <2>2. /\ stored # None /\ stored.batch = calls[r].batch
        /\ calls[r].index \in DOMAIN stored.codes /\ stored.codes[calls[r].index] = c
    BY <1>0, <1>6 DEF Serial, Mem!ConsumeSplice
  <2>3. stored \in Array /\ stored.codes \in Seq(Codes) BY <2>1, <2>2 DEF MemTyped, Array
  <2>4. Mem!IsInjective(stored.codes) BY <2>1, <2>2 DEF MemTyped, Mem!TypeOK
  <2>5. rest \in Seq(Codes) /\ Mem!Range(rest) = Mem!Range(stored.codes) \ {c}
    BY <2>2, <2>3, <2>4, RemoveAtOne
  <2>6. recoveryCodes' = [recoveryCodes EXCEPT ![u] = array]
    <3>1. [stored EXCEPT !.codes = rest] = array BY <2>3 DEF Array
    <3>2. recoveryCodes' = [recoveryCodes EXCEPT ![u].codes = rest]
      BY <1>6, <2>2 DEF Mem!ConsumeSplice
    <3> QED BY <3>1, <3>2
  <2>7. generated' = generated /\ uses' = [uses EXCEPT ![<<u, c>>] = @ + 1]
    BY <1>6 DEF Mem!ConsumeSplice
  <2>8. calls'[r].proc = "idle" /\ calls[r].proc = "consume"
    BY <1>0, <1>6 DEF Mem!ConsumeSplice, Mem!Idle, MemTyped, Mem!TypeOK
  <2>9. Mem!Pending' = {} /\ Mem!Pending = {} BY <1>0, <2>8 DEF Mem!Pending
  <2>10. Mem!Stored' = Mem!Stored \ {<<u, c>>} /\ <<u, c>> \in Mem!Stored
    <3>1. array \in Array /\ array # None BY <2>3, <2>5 DEF Array, ArraysAssumption
    <3>2. array.codes = rest OBVIOUS
    <3>3. c \in Mem!Range(stored.codes) BY <2>2 DEF Mem!Range
    <3>4. Mem!Stored' = {p \in Mem!Stored : p[1] # u}
            \cup {p \in {u} \X Codes : p[2] \in Mem!Range(stored.codes) \ {c}}
      <4> HIDE DEF array, rest, stored, u, c
      <4> QED BY <2>1, <2>5, <2>6, <3>1, <3>2, MemStored
    <3>5. \A p \in Uids \X Codes : p[1] = u =>
            (p \in Mem!Stored <=> p[2] \in Mem!Range(stored.codes))
      BY <2>2 DEF Mem!Stored
    <3>6. <<u, c>> \in Mem!Stored BY <2>1, <2>2, <3>3 DEF Mem!Stored
    <3>7. Mem!Stored \subseteq Uids \X Codes BY DEF Mem!Stored
    <3> HIDE DEF array, rest, stored, u, c
    <3> QED BY <2>1, <3>4, <3>5, <3>6, <3>7
  <2>11. Serial'
    <3>1. \A p \in Mem!Stored' \cup Mem!Pending' : p[2] \in generated'
      BY <2>7, <2>9, <2>10 DEF Serial
    <3> QED BY <1>0, <2>8, <2>9, <3>1 DEF Serial
  <2>12. MemFresh' = MemFresh BY <2>7, <2>9 DEF MemFresh
  <2>13. Mem!SingleUse!Use(<<u, c>>)
    BY <2>7, <2>10, <2>12 DEF MemFresh, Mem!SingleUse!Use
  <2> QED BY <2>1, <2>11, <2>13 DEF Mem!SingleUse!Next
<1> QED BY <1>0, <1>1, <1>2, <1>3, <1>4, <1>5, <1>6 DEF Mem!Next

(* Recovery codes of the in-memory store are single-use as long as one     *)
(* request is answered before the next arrives, whatever the accounts and  *)
(* codes.  Two requests at a time are enough to break it.                  *)
THEOREM MemSingleUse ==
  ASSUME ArraysAssumption, NEW CONSTANT r, Requests = {r}
  PROVE  Mem!Spec => Mem!SingleUseSpec
<1>1. Mem!Init => MemTyped /\ Serial /\ Mem!SingleUse!Init
  BY DEF Mem!Init, MemTyped, Mem!TypeOK, Mem!Call, Mem!Idle, Serial, Mem!Stored, Mem!Pending,
         Mem!SingleUse!Init
<1>2. MemTyped /\ Serial /\ [Mem!Next]_Mem!vars =>
        (MemTyped /\ Serial)' /\ [Mem!SingleUse!Next]_Mem!SingleUse!vars
  BY MemTypeStep, SerialStep
<1> QED BY <1>1, <1>2, PTL DEF Mem!Spec, Mem!SingleUseSpec, Mem!SingleUse!Spec

(* A code that may be issued or is stored has not been consumed: what the  *)
(* steps of the single-use codes keep.                                     *)
MemUsed ==
  \A p \in Uids \X Codes :
    uses[p] <= 1 /\ (p \in Mem!Stored \cup MemFresh => uses[p] = 0)

LEMMA MemUsedStep ==
  ASSUME MemTyped, Serial, MemUsed, [Mem!SingleUse!Next]_Mem!SingleUse!vars
  PROVE  MemUsed'
<1> USE DEF MemUsed
<1>1. uses \in [Uids \X Codes -> Nat] BY DEF MemTyped, Mem!TypeOK
<1>2. \A p \in Mem!Stored : p \notin MemFresh BY DEF Serial, MemFresh
<1>3. CASE UNCHANGED Mem!SingleUse!vars
  <2>1. uses' = uses /\ Mem!Stored' = Mem!Stored /\ MemFresh' = MemFresh
    BY <1>3 DEF Mem!SingleUse!vars, MemFresh
  <2> QED BY <2>1
<1>4. CASE Mem!SingleUse!Change
  <2>1. uses' = uses /\ MemFresh' \subseteq MemFresh /\ Mem!Stored' \subseteq Mem!Stored \cup MemFresh
    BY <1>4 DEF Mem!SingleUse!Change, MemFresh
  <2> QED BY <2>1
<1>5. ASSUME NEW p \in Uids \X Codes, Mem!SingleUse!Use(p) PROVE MemUsed'
  <2>1. /\ p \in Mem!Stored /\ Mem!Stored' = Mem!Stored \ {p}
        /\ uses' = [uses EXCEPT ![p] = @ + 1] /\ MemFresh' = MemFresh
    BY <1>5 DEF Mem!SingleUse!Use, MemFresh
  <2>2. uses'[p] = 1 /\ \A q \in (Uids \X Codes) \ {p} : uses'[q] = uses[q] BY <1>1, <2>1
  <2>3. p \notin Mem!Stored' \cup MemFresh' BY <1>2, <2>1
  <2> QED BY <2>1, <2>2, <2>3
<1> QED BY <1>3, <1>4, <1>5 DEF Mem!SingleUse!Next

(* With one request at a time no code of the in-memory store is consumed   *)
(* twice, for any accounts and codes: what MemRecoveryTwice shows to fail  *)
(* with two requests at a time.                                            *)
THEOREM MemConsumedOnce ==
  ASSUME ArraysAssumption, NEW CONSTANT r, Requests = {r}
  PROVE  Mem!Spec => []Mem!ConsumedOnce
<1>1. Mem!Init => MemTyped /\ Serial /\ MemUsed
  BY DEF Mem!Init, MemTyped, Mem!TypeOK, Mem!Call, Mem!Idle, Serial, Mem!Stored, Mem!Pending,
         MemUsed
<1>2. MemTyped /\ Serial /\ MemUsed /\ [Mem!Next]_Mem!vars => (MemTyped /\ Serial /\ MemUsed)'
  BY MemTypeStep, SerialStep, MemUsedStep
<1>3. MemUsed => Mem!ConsumedOnce BY DEF MemUsed, Mem!ConsumedOnce
<1> QED BY <1>1, <1>2, <1>3, PTL DEF Mem!Spec
=============================================================================
