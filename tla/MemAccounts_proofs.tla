------------------------- MODULE MemAccounts_proofs -------------------------
(***************************************************************************)
(* Proofs about MemAccounts, for any number of accounts, addresses, tokens *)
(* and waiting callbacks.                                                  *)
(***************************************************************************)
EXTENDS MemAccounts, TLAPS

(* The fields of an object in emails.                                      *)
LEMMA Fields ==
  ASSUME TypeOK, NEW a \in Addresses, emails[a] # None
  PROVE  /\ emails[a] \in Email
         /\ emails[a].uid \in Uids
         /\ emails[a].isPrimary \in BOOLEAN
         /\ emails[a].isVerified \in BOOLEAN
BY DEF TypeOK, Email

(* The fields of the callback at the head of the queue, and the rest.      *)
LEMMA AfterTurn ==
  ASSUME TypeOK, NEW proc, Turn(proc)
  PROVE  /\ Head(queue) \in Callback /\ Head(queue).proc = proc /\ Head(queue).uid \in Uids
         /\ proc \in {"verifyEmail", "deleteAccount"} => Head(queue).address \in Addresses
         /\ 1 \in 1..Len(queue) /\ Head(queue) = queue[1]
         /\ queue' \in Seq(Callback)
         /\ \A i \in 1..Len(queue') : i + 1 \in 1..Len(queue) /\ queue'[i] = queue[i + 1]
         /\ draining' \in BOOLEAN
         /\ Len(queue') > 0 => draining' = TRUE
<1> USE DEF TypeOK
<1>1. queue \in Seq(Callback) /\ queue # <<>> /\ queue' = Tail(queue) BY DEF Turn
<1>2. Len(queue) \in Nat /\ Len(queue) > 0 BY <1>1
<1>3. Head(queue) = queue[1] /\ 1 \in 1..Len(queue) BY <1>1, <1>2
<1>4. Head(queue) \in Callback /\ Head(queue).proc = proc BY <1>1, <1>3 DEF Turn
<1>5. /\ Head(queue).uid \in Uids
      /\ proc \in {"verifyEmail", "deleteAccount"} => Head(queue).address \in Addresses
  BY <1>4 DEF Callback
<1>6. queue' \in Seq(Callback) /\ Len(queue') = Len(queue) - 1 BY <1>1, <1>2
<1>7. \A i \in 1..Len(queue') : i + 1 \in 1..Len(queue) /\ queue'[i] = queue[i + 1]
  BY <1>1, <1>2, <1>6
<1>8. draining' = (Len(queue) > 1) BY DEF Turn
<1>9. (Len(queue) > 1) \in BOOLEAN BY <1>2
<1>10. draining' \in BOOLEAN BY <1>8, <1>9, Zenon
<1>11. Len(queue') > 0 => Len(queue) > 1 BY <1>2, <1>6
<1>12. Len(queue') > 0 => draining' = TRUE BY <1>8, <1>11
<1> QED BY <1>3, <1>4, <1>5, <1>6, <1>7, <1>10, <1>12

(* A callback joins the queue.                                             *)
LEMMA AfterLater ==
  ASSUME TypeOK, NEW u \in Uids, NEW call \in Callback, Later(u, call)
  PROVE  /\ queue' \in Seq(Callback)
         /\ Len(queue') = Len(queue) + 1
         /\ queue'[Len(queue')] = call
         /\ \A i \in 1..Len(queue) : queue'[i] = queue[i]
BY DEF TypeOK, Later

LEMMA WithoutUidType ==
  ASSUME NEW tokens \in [TokenIds -> Uids \cup {None}], NEW u \in Uids
  PROVE  /\ WithoutUid(tokens, u) \in [TokenIds -> Uids \cup {None}]
         /\ \A t \in TokenIds : WithoutUid(tokens, u)[t] = IF tokens[t] = u THEN None ELSE tokens[t]
         /\ \A t \in TokenIds :
              [WithoutUid(tokens, u) EXCEPT ![t] = u] \in [TokenIds -> Uids \cup {None}]
BY DEF WithoutUid

-----------------------------------------------------------------------------
(* The type invariant is inductive by itself.                              *)
LEMMA TypeStep == ASSUME TypeOK, [Next]_vars PROVE TypeOK'
<1> USE DEF TypeOK, addressVars, tokenVars, factorVars
<1>1. CASE UNCHANGED vars BY <1>1 DEF vars, loopVars
<1>2. ASSUME NEW u \in Uids, NEW a \in Addresses, NEW v \in BOOLEAN, CreateAccount(u, a, v)
      PROVE  TypeOK'
  BY <1>2 DEF CreateAccount, Handler, Email
<1>3. ASSUME NEW u \in Uids, NEW t \in TokenIds,
             CreatePasswordForgotToken(u, t) \/ CreatePasswordChangeToken(u, t)
      PROVE  TypeOK'
  <2>1. CASE CreatePasswordForgotToken(u, t)
    <3>1. passwordForgotTokens' \in [TokenIds -> Uids \cup {None}]
      BY <2>1, WithoutUidType DEF CreatePasswordForgotToken
    <3> QED BY <2>1, <3>1 DEF CreatePasswordForgotToken, Issue, Handler
  <2>2. CASE CreatePasswordChangeToken(u, t)
    <3>1. passwordChangeTokens' \in [TokenIds -> Uids \cup {None}]
      BY <2>2, WithoutUidType DEF CreatePasswordChangeToken
    <3> QED BY <2>2, <3>1 DEF CreatePasswordChangeToken, Issue, Handler
  <2> QED BY <1>3, <2>1, <2>2
<1>4. CASE DeleteTokenStep
  BY <1>4 DEF DeleteTokenStep, DeletePasswordForgotToken, DeletePasswordChangeToken,
     DeleteAccountResetToken, Handler
<1>5. ASSUME NEW u \in Uids, NEW a \in Addresses, VerifyEmail(u, a) PROVE TypeOK'
  <2>1. [proc |-> "verifyEmail", uid |-> u, address |-> a] \in Callback BY DEF Callback
  <2>2. queue' \in Seq(Callback) BY <1>5, <2>1, AfterLater DEF VerifyEmail
  <2> QED BY <1>5, <2>2 DEF VerifyEmail, Handler
<1>6. ASSUME NEW u \in Uids, NEW t \in TokenIds, NEW n \in TokenIds, ForgotPasswordVerified(u, t, n)
      PROVE  TypeOK'
  <2>1. queue' \in Seq(Callback)
    <3>1. CASE Exists(u)
      <4>1. [proc |-> "verifyEmail", uid |-> u, address |-> accounts[u]] \in Callback
        BY <3>1 DEF Callback, Exists
      <4> QED BY <1>6, <3>1, <4>1, AfterLater DEF ForgotPasswordVerified
    <3>2. CASE ~Exists(u) BY <1>6, <3>2 DEF ForgotPasswordVerified
    <3> QED BY <3>1, <3>2
  <2> QED BY <1>6, <2>1, WithoutUidType DEF ForgotPasswordVerified, Issue, Handler
<1>7. ASSUME NEW u \in Uids,
             NEW proc \in {"resetAccount", "createRecoveryKey", "deleteRecoveryKey"},
             Handler, Later(u, [proc |-> proc, uid |-> u]),
             UNCHANGED <<addressVars, tokenVars, factorVars>>
      PROVE  TypeOK'
  <2>1. [proc |-> proc, uid |-> u] \in Callback BY DEF Callback
  <2>2. queue' \in Seq(Callback) BY <1>7, <2>1, AfterLater
  <2> QED BY <1>7, <2>2 DEF Handler
<1>8. ASSUME NEW u \in Uids, DeleteAccount(u) PROVE TypeOK'
  <2>1. [proc |-> "deleteAccount", uid |-> u, address |-> accounts[u]] \in Callback
    BY <1>8 DEF DeleteAccount, Later, Exists, Callback
  <2>2. queue' \in Seq(Callback) BY <1>8, <2>1, AfterLater DEF DeleteAccount
  <2> QED BY <1>8, <2>2 DEF DeleteAccount, Handler
<1>9. ASSUME NEW u \in Uids, ResetAccountTokens(u) PROVE TypeOK'
  BY <1>9, WithoutUidType DEF ResetAccountTokens, EndTokens, TokensOf, Handler
<1>10. ASSUME VerifyEmailTurn PROVE TypeOK'
  <2>1. Turn("verifyEmail") BY <1>10 DEF VerifyEmailTurn
  <2>2. /\ Head(queue).uid \in Uids /\ Head(queue).address \in Addresses
        /\ queue' \in Seq(Callback) /\ draining' \in BOOLEAN
    BY <2>1, AfterTurn
  <2>3. PICK u \in Uids, a \in Addresses : u = Head(queue).uid /\ a = Head(queue).address BY <2>2
  <2>4. EmailOf(u, a) => [emails[a] EXCEPT !.isVerified = TRUE] \in Email
    BY Fields DEF EmailOf, Email
  <2>5. emails' \in [Addresses -> Email \cup {None}] BY <1>10, <2>3, <2>4 DEF VerifyEmailTurn
  <2> QED BY <1>10, <2>2, <2>5 DEF VerifyEmailTurn
<1>11. ASSUME ResetAccountTurn PROVE TypeOK'
  <2>1. Turn("resetAccount") BY <1>11 DEF ResetAccountTurn
  <2>2. Head(queue).uid \in Uids /\ queue' \in Seq(Callback) /\ draining' \in BOOLEAN
    BY <2>1, AfterTurn
  <2> QED BY <1>11, <2>2, WithoutUidType DEF ResetAccountTurn, EndTokens, TokensOf
<1>12. ASSUME DeleteAccountTurn PROVE TypeOK'
  <2>1. Turn("deleteAccount") BY <1>12 DEF DeleteAccountTurn
  <2>2. /\ Head(queue).uid \in Uids /\ Head(queue).address \in Addresses
        /\ queue' \in Seq(Callback) /\ draining' \in BOOLEAN
    BY <2>1, AfterTurn
  <2> QED BY <1>12, <2>2, WithoutUidType DEF DeleteAccountTurn, EndTokens, TokensOf
<1>13. ASSUME NEW u \in Uids, NEW a \in Addresses, NEW v \in BOOLEAN, CreateEmail(u, a, v)
      PROVE  TypeOK'
  BY <1>13 DEF CreateEmail, Handler, Email
<1>14. ASSUME NEW u \in Uids, NEW a \in Addresses, SetPrimaryEmail(u, a) PROVE TypeOK'
  <2>1. \A b \in Addresses, p \in BOOLEAN :
          emails[b] # None => [emails[b] EXCEPT !.isPrimary = p] \in Email
    BY Fields DEF Email
  <2>2. emails' \in [Addresses -> Email \cup {None}]
    BY <1>14, <2>1 DEF SetPrimaryEmail, EmailOf
  <2>3. foreign' \in BOOLEAN BY <1>14, Zenon DEF SetPrimaryEmail
  <2> QED BY <1>14, <2>2, <2>3 DEF SetPrimaryEmail, Handler
<1>15. ASSUME NEW u \in Uids, NEW a \in Addresses, DeleteEmail(u, a) PROVE TypeOK'
  BY <1>15 DEF DeleteEmail, Handler
<1>16. ASSUME NEW u \in Uids, CreateTotpToken(u) \/ DeleteTotpToken(u) PROVE TypeOK'
  BY <1>16 DEF CreateTotpToken, DeleteTotpToken, Handler
<1>17. ASSUME CreateRecoveryKeyTurn \/ DeleteRecoveryKeyTurn PROVE TypeOK'
  <2>1. PICK proc \in {"createRecoveryKey", "deleteRecoveryKey"} : Turn(proc)
    BY <1>17 DEF CreateRecoveryKeyTurn, DeleteRecoveryKeyTurn
  <2>2. Head(queue).uid \in Uids /\ queue' \in Seq(Callback) /\ draining' \in BOOLEAN
    BY <2>1, AfterTurn
  <2> QED BY <1>17, <2>2 DEF CreateRecoveryKeyTurn, DeleteRecoveryKeyTurn
<1>18. \A u \in Uids : ResetAccount(u) \/ CreateRecoveryKey(u) \/ DeleteRecoveryKey(u) => TypeOK'
  BY <1>7 DEF ResetAccount, CreateRecoveryKey, DeleteRecoveryKey
<1> QED
  BY <1>1, <1>2, <1>3, <1>4, <1>5, <1>6, <1>8, <1>9, <1>10, <1>11, <1>12, <1>13, <1>14, <1>15,
     <1>16, <1>17, <1>18
  DEF Next, CreateStep, BatchStep, EmailStep, FactorStep
-----------------------------------------------------------------------------
(* The callbacks that wait.                                                *)
LEMMA QueueSame ==
  ASSUME QueueOK, UNCHANGED <<accounts, uidByNormalizedEmail, queue, draining>>
  PROVE  QueueOK'
BY DEF QueueOK, ClosingKnows

LEMMA QueueLater ==
  ASSUME TypeOK, QueueOK, Handler, NEW u \in Uids, NEW call \in Callback, Later(u, call),
         call.proc = "deleteAccount" => accounts[call.uid] = call.address,
         UNCHANGED <<accounts, uidByNormalizedEmail>>
  PROVE  QueueOK'
<1> SUFFICES ASSUME NEW i \in 1..Len(queue') PROVE ClosingKnows(queue[i])' BY DEF QueueOK
<1>1. Len(queue) \in Nat BY DEF TypeOK
<1>2. CASE i \in 1..Len(queue)
  <2>1. queue'[i] = queue[i] BY <1>2, AfterLater
  <2> QED BY <1>2, <2>1 DEF QueueOK, ClosingKnows, Handler
<1>3. CASE i = Len(queue')
  <2>1. queue'[i] = call BY <1>3, AfterLater
  <2> QED BY <2>1 DEF ClosingKnows
<1> QED BY <1>1, <1>2, <1>3, AfterLater

LEMMA QueueTurn ==
  ASSUME TypeOK, QueueOK, NEW proc, Turn(proc), UNCHANGED <<accounts, uidByNormalizedEmail>>
  PROVE  QueueOK'
<1> SUFFICES ASSUME NEW i \in 1..Len(queue') PROVE ClosingKnows(queue[i])' BY DEF QueueOK
<1>1. i + 1 \in 1..Len(queue) /\ queue'[i] = queue[i + 1] BY AfterTurn
<1>2. Len(queue') > 0
  <2>1. queue' \in Seq(Callback) BY AfterTurn
  <2> QED BY <2>1
<1>3. draining' = TRUE BY <1>2, AfterTurn
<1> QED BY <1>1, <1>3 DEF QueueOK, ClosingKnows

(* What most actions leave alone: whose an address is by the accounts and  *)
(* by the index.                                                           *)
IndexVars == <<accounts, uidByNormalizedEmail, known>>

LEMMA QueueStep == ASSUME TypeOK, QueueOK, [Next]_vars, UNCHANGED IndexVars PROVE QueueOK'
<1> USE DEF IndexVars
<1>1. CASE UNCHANGED queue /\ (Handler \/ UNCHANGED vars)
  BY <1>1, QueueSame DEF Handler, vars, loopVars
<1>2. ASSUME NEW proc, Turn(proc) PROVE QueueOK' BY <1>2, QueueTurn
<1>3. ASSUME NEW u \in Uids, NEW a \in Addresses, Handler,
             Later(u, [proc |-> "verifyEmail", uid |-> u, address |-> a])
      PROVE  QueueOK'
  <2>1. [proc |-> "verifyEmail", uid |-> u, address |-> a] \in Callback BY DEF Callback
  <2> QED BY <1>3, <2>1, QueueLater
<1>4. ASSUME NEW u \in Uids,
             NEW proc \in {"resetAccount", "createRecoveryKey", "deleteRecoveryKey"},
             Handler, Later(u, [proc |-> proc, uid |-> u])
      PROVE  QueueOK'
  <2>1. [proc |-> proc, uid |-> u] \in Callback BY DEF Callback
  <2> QED BY <1>4, <2>1, QueueLater
<1>5. ASSUME NEW u \in Uids, DeleteAccount(u) PROVE QueueOK'
  <2>1. accounts[u] \in Addresses BY <1>5 DEF DeleteAccount, Later, Exists, TypeOK
  <2>2. [proc |-> "deleteAccount", uid |-> u, address |-> accounts[u]] \in Callback
    BY <2>1 DEF Callback
  <2> QED BY <1>5, <2>2, QueueLater DEF DeleteAccount
<1>6. ASSUME NEW u \in Uids, NEW t \in TokenIds, NEW n \in TokenIds, ForgotPasswordVerified(u, t, n)
      PROVE  QueueOK'
  <2>1. CASE Exists(u)
    <3>1. accounts[u] \in Addresses BY <2>1 DEF Exists, TypeOK
    <3> QED BY <1>6, <2>1, <3>1, <1>3 DEF ForgotPasswordVerified
  <2>2. CASE ~Exists(u) BY <1>6, <2>2, <1>1 DEF ForgotPasswordVerified
  <2> QED BY <2>1, <2>2
<1>7. ASSUME CreateStep \/ DeleteTokenStep \/ EmailStep PROVE QueueOK'
  <2>1. UNCHANGED queue /\ Handler
    BY <1>7 DEF CreateStep, CreateAccount, CreatePasswordForgotToken, CreatePasswordChangeToken,
       DeleteTokenStep, DeletePasswordForgotToken, DeletePasswordChangeToken,
       DeleteAccountResetToken, EmailStep, CreateEmail, SetPrimaryEmail, DeleteEmail
  <2> QED BY <2>1, <1>1
<1>8. ASSUME FactorStep PROVE QueueOK'
  BY <1>8, <1>1, <1>2, <1>4
  DEF FactorStep, CreateTotpToken, DeleteTotpToken, CreateRecoveryKey, DeleteRecoveryKey,
      CreateRecoveryKeyTurn, DeleteRecoveryKeyTurn
<1>9. ASSUME BatchStep PROVE QueueOK'
  BY <1>9, <1>1, <1>2, <1>3, <1>4, <1>5, <1>6
  DEF BatchStep, VerifyEmail, ResetAccount, ResetAccountTokens, VerifyEmailTurn, ResetAccountTurn,
      DeleteAccountTurn
<1>10. CASE UNCHANGED vars BY <1>10, <1>1 DEF vars, loopVars
<1> QED BY <1>7, <1>8, <1>9, <1>10 DEF Next
-----------------------------------------------------------------------------
(* Whose an address is.                                                    *)
AddressesOK == RecordsAgree /\ QueueOK /\ OnePrimaryUnlessForeign /\ NothingForUnknown

(* Most actions leave all of it alone.                                     *)
LEMMA AddressesKept ==
  ASSUME [Next]_vars, ~EmailStep, ~VerifyEmailTurn, ~DeleteAccountTurn,
         ~\E u \in Uids, a \in Addresses, v \in BOOLEAN : CreateAccount(u, a, v)
  PROVE  UNCHANGED addressVars
BY DEF Next, vars, addressVars, CreateStep, CreatePasswordForgotToken, CreatePasswordChangeToken,
   DeleteTokenStep, DeletePasswordForgotToken, DeletePasswordChangeToken, DeleteAccountResetToken,
   BatchStep, VerifyEmail, ForgotPasswordVerified, ResetAccount, DeleteAccount, ResetAccountTokens,
   ResetAccountTurn, FactorStep, CreateTotpToken, DeleteTotpToken, CreateRecoveryKey,
   DeleteRecoveryKey, CreateRecoveryKeyTurn, DeleteRecoveryKeyTurn

(* Objects may go, but not primary ones, and what is left keeps its owner  *)
(* and its primary flag.                                                   *)
LEMMA SamePrimaries ==
  ASSUME TypeOK, TypeOK', AddressesOK, UNCHANGED IndexVars, UNCHANGED foreign,
         \A u \in Uids, a \in Addresses :
           (EmailOf(u, a)' => EmailOf(u, a)) /\ (IsPrimary(u, a)' <=> IsPrimary(u, a))
  PROVE  RecordsAgree' /\ OnePrimaryUnlessForeign' /\ NothingForUnknown'
<1> USE MemAccountsAssumption DEF IndexVars, AddressesOK
<1>1. ASSUME NEW a \in Addresses PROVE AccountRecord(a)' \in {None, AccountRecord(a)}
  <2>1. CASE emails'[a] = None BY <2>1 DEF AccountRecord
  <2>2. CASE emails'[a] # None
    <3>1. PICK u \in Uids : u = emails'[a].uid BY <2>2 DEF TypeOK, Email
    <3>2. EmailOf(u, a)' BY <2>2, <3>1 DEF EmailOf
    <3>3. EmailOf(u, a) BY <3>2
    <3> QED BY <3>1, <3>2, <3>3 DEF EmailOf, AccountRecord
  <2> QED BY <2>1, <2>2
<1>2. RecordsAgree' BY <1>1 DEF RecordsAgree, EmailRecord
<1>3. OnePrimaryUnlessForeign' BY DEF OnePrimaryUnlessForeign, Exists
<1>4. NothingForUnknown' BY DEF NothingForUnknown, Exists
<1> QED BY <1>2, <1>3, <1>4

LEMMA CreateAccountKeeps ==
  ASSUME TypeOK, AddressesOK, NEW u \in Uids, NEW a \in Addresses, NEW v \in BOOLEAN,
         CreateAccount(u, a, v)
  PROVE  AddressesOK'
<1> USE MemAccountsAssumption DEF AddressesOK
<1> DEFINE new == [uid |-> u, isPrimary |-> TRUE, isVerified |-> v]
<1>1. new \in Email BY DEF Email
<1>2. new # None BY <1>1
<1>3. /\ emails'[a] = new /\ emails[a] = None
      /\ \A b \in Addresses \ {a} : emails'[b] = emails[b]
      /\ accounts'[u] = a /\ \A w \in Uids \ {u} : accounts'[w] = accounts[w]
      /\ uidByNormalizedEmail'[a] = u /\ uidByNormalizedEmail[a] = None
      /\ \A b \in Addresses \ {a} : uidByNormalizedEmail'[b] = uidByNormalizedEmail[b]
      /\ u \notin known /\ known' = known \cup {u} /\ foreign' = foreign
      /\ queue' = queue /\ draining = FALSE /\ draining' = FALSE
  BY DEF CreateAccount, Handler, TypeOK
<1> HIDE DEF new
<1>4. accounts[u] = None /\ \A b \in Addresses : ~EmailOf(u, b)
  BY <1>3 DEF NothingForUnknown, Exists
<1>5. new.uid = u /\ new.isPrimary = TRUE BY DEF new
<1>6. RecordsAgree'
  <2>1. ASSUME NEW b \in Addresses, NEW w \in Uids
        PROVE  uidByNormalizedEmail'[b] = w <=> accounts'[w] = b
    BY <1>3, <1>4 DEF RecordsAgree
  <2>2. ASSUME NEW b \in Addresses \ {a}
        PROVE  None \in {EmailRecord(b)', AccountRecord(b)'} \/ EmailRecord(b)' = AccountRecord(b)'
    BY <1>3 DEF RecordsAgree, EmailRecord, AccountRecord
  <2>3. EmailRecord(a)' = AccountRecord(a)'
    BY <1>2, <1>3, <1>5 DEF EmailRecord, AccountRecord
  <2> QED BY <2>1, <2>2, <2>3 DEF RecordsAgree
<1>7. QueueOK'
  <2> SUFFICES ASSUME NEW i \in 1..Len(queue) PROVE ClosingKnows(queue[i])' BY <1>3 DEF QueueOK
  <2>1. queue[i] \in Callback /\ queue'[i] = queue[i] BY <1>3 DEF TypeOK
  <2>2. CASE queue[i].proc = "deleteAccount"
    <3>1. /\ queue[i].uid \in Uids /\ queue[i].address \in Addresses
          /\ accounts[queue[i].uid] = queue[i].address
      BY <1>3, <2>1, <2>2 DEF QueueOK, ClosingKnows, Callback
    <3>2. queue[i].uid # u BY <1>4, <3>1
    <3> QED BY <1>3, <2>1, <3>1, <3>2 DEF ClosingKnows
  <2>3. CASE queue[i].proc # "deleteAccount" BY <2>1, <2>3 DEF ClosingKnows
  <2> QED BY <2>2, <2>3
<1>8. /\ \A w \in Uids \ {u}, b \in Addresses :
           (EmailOf(w, b)' <=> EmailOf(w, b)) /\ (IsPrimary(w, b)' <=> IsPrimary(w, b))
      /\ IsPrimary(u, a)' /\ \A b \in Addresses \ {a} : ~IsPrimary(u, b)'
  BY <1>2, <1>3, <1>4, <1>5 DEF EmailOf, IsPrimary
<1>9. OnePrimaryUnlessForeign' /\ NothingForUnknown'
  BY <1>3, <1>8 DEF OnePrimaryUnlessForeign, NothingForUnknown, Exists
<1> QED BY <1>6, <1>7, <1>9

(* What deleteAccount's callback finds and leaves.                         *)
LEMMA ClosingFinds ==
  ASSUME TypeOK, AddressesOK, DeleteAccountTurn
  PROVE  \E u \in Uids, a \in Addresses :
           /\ u = Head(queue).uid /\ a = Head(queue).address
           /\ accounts[u] \in {a, None} /\ uidByNormalizedEmail[a] \in {u, None}
           /\ accounts'[u] = None /\ \A w \in Uids \ {u} : accounts'[w] = accounts[w]
           /\ uidByNormalizedEmail'[a] = None
           /\ \A b \in Addresses \ {a} : uidByNormalizedEmail'[b] = uidByNormalizedEmail[b]
           /\ \A b \in Addresses : emails'[b] = IF EmailOf(u, b) THEN None ELSE emails[b]
           /\ EndTokens(u)
           /\ totpTokens' = totpTokens \ {u} /\ recoveryKeys' = recoveryKeys \ {u}
           /\ known' = known /\ foreign' = foreign
<1> USE DEF AddressesOK
<1>1. Turn("deleteAccount") BY DEF DeleteAccountTurn
<1>2. PICK u \in Uids, a \in Addresses : u = Head(queue).uid /\ a = Head(queue).address
  BY <1>1, AfterTurn
<1>3. ClosingKnows(Head(queue)) BY <1>1, AfterTurn DEF QueueOK
<1>4. accounts[u] = a \/ (accounts[u] = None /\ uidByNormalizedEmail[a] = None)
  BY <1>1, <1>2, <1>3, AfterTurn DEF ClosingKnows
<1>5. accounts[u] = a => uidByNormalizedEmail[a] = u BY DEF RecordsAgree
<1>6. /\ accounts' = [accounts EXCEPT ![u] = None]
      /\ uidByNormalizedEmail' = [uidByNormalizedEmail EXCEPT ![a] = None]
      /\ emails' = [b \in Addresses |-> IF EmailOf(u, b) THEN None ELSE emails[b]]
      /\ EndTokens(u)
      /\ totpTokens' = totpTokens \ {u} /\ recoveryKeys' = recoveryKeys \ {u}
      /\ known' = known /\ foreign' = foreign
  BY <1>2 DEF DeleteAccountTurn
<1> QED BY <1>2, <1>4, <1>5, <1>6 DEF TypeOK
LEMMA DeleteAccountKeeps ==
  ASSUME TypeOK, AddressesOK, DeleteAccountTurn
  PROVE  AddressesOK'
<1> USE MemAccountsAssumption DEF AddressesOK
<1>0. PICK u \in Uids, a \in Addresses :
        /\ u = Head(queue).uid /\ a = Head(queue).address
        /\ accounts[u] \in {a, None} /\ uidByNormalizedEmail[a] \in {u, None}
        /\ accounts'[u] = None /\ \A w \in Uids \ {u} : accounts'[w] = accounts[w]
        /\ uidByNormalizedEmail'[a] = None
        /\ \A b \in Addresses \ {a} : uidByNormalizedEmail'[b] = uidByNormalizedEmail[b]
        /\ \A b \in Addresses : emails'[b] = IF EmailOf(u, b) THEN None ELSE emails[b]
        /\ known' = known /\ foreign' = foreign
  BY ClosingFinds
<1>1. Turn("deleteAccount") BY DEF DeleteAccountTurn
<1>2. RecordsAgree'
  <2>1. ASSUME NEW b \in Addresses, NEW w \in Uids
        PROVE  uidByNormalizedEmail'[b] = w <=> accounts'[w] = b
    BY <1>0 DEF RecordsAgree
  <2>2. ASSUME NEW b \in Addresses
        PROVE  /\ EmailRecord(b)' \in {None, EmailRecord(b)}
               /\ AccountRecord(b)' \in {None, AccountRecord(b)}
    BY <1>0 DEF EmailRecord, AccountRecord
  <2> QED BY <2>1, <2>2 DEF RecordsAgree
<1>3. QueueOK'
  <2> SUFFICES ASSUME NEW i \in 1..Len(queue') PROVE ClosingKnows(queue[i])' BY DEF QueueOK
  <2>1. i + 1 \in 1..Len(queue) /\ queue'[i] = queue[i + 1] BY <1>1, AfterTurn
  <2>2. draining' = TRUE
    <3>1. queue' \in Seq(Callback) BY <1>1, AfterTurn
    <3>2. Len(queue') > 0 BY <3>1
    <3> QED BY <1>1, <3>2, AfterTurn
  <2> DEFINE call == queue[i + 1]
  <2>3. call \in Callback /\ ClosingKnows(call) BY <2>1 DEF QueueOK, TypeOK
  <2>4. CASE call.proc = "deleteAccount"
    <3>1. call.uid \in Uids /\ call.address \in Addresses BY <2>3, <2>4 DEF Callback
    <3>2. CASE accounts[call.uid] = call.address /\ call.uid # u
      <4>1. accounts'[call.uid] = call.address BY <1>0, <3>1, <3>2
      <4> QED BY <2>1, <4>1 DEF ClosingKnows
    <3>3. CASE accounts[call.uid] = call.address /\ call.uid = u
      <4>1. call.address = a BY <1>0, <3>1, <3>3
      <4>2. accounts'[call.uid] = None /\ uidByNormalizedEmail'[call.address] = None
        BY <1>0, <3>3, <4>1
      <4> QED BY <2>1, <2>2, <4>2 DEF ClosingKnows
    <3>4. CASE accounts[call.uid] = None /\ uidByNormalizedEmail[call.address] = None
      <4>1. accounts'[call.uid] = None BY <1>0, <3>1, <3>4
      <4>2. uidByNormalizedEmail'[call.address] = None BY <1>0, <3>1, <3>4
      <4> QED BY <2>1, <2>2, <4>1, <4>2 DEF ClosingKnows
    <3> QED BY <2>3, <2>4, <3>2, <3>3, <3>4 DEF ClosingKnows
  <2>5. CASE call.proc # "deleteAccount" BY <2>1, <2>5 DEF ClosingKnows
  <2> QED BY <2>4, <2>5
<1>4. /\ \A w \in Uids \ {u}, b \in Addresses :
           (EmailOf(w, b)' <=> EmailOf(w, b)) /\ (IsPrimary(w, b)' <=> IsPrimary(w, b))
      /\ \A b \in Addresses : ~EmailOf(u, b)'
  BY <1>0 DEF EmailOf, IsPrimary
<1>5. OnePrimaryUnlessForeign' /\ NothingForUnknown'
  BY <1>0, <1>4 DEF OnePrimaryUnlessForeign, NothingForUnknown, Exists
<1> QED BY <1>2, <1>3, <1>5

LEMMA EmailsKeep ==
  ASSUME TypeOK, AddressesOK, [Next]_vars, EmailStep
  PROVE  AddressesOK'
<1> USE MemAccountsAssumption DEF AddressesOK
<1>0. TypeOK' BY TypeStep
<1>1. UNCHANGED IndexVars
  BY DEF EmailStep, CreateEmail, SetPrimaryEmail, DeleteEmail, IndexVars
<1>2. QueueOK' BY <1>1, QueueStep
<1>3. ASSUME NEW u \in Uids, NEW a \in Addresses, NEW v \in BOOLEAN, CreateEmail(u, a, v)
      PROVE  RecordsAgree' /\ OnePrimaryUnlessForeign' /\ NothingForUnknown'
  <2> DEFINE new == [uid |-> u, isPrimary |-> FALSE, isVerified |-> v]
  <2>1. /\ emails'[a] = new /\ emails[a] = None /\ foreign' = foreign /\ u \in known
        /\ \A b \in Addresses \ {a} : emails'[b] = emails[b]
        /\ \A w \in Uids : accounts[w] # a
    BY <1>3 DEF CreateEmail, TypeOK
  <2>2. new.uid = u /\ new.isPrimary = FALSE OBVIOUS
  <2> HIDE DEF new
  <2>3. EmailRecord(a)' = None BY <1>1, <2>1 DEF EmailRecord, IndexVars, RecordsAgree, TypeOK
  <2>4. RecordsAgree'
    BY <1>1, <2>1, <2>3 DEF RecordsAgree, EmailRecord, AccountRecord, IndexVars
  <2>5. /\ \A w \in Uids \ {u}, b \in Addresses : EmailOf(w, b)' <=> EmailOf(w, b)
        /\ \A w \in Uids, b \in Addresses : IsPrimary(w, b)' <=> IsPrimary(w, b)
    BY <2>1, <2>2 DEF EmailOf, IsPrimary
  <2> QED
    BY <1>1, <2>1, <2>4, <2>5 DEF IndexVars, OnePrimaryUnlessForeign, NothingForUnknown, Exists
<1>4. ASSUME NEW u \in Uids, NEW a \in Addresses, SetPrimaryEmail(u, a)
      PROVE  RecordsAgree' /\ OnePrimaryUnlessForeign' /\ NothingForUnknown'
  <2>1. ASSUME NEW b \in Addresses
        PROVE  /\ emails'[b] = None <=> emails[b] = None
               /\ emails[b] # None =>
                    /\ emails'[b].uid = emails[b].uid
                    /\ b = a => emails'[b].isPrimary = TRUE
                    /\ EmailOf(u, b) /\ b # a => emails'[b].isPrimary = FALSE
                    /\ ~EmailOf(u, b) /\ b # a => emails'[b] = emails[b]
    <3>1. CASE emails[b] = None BY <1>4, <3>1 DEF SetPrimaryEmail, EmailOf
    <3>2. CASE emails[b] # None /\ (b = a \/ EmailOf(u, b))
      <4>1. PICK p \in BOOLEAN : p = (b = a) OBVIOUS
      <4>2. emails'[b] = [emails[b] EXCEPT !.isPrimary = p]
        BY <1>4, <3>2, <4>1 DEF SetPrimaryEmail
      <4>3. emails[b] \in Email BY <3>2, Fields
      <4>4. emails'[b] \in Email /\ emails'[b].uid = emails[b].uid /\ emails'[b].isPrimary = p
        BY <4>2, <4>3 DEF Email
      <4>5. emails'[b] # None BY <4>4
      <4> QED BY <3>2, <4>1, <4>4, <4>5
    <3>3. CASE emails[b] # None /\ b # a /\ ~EmailOf(u, b) BY <1>4, <3>3 DEF SetPrimaryEmail
    <3> QED BY <3>1, <3>2, <3>3
  <2>2. \A w \in Uids, b \in Addresses : EmailOf(w, b)' <=> EmailOf(w, b) BY <2>1 DEF EmailOf
  <2>3. \A b \in Addresses : AccountRecord(b)' = AccountRecord(b) BY <2>1 DEF AccountRecord
  <2>4. RecordsAgree' BY <1>1, <2>3 DEF RecordsAgree, EmailRecord, IndexVars
  <2>5. NothingForUnknown' BY <1>1, <2>2 DEF NothingForUnknown, Exists, IndexVars
  <2>6. OnePrimaryUnlessForeign'
    <3>1. CASE ~EmailOf(u, a)
      <4>1. foreign' = TRUE BY <1>4, <3>1 DEF SetPrimaryEmail
      <4> QED BY <4>1 DEF OnePrimaryUnlessForeign
    <3>2. CASE EmailOf(u, a)
      <4>1. foreign' <=> foreign BY <1>4, <3>2 DEF SetPrimaryEmail
      <4>2. IsPrimary(u, a)' /\ \A b \in Addresses \ {a} : ~IsPrimary(u, b)'
        BY <2>1, <2>2, <3>2 DEF EmailOf, IsPrimary
      <4>3. \A w \in Uids \ {u}, b \in Addresses : IsPrimary(w, b)' <=> IsPrimary(w, b)
        BY <2>1, <3>2 DEF EmailOf, IsPrimary
      <4> QED BY <1>1, <4>1, <4>2, <4>3 DEF OnePrimaryUnlessForeign, Exists, IndexVars
    <3> QED BY <3>1, <3>2
  <2> QED BY <2>4, <2>5, <2>6
<1>5. ASSUME NEW u \in Uids, NEW a \in Addresses, DeleteEmail(u, a)
      PROVE  RecordsAgree' /\ OnePrimaryUnlessForeign' /\ NothingForUnknown'
  <2>1. /\ emails'[a] = None /\ ~IsPrimary(u, a) /\ EmailOf(u, a) /\ foreign' = foreign
        /\ \A b \in Addresses \ {a} : emails'[b] = emails[b]
    BY <1>5 DEF DeleteEmail, TypeOK
  <2>2. \A w \in Uids, b \in Addresses :
          (EmailOf(w, b)' => EmailOf(w, b)) /\ (IsPrimary(w, b)' <=> IsPrimary(w, b))
    BY <2>1 DEF EmailOf, IsPrimary
  <2> QED BY <1>0, <1>1, <2>1, <2>2, SamePrimaries
<1> QED BY <1>2, <1>3, <1>4, <1>5 DEF EmailStep

(* verifyEmail's callback sets isVerified and nothing else.                *)
LEMMA VerifyTurnEffect ==
  ASSUME TypeOK, VerifyEmailTurn
  PROVE  \E a \in Addresses :
           \/ emails' = emails
           \/ emails[a] # None
              /\ emails' = [emails EXCEPT ![a] = [emails[a] EXCEPT !.isVerified = TRUE]]
<1>1. Turn("verifyEmail") BY DEF VerifyEmailTurn
<1>2. PICK u \in Uids, a \in Addresses : u = Head(queue).uid /\ a = Head(queue).address
  BY <1>1, AfterTurn
<1>3. emails' = [emails EXCEPT ![a] =
        IF EmailOf(u, a) THEN [emails[a] EXCEPT !.isVerified = TRUE] ELSE emails[a]]
  BY <1>2 DEF VerifyEmailTurn
<1>4. CASE EmailOf(u, a) BY <1>2, <1>3, <1>4 DEF EmailOf
<1>5. CASE ~EmailOf(u, a)
  <2>1. emails' = emails BY <1>2, <1>3, <1>5 DEF TypeOK
  <2> QED BY <2>1, <1>2
<1> QED BY <1>4, <1>5

LEMMA VerifyTurnKeeps ==
  ASSUME TypeOK, AddressesOK, [Next]_vars, VerifyEmailTurn
  PROVE  AddressesOK'
<1> USE MemAccountsAssumption DEF AddressesOK
<1>0. TypeOK' BY TypeStep
<1>1. UNCHANGED IndexVars /\ foreign' = foreign BY DEF VerifyEmailTurn, IndexVars
<1>2. QueueOK' BY <1>1, QueueStep
<1>3. ASSUME NEW b \in Addresses
      PROVE  /\ emails'[b] = None <=> emails[b] = None
             /\ emails[b] # None => /\ emails'[b].uid = emails[b].uid
                                    /\ emails'[b].isPrimary = emails[b].isPrimary
  <2>1. PICK a \in Addresses :
          \/ emails' = emails
          \/ emails[a] # None
             /\ emails' = [emails EXCEPT ![a] = [emails[a] EXCEPT !.isVerified = TRUE]]
    BY VerifyTurnEffect
  <2>2. CASE emails'[b] = emails[b] BY <2>2
  <2>3. CASE emails'[b] # emails[b]
    <3>1. b = a /\ emails[b] # None /\ emails'[b] = [emails[b] EXCEPT !.isVerified = TRUE]
      BY <2>1, <2>3 DEF TypeOK
    <3>2. emails[b] \in Email BY <3>1, Fields
    <3>3. emails'[b] \in Email /\ emails'[b].uid = emails[b].uid
          /\ emails'[b].isPrimary = emails[b].isPrimary
      BY <3>1, <3>2 DEF Email
    <3> QED BY <3>1, <3>3
  <2> QED BY <2>2, <2>3
<1>4. \A w \in Uids, b \in Addresses :
        (EmailOf(w, b)' => EmailOf(w, b)) /\ (IsPrimary(w, b)' <=> IsPrimary(w, b))
  BY <1>3 DEF EmailOf, IsPrimary
<1> QED BY <1>0, <1>1, <1>2, <1>4, SamePrimaries

LEMMA AddressesStep == ASSUME TypeOK, AddressesOK, [Next]_vars PROVE AddressesOK'
<1>1. CASE UNCHANGED addressVars
  <2>1. TypeOK' BY TypeStep
  <2>2. UNCHANGED IndexVars /\ foreign' = foreign BY <1>1 DEF addressVars, IndexVars
  <2>3. QueueOK' BY <2>2, QueueStep DEF AddressesOK
  <2>4. \A w \in Uids, b \in Addresses :
          (EmailOf(w, b)' => EmailOf(w, b)) /\ (IsPrimary(w, b)' <=> IsPrimary(w, b))
    BY <1>1 DEF addressVars, EmailOf, IsPrimary
  <2> QED BY <2>1, <2>2, <2>3, <2>4, SamePrimaries DEF AddressesOK
<1> QED
  BY <1>1, AddressesKept, CreateAccountKeeps, DeleteAccountKeeps, EmailsKeep, VerifyTurnKeeps
-----------------------------------------------------------------------------
(* Tokens.                                                                 *)
TokensOK == TokensCurrent /\ TokensIssued

LEMMA TokensKept ==
  ASSUME [Next]_vars, ~DeleteTokenStep, ~ResetAccountTurn, ~DeleteAccountTurn,
         ~\E u \in Uids : ResetAccountTokens(u),
         ~\E u \in Uids, t \in TokenIds :
            CreatePasswordForgotToken(u, t) \/ CreatePasswordChangeToken(u, t),
         ~\E u \in Uids, t, n \in TokenIds : ForgotPasswordVerified(u, t, n)
  PROVE  UNCHANGED tokenVars
BY DEF Next, vars, tokenVars, CreateStep, CreateAccount, BatchStep, VerifyEmail, ResetAccount,
   DeleteAccount, VerifyEmailTurn, EmailStep, CreateEmail, SetPrimaryEmail, DeleteEmail,
   FactorStep, CreateTotpToken, DeleteTotpToken, CreateRecoveryKey, DeleteRecoveryKey,
   CreateRecoveryKeyTurn, DeleteRecoveryKeyTurn

(* What the invariant says of one collection.                              *)
CollectionOK(tokens) ==
  /\ \A t \in outdated : tokens[t] = None
  /\ \A t \in TokenIds : tokens[t] # None => t \in issued
  /\ \A t, s \in TokenIds : t # s /\ tokens[t] # None => tokens[t] # tokens[s]

LEMMA TokensOKByCollection ==
  TokensOK <=>
    /\ CollectionOK(passwordForgotTokens)
    /\ CollectionOK(passwordChangeTokens)
    /\ CollectionOK(accountResetTokens)
    /\ outdated \subseteq issued
    /\ \A t \in TokenIds :
         /\ None \in {passwordForgotTokens[t], passwordChangeTokens[t]}
         /\ None \in {passwordForgotTokens[t], accountResetTokens[t]}
         /\ None \in {passwordChangeTokens[t], accountResetTokens[t]}
BY DEF TokensOK, TokensCurrent, TokensIssued, TokenCollections, CollectionOK

(* A step that adds no token.                                              *)
LEMMA FewerTokens ==
  ASSUME TypeOK, TokensOK, UNCHANGED <<issued, outdated>>,
         \A t \in TokenIds :
           /\ passwordForgotTokens'[t] \in {passwordForgotTokens[t], None}
           /\ passwordChangeTokens'[t] \in {passwordChangeTokens[t], None}
           /\ accountResetTokens'[t] \in {accountResetTokens[t], None}
  PROVE  TokensOK'
<1> USE MemAccountsAssumption, TokensOKByCollection DEF TypeOK
<1>1. CollectionOK(passwordForgotTokens)' BY DEF CollectionOK
<1>2. CollectionOK(passwordChangeTokens)' BY DEF CollectionOK
<1>3. CollectionOK(accountResetTokens)' BY DEF CollectionOK
<1> QED
  BY <1>1, <1>2, <1>3
  DEF TokensOK, TokensCurrent, TokensIssued, TokenCollections, CollectionOK

(* A new token of u in one collection, from which u's old one goes.        *)
NewToken(tokens, u, n) ==
  \A t \in TokenIds :
    tokens'[t] = IF t = n THEN u ELSE IF tokens[t] = u THEN None ELSE tokens[t]

Fewer(tokens) == \A t \in TokenIds : tokens'[t] \in {tokens[t], None}

LEMMA NewTokenKeeps ==
  ASSUME TypeOK, TokensOK, NEW u \in Uids, NEW n \in TokenIds, Issue(u, n), outdated' = outdated,
         \/ /\ NewToken(passwordForgotTokens, u, n)
            /\ Fewer(passwordChangeTokens) /\ Fewer(accountResetTokens)
         \/ /\ NewToken(passwordChangeTokens, u, n)
            /\ Fewer(passwordForgotTokens) /\ Fewer(accountResetTokens)
         \/ /\ NewToken(accountResetTokens, u, n)
            /\ Fewer(passwordForgotTokens) /\ Fewer(passwordChangeTokens)
  PROVE  TokensOK'
<1> USE MemAccountsAssumption, TokensOKByCollection DEF TypeOK
<1>1. n \notin issued /\ issued' = issued \cup {n} /\ n \notin outdated
  BY DEF Issue
<1>2. /\ passwordForgotTokens[n] = None /\ passwordChangeTokens[n] = None
      /\ accountResetTokens[n] = None
  BY <1>1 DEF CollectionOK
<1>3. CollectionOK(passwordForgotTokens)' BY <1>1, <1>2 DEF CollectionOK, NewToken, Fewer
<1>4. CollectionOK(passwordChangeTokens)' BY <1>1, <1>2 DEF CollectionOK, NewToken, Fewer
<1>5. CollectionOK(accountResetTokens)' BY <1>1, <1>2 DEF CollectionOK, NewToken, Fewer
<1>6. \A t \in TokenIds :
        /\ None \in {passwordForgotTokens'[t], passwordChangeTokens'[t]}
        /\ None \in {passwordForgotTokens'[t], accountResetTokens'[t]}
        /\ None \in {passwordChangeTokens'[t], accountResetTokens'[t]}
  BY <1>2 DEF NewToken, Fewer
<1> QED
  BY <1>1, <1>3, <1>4, <1>5, <1>6
  DEF TokensOK, TokensCurrent, TokensIssued, TokenCollections, CollectionOK

(* The end of an account's tokens.                                         *)
LEMMA NoMoreTokens ==
  ASSUME TypeOK, TokensOK, NEW u \in Uids, EndTokens(u)
  PROVE  TokensOK'
<1> USE MemAccountsAssumption, TokensOKByCollection DEF TypeOK
<1>1. \A t \in TokenIds :
        /\ passwordForgotTokens'[t] =
            IF passwordForgotTokens[t] = u THEN None ELSE passwordForgotTokens[t]
        /\ passwordChangeTokens'[t] =
            IF passwordChangeTokens[t] = u THEN None ELSE passwordChangeTokens[t]
        /\ accountResetTokens'[t] =
            IF accountResetTokens[t] = u THEN None ELSE accountResetTokens[t]
  BY WithoutUidType DEF EndTokens
<1>2. outdated' = outdated \cup TokensOf(u) /\ issued' = issued BY DEF EndTokens
<1>3. \A t \in TokensOf(u) :
        /\ t \in TokenIds /\ t \in issued
        /\ passwordForgotTokens'[t] = None /\ passwordChangeTokens'[t] = None
        /\ accountResetTokens'[t] = None
  BY <1>1 DEF TokensOf, CollectionOK
<1>4. CollectionOK(passwordForgotTokens)' BY <1>1, <1>2, <1>3 DEF CollectionOK
<1>5. CollectionOK(passwordChangeTokens)' BY <1>1, <1>2, <1>3 DEF CollectionOK
<1>6. CollectionOK(accountResetTokens)' BY <1>1, <1>2, <1>3 DEF CollectionOK
<1>7. outdated' \subseteq issued' BY <1>2, <1>3
<1>8. \A t \in TokenIds :
        /\ None \in {passwordForgotTokens'[t], passwordChangeTokens'[t]}
        /\ None \in {passwordForgotTokens'[t], accountResetTokens'[t]}
        /\ None \in {passwordChangeTokens'[t], accountResetTokens'[t]}
  BY <1>1
<1> QED
  BY <1>4, <1>5, <1>6, <1>7, <1>8
  DEF TokensOK, TokensCurrent, TokensIssued, TokenCollections, CollectionOK

LEMMA TokensStep == ASSUME TypeOK, TokensOK, [Next]_vars PROVE TokensOK'
<1>1. CASE UNCHANGED tokenVars
  BY <1>1 DEF tokenVars, TokensOK, TokensCurrent, TokensIssued, TokenCollections
<1>2. ASSUME NEW u \in Uids, NEW t \in TokenIds, CreatePasswordForgotToken(u, t) PROVE TokensOK'
  <2>1. NewToken(passwordForgotTokens, u, t)
    BY <1>2, WithoutUidType DEF CreatePasswordForgotToken, NewToken, TypeOK
  <2> QED BY <1>2, <2>1, NewTokenKeeps DEF CreatePasswordForgotToken, Fewer
<1>3. ASSUME NEW u \in Uids, NEW t \in TokenIds, CreatePasswordChangeToken(u, t) PROVE TokensOK'
  <2>1. NewToken(passwordChangeTokens, u, t)
    BY <1>3, WithoutUidType DEF CreatePasswordChangeToken, NewToken, TypeOK
  <2> QED BY <1>3, <2>1, NewTokenKeeps DEF CreatePasswordChangeToken, Fewer
<1>4. ASSUME NEW u \in Uids, NEW t \in TokenIds, NEW n \in TokenIds, ForgotPasswordVerified(u, t, n)
      PROVE  TokensOK'
  <2>1. NewToken(accountResetTokens, u, n)
    <3>1. accountResetTokens' = [WithoutUid(accountResetTokens, u) EXCEPT ![n] = u]
      BY <1>4 DEF ForgotPasswordVerified
    <3> QED BY <3>1, WithoutUidType DEF NewToken, TypeOK
  <2>2. Fewer(passwordForgotTokens) /\ Fewer(passwordChangeTokens)
    BY <1>4 DEF ForgotPasswordVerified, Fewer, TypeOK
  <2>3. Issue(u, n) /\ outdated' = outdated BY <1>4 DEF ForgotPasswordVerified
  <2> QED BY <2>1, <2>2, <2>3, NewTokenKeeps
<1>5. ASSUME DeleteTokenStep PROVE TokensOK'
  <2>1. UNCHANGED <<issued, outdated>>
    BY <1>5 DEF DeleteTokenStep, DeletePasswordForgotToken, DeletePasswordChangeToken,
       DeleteAccountResetToken
  <2>2. \A t \in TokenIds :
          /\ passwordForgotTokens'[t] \in {passwordForgotTokens[t], None}
          /\ passwordChangeTokens'[t] \in {passwordChangeTokens[t], None}
          /\ accountResetTokens'[t] \in {accountResetTokens[t], None}
    BY <1>5 DEF DeleteTokenStep, DeletePasswordForgotToken, DeletePasswordChangeToken,
       DeleteAccountResetToken, TypeOK
  <2> QED BY <2>1, <2>2, FewerTokens
<1>6. ASSUME NEW u \in Uids, ResetAccountTokens(u) PROVE TokensOK'
  BY <1>6, NoMoreTokens DEF ResetAccountTokens
<1>7. ASSUME ResetAccountTurn PROVE TokensOK'
  BY <1>7, AfterTurn, NoMoreTokens DEF ResetAccountTurn
<1>8. ASSUME DeleteAccountTurn PROVE TokensOK'
  <2>1. Turn("deleteAccount") /\ EndTokens(Head(queue).uid) BY <1>8 DEF DeleteAccountTurn
  <2> QED BY <2>1, AfterTurn, NoMoreTokens
<1> QED BY <1>1, <1>2, <1>3, <1>4, <1>5, <1>6, <1>7, <1>8, TokensKept

-----------------------------------------------------------------------------
(* The invariant holds in every reachable state.                           *)
LEMMA InitInvariant == Init => IInv
<1> SUFFICES ASSUME Init PROVE IInv OBVIOUS
<1> USE MemAccountsAssumption DEF Init
<1>1. TypeOK
  <2>1. queue \in Seq(Callback) OBVIOUS
  <2>2. draining \in BOOLEAN /\ foreign \in BOOLEAN BY Zenon
  <2> QED BY <2>1, <2>2 DEF TypeOK
<1>2. RecordsAgree BY DEF RecordsAgree, EmailRecord, AccountRecord
<1>3. QueueOK BY DEF QueueOK
<1>4. OnePrimaryUnlessForeign /\ NothingForUnknown
  BY DEF OnePrimaryUnlessForeign, NothingForUnknown, Exists, EmailOf
<1>5. TokensCurrent /\ TokensIssued BY DEF TokensCurrent, TokensIssued, TokenCollections
<1> QED BY <1>1, <1>2, <1>3, <1>4, <1>5 DEF IInv

LEMMA Step == ASSUME IInv, [Next]_vars PROVE IInv'
BY TypeStep, AddressesStep, TokensStep DEF IInv, AddressesOK, TokensOK

LEMMA Inductive == Spec => []IInv
BY InitInvariant, Step, PTL DEF Spec

(* The collections and the queue always have their types.                  *)
THEOREM TypeCorrect == Spec => []TypeOK
BY Inductive, PTL DEF IInv

(* For any number of accounts, addresses and callbacks that wait: the index*)
(* is exactly the accounts', and emailRecord and accountRecord never name  *)
(* different accounts for one address.                                     *)
THEOREM TheRecordsAgree == Spec => []RecordsAgree
BY Inductive, PTL DEF IInv

(* An account has exactly one primary address, as long as setPrimaryEmail  *)
(* is not called with an address of another account.                       *)
THEOREM ExactlyOnePrimary == Spec => []OnePrimaryUnlessForeign
BY Inductive, PTL DEF IInv

(* Tokens that a reset or a closure ended stay away, and an account has one*)
(* of each kind at most, for any number of them and any order of callbacks.*)
THEOREM TheTokensAreCurrent == Spec => []TokensCurrent
BY Inductive, PTL DEF IInv
-----------------------------------------------------------------------------
(* Only deleteAccount's callback makes an account go.                      *)
LEMMA AccountGoes ==
  ASSUME IInv, [Next]_vars, NEW u \in Uids, Exists(u), ~Exists(u)'
  PROVE  DeleteAccountTurn
<1> USE MemAccountsAssumption DEF IInv, TypeOK, Exists
<1>1. ~UNCHANGED addressVars BY DEF addressVars
<1>2. \A w \in Uids, a \in Addresses, v \in BOOLEAN : ~CreateAccount(w, a, v) BY DEF CreateAccount
<1>3. ~EmailStep BY DEF EmailStep, CreateEmail, SetPrimaryEmail, DeleteEmail
<1>4. ~VerifyEmailTurn BY DEF VerifyEmailTurn
<1> QED BY <1>1, <1>2, <1>3, <1>4, AddressesKept

(* When an account goes, nothing of it stays in any collection, the index  *)
(* included, whose entry the callback deletes without looking at it.       *)
THEOREM NothingIsLeft == Spec => NothingLeft
<1>1. ASSUME IInv, [Next]_vars, NEW u \in Uids, Exists(u), ~Exists(u)' PROVE NoneOf(u)'
  <2> USE MemAccountsAssumption
  <2>1. DeleteAccountTurn BY <1>1, AccountGoes
  <2>2. TypeOK /\ AddressesOK BY <1>1 DEF IInv, AddressesOK
  <2>3. PICK w \in Uids, a \in Addresses :
          /\ w = Head(queue).uid /\ a = Head(queue).address
          /\ accounts[w] \in {a, None} /\ uidByNormalizedEmail[a] \in {w, None}
          /\ accounts'[w] = None /\ \A x \in Uids \ {w} : accounts'[x] = accounts[x]
          /\ uidByNormalizedEmail'[a] = None
          /\ \A b \in Addresses \ {a} : uidByNormalizedEmail'[b] = uidByNormalizedEmail[b]
          /\ \A b \in Addresses : emails'[b] = IF EmailOf(w, b) THEN None ELSE emails[b]
          /\ EndTokens(w)
          /\ totpTokens' = totpTokens \ {w} /\ recoveryKeys' = recoveryKeys \ {w}
    BY <2>1, <2>2, ClosingFinds
  <2>4. w = u /\ accounts[u] = a BY <1>1, <2>3 DEF Exists
  <2>5. \A b \in Addresses : uidByNormalizedEmail'[b] # u
    BY <2>2, <2>3, <2>4 DEF AddressesOK, RecordsAgree
  <2>6. \A b \in Addresses : ~EmailOf(u, b)' BY <2>3, <2>4 DEF EmailOf
  <2>7. \A t \in TokenIds :
          passwordForgotTokens'[t] # u /\ passwordChangeTokens'[t] # u /\ accountResetTokens'[t] # u
    <3>1. /\ passwordForgotTokens' = WithoutUid(passwordForgotTokens, u)
          /\ passwordChangeTokens' = WithoutUid(passwordChangeTokens, u)
          /\ accountResetTokens' = WithoutUid(accountResetTokens, u)
      BY <2>3, <2>4 DEF EndTokens
    <3>2. ASSUME NEW t \in TokenIds, NEW tokens \in [TokenIds -> Uids \cup {None}]
          PROVE  WithoutUid(tokens, u)[t] # u
      BY WithoutUidType
    <3> QED BY <2>2, <3>1, <3>2 DEF TypeOK
  <2> QED BY <2>3, <2>4, <2>5, <2>6, <2>7 DEF NoneOf, TokenCollections
<1>2. IInv /\ [Next]_vars => [\A u \in Uids : Exists(u) /\ ~Exists(u)' => NoneOf(u)']_vars
  BY <1>1
<1> QED BY <1>2, Inductive, PTL DEF Spec, NothingLeft

-----------------------------------------------------------------------------
(* The refinement, in the terms of AddressBook.                            *)
Owner == [a \in Addresses |-> AccountRecord(a)]
Primary == {a \in Addresses : emails[a] # None /\ emails[a].isPrimary}
Verified == {a \in Addresses : emails[a] # None /\ emails[a].isVerified}

LEMMA OwnerOf ==
  ASSUME TypeOK, NEW u \in Uids, NEW a \in Addresses
  PROVE  /\ EmailOf(u, a) <=> Owner[a] = u
         /\ IsPrimary(u, a) <=> Owner[a] = u /\ a \in Primary
         /\ emails[a] = None <=> Owner[a] = None
BY MemAccountsAssumption, Fields DEF EmailOf, IsPrimary, Owner, AccountRecord, Primary

(* A step that changes one object.                                         *)
LEMMA OwnerChange ==
  ASSUME NEW a \in Addresses, NEW x,
         x = IF emails'[a] = None THEN None ELSE emails'[a].uid,
         \A b \in Addresses \ {a} : emails'[b] = emails[b]
  PROVE  Owner' = [Owner EXCEPT ![a] = x]
<1>1. \A b \in Addresses : Owner'[b] = IF b = a THEN x ELSE Owner[b] BY DEF Owner, AccountRecord
<1>2. /\ Owner' = [b \in Addresses |-> Owner'[b]]
      /\ Owner = [b \in Addresses |-> Owner[b]]
  BY DEF Owner
<1> HIDE DEF Owner
<1> QED BY <1>1, <1>2

LEMMA BookVerify ==
  ASSUME TypeOK, NEW a \in Addresses, emails[a] # None,
         emails' = [emails EXCEPT ![a] = [emails[a] EXCEPT !.isVerified = TRUE]]
  PROVE  Book!Verify(a)
<1> DEFINE new == [emails[a] EXCEPT !.isVerified = TRUE]
<1>1. emails[a] \in Email BY Fields
<1>2. new \in Email /\ new.uid = emails[a].uid /\ new.isPrimary = emails[a].isPrimary
      /\ new.isVerified = TRUE
  BY <1>1 DEF Email
<1>3. emails'[a] = new /\ \A b \in Addresses \ {a} : emails'[b] = emails[b] BY DEF TypeOK
<1> HIDE DEF new
<1>4. new # None BY <1>2, MemAccountsAssumption
<1>5. Primary' = Primary BY <1>2, <1>3, <1>4 DEF Primary
<1>6. Owner' = Owner
  <2>1. Owner' = [Owner EXCEPT ![a] = emails[a].uid] BY <1>2, <1>3, <1>4, OwnerChange
  <2>2. Owner = [b \in Addresses |-> Owner[b]] /\ Owner[a] = emails[a].uid
    BY DEF Owner, AccountRecord
  <2> HIDE DEF Owner
  <2> QED BY <2>1, <2>2
<1>7. Verified' = Verified \cup {a} BY <1>2, <1>3, <1>4 DEF Verified
<1>8. Owner[a] # None BY MemAccountsAssumption, Fields DEF Owner, AccountRecord
<1> QED BY <1>5, <1>6, <1>7, <1>8 DEF Book!Verify, Owner, Primary, Verified

(* A new object, primary or not.                                           *)
LEMMA BookNew ==
  ASSUME TypeOK, NEW u \in Uids, NEW a \in Addresses, NEW p \in BOOLEAN, NEW v \in BOOLEAN,
         emails[a] = None,
         emails' = [emails EXCEPT ![a] = [uid |-> u, isPrimary |-> p, isVerified |-> v]]
  PROVE  /\ p /\ (\A b \in Addresses : ~EmailOf(u, b)) => Book!Open(u, a, v)
         /\ ~p => Book!Add(u, a, v)
<1> DEFINE new == [uid |-> u, isPrimary |-> p, isVerified |-> v]
<1>1. new \in Email BY DEF Email
<1>2. new # None BY <1>1, MemAccountsAssumption
<1>3. emails'[a] = new /\ \A b \in Addresses \ {a} : emails'[b] = emails[b] BY DEF TypeOK
<1>4. new.uid = u /\ new.isPrimary = p /\ new.isVerified = v OBVIOUS
<1> HIDE DEF new
<1>5. Owner' = [Owner EXCEPT ![a] = u] BY <1>2, <1>3, <1>4, OwnerChange
<1>6. Primary' = IF p THEN Primary \cup {a} ELSE Primary BY <1>2, <1>3, <1>4 DEF Primary
<1>7. Verified' = IF v THEN Verified \cup {a} ELSE Verified BY <1>2, <1>3, <1>4 DEF Verified
<1>8. Owner[a] = None BY DEF Owner, AccountRecord
<1>9. (\A b \in Addresses : ~EmailOf(u, b)) => {b \in Addresses : Owner[b] = u} \cap Primary = {}
  BY OwnerOf
<1> QED
  BY <1>5, <1>6, <1>7, <1>8, <1>9
  DEF Book!Open, Book!Add, Book!AddressesOf, Owner, Primary, Verified

LEMMA BookPromote ==
  ASSUME TypeOK, NEW u \in Uids, NEW a \in Addresses, SetPrimaryEmail(u, a), EmailOf(u, a)
  PROVE  Book!Promote(u, a)
<1>1. ASSUME NEW b \in Addresses, EmailOf(u, b)
      PROVE  /\ emails'[b] # None /\ emails'[b].uid = u /\ emails'[b].isPrimary = (b = a)
             /\ emails'[b].isVerified = emails[b].isVerified
  <2>1. PICK p \in BOOLEAN : p = (b = a) OBVIOUS
  <2>2. emails'[b] = [emails[b] EXCEPT !.isPrimary = p] BY <1>1, <2>1 DEF SetPrimaryEmail
  <2>3. emails[b] \in Email /\ emails[b].uid = u BY <1>1, Fields DEF EmailOf
  <2>4. /\ emails'[b] \in Email /\ emails'[b].uid = u /\ emails'[b].isPrimary = p
        /\ emails'[b].isVerified = emails[b].isVerified
    BY <2>2, <2>3 DEF Email
  <2>5. emails'[b] # None BY <2>4, MemAccountsAssumption
  <2> QED BY <2>1, <2>4, <2>5
<1>2. \A b \in Addresses : ~EmailOf(u, b) => emails'[b] = emails[b] BY DEF SetPrimaryEmail
<1>3. Owner' = Owner /\ Verified' = Verified
  BY <1>1, <1>2 DEF Owner, AccountRecord, Verified, EmailOf
<1>4. Primary' = (Primary \ {b \in Addresses : Owner[b] = u}) \cup {a}
  <2>1. ASSUME NEW b \in Addresses
        PROVE  b \in Primary' <=> (b \in Primary /\ Owner[b] # u) \/ b = a
    <3>1. CASE EmailOf(u, b) BY <1>1, <3>1, OwnerOf DEF Primary
    <3>2. CASE ~EmailOf(u, b) BY <1>2, <3>2, OwnerOf DEF Primary
    <3> QED BY <3>1, <3>2
  <2> QED BY <2>1 DEF Primary
<1> QED BY <1>3, <1>4, OwnerOf DEF Book!Promote, Book!AddressesOf, Owner, Primary, Verified

LEMMA BookGiveUp ==
  ASSUME TypeOK, NEW u \in Uids, NEW a \in Addresses, DeleteEmail(u, a)
  PROVE  Book!GiveUp(a)
<1>1. /\ emails'[a] = None /\ \A b \in Addresses \ {a} : emails'[b] = emails[b]
      /\ EmailOf(u, a) /\ ~IsPrimary(u, a)
  BY DEF DeleteEmail, TypeOK
<1>2. Owner' = [Owner EXCEPT ![a] = None] BY <1>1, OwnerChange
<1>3. a \notin Primary BY <1>1, OwnerOf
<1>4. Primary' = Primary BY <1>1, <1>3 DEF Primary
<1>5. Verified' = Verified \ {a} BY <1>1 DEF Verified
<1> QED BY <1>2, <1>3, <1>4, <1>5 DEF Book!GiveUp, Owner, Primary, Verified

LEMMA BookClose ==
  ASSUME TypeOK, AddressesOK, DeleteAccountTurn
  PROVE  \E u \in Uids : Book!Close(u)
<1>1. PICK u \in Uids :
        \A b \in Addresses : emails'[b] = IF EmailOf(u, b) THEN None ELSE emails[b]
  BY ClosingFinds
<1>2. Owner' = [a \in Addresses |-> IF Owner[a] = u THEN None ELSE Owner[a]]
  BY <1>1, OwnerOf DEF Owner, AccountRecord
<1>3. Primary' = Primary \ {b \in Addresses : Owner[b] = u} BY <1>1, OwnerOf DEF Primary
<1>4. Verified' = Verified \ {b \in Addresses : Owner[b] = u} BY <1>1, OwnerOf DEF Verified
<1>5. Book!Close(u)
  BY <1>2, <1>3, <1>4 DEF Book!Close, Book!AddressesOf, Owner, Primary, Verified
<1> QED BY <1>5

LEMMA BookStep == ASSUME IInv, [Next]_vars PROVE [Book!Next \/ foreign']_Book!book
<1>0. TypeOK /\ AddressesOK BY DEF IInv, AddressesOK
<1>1. CASE UNCHANGED emails BY <1>1 DEF Book!book, AccountRecord
<1>2. ASSUME NEW u \in Uids, NEW a \in Addresses, NEW v \in BOOLEAN, CreateAccount(u, a, v)
      PROVE  Book!Next
  <2>1. \A b \in Addresses : ~EmailOf(u, b)
    BY <1>0, <1>2 DEF AddressesOK, NothingForUnknown, CreateAccount
  <2>2. Book!Open(u, a, v) BY <1>0, <1>2, <2>1, BookNew DEF CreateAccount
  <2> QED BY <2>2 DEF Book!Next
<1>3. ASSUME NEW u \in Uids, NEW a \in Addresses, NEW v \in BOOLEAN, CreateEmail(u, a, v)
      PROVE  Book!Next
  <2>1. Book!Add(u, a, v) BY <1>0, <1>3, BookNew DEF CreateEmail
  <2> QED BY <2>1 DEF Book!Next
<1>4. ASSUME NEW u \in Uids, NEW a \in Addresses, SetPrimaryEmail(u, a) PROVE Book!Next \/ foreign'
  <2>1. CASE EmailOf(u, a)
    <3>1. Book!Promote(u, a) BY <1>0, <1>4, <2>1, BookPromote
    <3> QED BY <3>1 DEF Book!Next
  <2>2. CASE ~EmailOf(u, a) BY <1>4, <2>2 DEF SetPrimaryEmail
  <2> QED BY <2>1, <2>2
<1>5. ASSUME NEW u \in Uids, NEW a \in Addresses, DeleteEmail(u, a) PROVE Book!Next
  <2>1. Book!GiveUp(a) BY <1>0, <1>5, BookGiveUp
  <2> QED BY <2>1 DEF Book!Next
<1>6. ASSUME VerifyEmailTurn PROVE [Book!Next]_Book!book
  <2>1. PICK a \in Addresses :
          \/ emails' = emails
          \/ emails[a] # None
             /\ emails' = [emails EXCEPT ![a] = [emails[a] EXCEPT !.isVerified = TRUE]]
    BY <1>0, <1>6, VerifyTurnEffect
  <2>2. CASE emails' = emails BY <2>2 DEF Book!book, AccountRecord
  <2>3. CASE emails' # emails
    <3>1. Book!Verify(a) BY <1>0, <2>1, <2>3, BookVerify
    <3> QED BY <3>1 DEF Book!Next
  <2> QED BY <2>2, <2>3
<1>7. ASSUME DeleteAccountTurn PROVE Book!Next
  <2>1. \E u \in Uids : Book!Close(u) BY <1>0, <1>7, BookClose
  <2> QED BY <2>1 DEF Book!Next
<1>8. UNCHANGED addressVars => UNCHANGED emails BY DEF addressVars
<1> QED
  BY <1>1, <1>2, <1>3, <1>4, <1>5, <1>6, <1>7, <1>8, AddressesKept DEF EmailStep

(* Until a setPrimaryEmail with another account's address, the collections *)
(* keep what AddressBook promises, as the tables of the other store do.    *)
THEOREM ImplementsAddressBook == Spec => BookUnlessForeign
<1>1. Init => Book!Init
  BY DEF Init, Book!Init, AccountRecord
<1>2. IInv /\ [Next]_vars => [Book!Next \/ foreign']_Book!book BY BookStep
<1> QED BY <1>1, <1>2, Inductive, PTL DEF Spec, BookUnlessForeign
=============================================================================
