---------------------------- MODULE AccountCodes ----------------------------
(***************************************************************************)
(* The codes of an account in the PostgreSQL store: recovery codes, sign-in*)
(* codes and unblock codes, with the tables recoveryCodes, signinCodes and *)
(* unblockCodes and the stored procedures on them.                         *)
(*                                                                         *)
(* scrypt cannot run in the database, so replaceRecoveryCodes and          *)
(* consumeRecoveryCode leave it between two calls: a replacement deletes   *)
(* the old codes, hashes the new ones and then inserts them; a consumption *)
(* reads the hashes, compares them, and then deletes the one that matched. *)
(* Sign-in and unblock codes are consumed by a SELECT that takes no lock,  *)
(* whose row is the answer, and a DELETE whose count nobody looks at.      *)
(* Other requests run in between.                                          *)
(*                                                                         *)
(* A code stands for its hash.  Codes are random and not repeated: a new   *)
(* one is one that was never generated, or created, before.                *)
(***************************************************************************)
EXTENDS Naturals, FiniteSets

CONSTANTS
  Uids,       \* accounts
  Codes,      \* the codes that generateRecoveryCodes can return
  Counts,     \* values of the count parameter of replaceRecoveryCodes
  SigninIds,  \* values of signinCodes.hash
  UnblockIds, \* values of unblockCodes.unblockCodeHash
  Requests,   \* concurrent requests
  None        \* "no such row"

ASSUME CodesAssumption ==
  /\ None \notin [uid : Uids, expired : BOOLEAN]
  /\ SigninIds \cap UnblockIds = {}

VARIABLES
  accounts,        \* uids with a row in accounts and a primary row in emails
  recoveryCodes,   \* rows <<uid, code>>
  signinCodes,     \* [SigninIds -> row or None]
  unblockCodes,    \* [Uids -> the set of the account's hashes]
  generated,       \* every recovery code generated so far (history)
  uses,            \* how often each recovery code was consumed with success (history)
  created,         \* sign-in and unblock codes created so far (history)
  answers,         \* how often each of these was accepted (history)
  calls            \* [Requests -> Call]

recoveryVars == <<recoveryCodes, generated, uses>>
oneTimeVars == <<signinCodes, unblockCodes, created, answers>>
vars == <<accounts, recoveryVars, oneTimeVars, calls>>

(* A row of signinCodes.  expired: createdAt is signinCodesMaxAge ago.     *)
SigninCode == [uid : Uids, expired : BOOLEAN]

(* What a request holds between two calls, or a connection between two     *)
(* statements, of the database.  found: the SELECT returned a row; newer:  *)
(* the request's newerThan precedes the row.                               *)
Idle == [proc |-> "idle"]
Call ==
  {Idle}
    \cup [proc : {"replace"}, uid : Uids, codes : SUBSET Codes]
    \cup [proc : {"consume"}, uid : Uids, code : Codes]
    \cup [proc : {"consumeSigninCode"}, code : SigninIds, found : BOOLEAN, newer : BOOLEAN]
    \cup [proc : {"consumeUnblockCode"}, uid : Uids, code : UnblockIds]

TypeOK ==
  /\ accounts \subseteq Uids
  /\ recoveryCodes \subseteq Uids \X Codes
  /\ signinCodes \in [SigninIds -> SigninCode \cup {None}]
  /\ unblockCodes \in [Uids -> SUBSET UnblockIds]
  /\ generated \subseteq Codes
  /\ uses \in [Uids \X Codes -> Nat]
  /\ created \subseteq SigninIds \cup UnblockIds
  /\ answers \in [SigninIds \cup UnblockIds -> Nat]
  /\ calls \in [Requests -> Call]

Init ==
  /\ accounts = Uids
  /\ recoveryCodes = {}
  /\ signinCodes = [c \in SigninIds |-> None]
  /\ unblockCodes = [u \in Uids |-> {}]
  /\ generated = {}
  /\ uses = [p \in Uids \X Codes |-> 0]
  /\ created = {}
  /\ answers = [c \in SigninIds \cup UnblockIds |-> 0]
  /\ calls = [r \in Requests |-> Idle]

-----------------------------------------------------------------------------
(* Recovery codes.                                                         *)

RowsOf(u) == {p \in recoveryCodes : p[1] = u}

(* replaceRecoveryCodes: the new codes are generated, deleteRecoveryCodes_1*)
(* checks the account and deletes the old rows.  An unknown account ends   *)
(* the request with notFound and changes nothing.                          *)
ReplaceDelete(r, u) ==
  /\ calls[r] = Idle
  /\ u \in accounts
  /\ \E C \in SUBSET (Codes \ generated) :
       /\ Cardinality(C) \in Counts
       /\ generated' = generated \cup C
       /\ calls' = [calls EXCEPT ![r] = [proc |-> "replace", uid |-> u, codes |-> C]]
  /\ recoveryCodes' = recoveryCodes \ RowsOf(u)
  /\ UNCHANGED <<accounts, uses, oneTimeVars>>

(* ... after hashing, one transaction of createRecoveryCode_3 calls        *)
(* inserts the new rows.  The account is not looked at again.              *)
ReplaceInsert(r) ==
  /\ calls[r].proc = "replace"
  /\ recoveryCodes' = recoveryCodes \cup ({calls[r].uid} \X calls[r].codes)
  /\ calls' = [calls EXCEPT ![r] = Idle]
  /\ UNCHANGED <<accounts, generated, uses, oneTimeVars>>

(* consumeRecoveryCode: recoveryCodes_1 returns the account's rows and one *)
(* of them matches the code.  No match ends the request with notFound.     *)
ConsumeSelect(r, u, c) ==
  /\ calls[r] = Idle
  /\ <<u, c>> \in RowsOf(u)
  /\ calls' = [calls EXCEPT ![r] = [proc |-> "consume", uid |-> u, code |-> c]]
  /\ UNCHANGED <<accounts, recoveryVars, oneTimeVars>>

(* Faulty: consumeRecoveryCode_2 does not look at ROW_COUNT().             *)
ConsumeDelete_Unchecked(r) ==
  /\ calls[r].proc = "consume"
  /\ LET row == <<calls[r].uid, calls[r].code>>
     IN  /\ recoveryCodes' = recoveryCodes \ {row}
         /\ uses' = [uses EXCEPT ![row] = @ + 1]
  /\ calls' = [calls EXCEPT ![r] = Idle]
  /\ UNCHANGED <<accounts, generated, oneTimeVars>>

(* ... consumeRecoveryCode_2 deletes the row that matched, and signals     *)
(* notFound when it is no longer there.                                    *)
ConsumeDelete(r) ==
  /\ calls[r].proc = "consume"
  /\ LET row == <<calls[r].uid, calls[r].code>>
     IN  \/ /\ row \in recoveryCodes
            /\ recoveryCodes' = recoveryCodes \ {row}
            /\ uses' = [uses EXCEPT ![row] = @ + 1]
         \/ row \notin recoveryCodes /\ UNCHANGED <<recoveryCodes, uses>>
  /\ calls' = [calls EXCEPT ![r] = Idle]
  /\ UNCHANGED <<accounts, generated, oneTimeVars>>

-----------------------------------------------------------------------------
(* Sign-in codes.                                                          *)

(* createSigninCode_2.  The account is not looked at.                      *)
CreateSigninCode(u, c) ==
  /\ c \notin created
  /\ signinCodes' = [signinCodes EXCEPT ![c] = [uid |-> u, expired |-> FALSE]]
  /\ created' = created \cup {c}
  /\ UNCHANGED <<accounts, recoveryVars, unblockCodes, answers, calls>>

(* consumeSigninCode_4: the SELECT, joined with the account's primary      *)
(* email.                                                                  *)
ConsumeSigninSelect(r, c) ==
  /\ calls[r] = Idle
  /\ LET row == signinCodes[c]
         newer == row = None \/ ~row.expired
     IN  calls' = [calls EXCEPT
           ![r] = [proc |-> "consumeSigninCode", code |-> c, newer |-> newer,
                   found |-> row # None /\ newer /\ row.uid \in accounts]]
  /\ UNCHANGED <<accounts, recoveryVars, oneTimeVars>>

(* Faulty: the DELETE compares createdAt the other way round.              *)
ConsumeSigninDelete_Older(r) ==
  /\ calls[r].proc = "consumeSigninCode"
  /\ signinCodes' = [signinCodes EXCEPT ![calls[r].code] = IF calls[r].newer THEN @ ELSE None]
  /\ answers' = [answers EXCEPT ![calls[r].code] = IF calls[r].found THEN @ + 1 ELSE @]
  /\ calls' = [calls EXCEPT ![r] = Idle]
  /\ UNCHANGED <<accounts, recoveryVars, unblockCodes, created>>

(* ... the DELETE, COMMIT and answer.                                      *)
ConsumeSigninDelete(r) ==
  /\ calls[r].proc = "consumeSigninCode"
  /\ signinCodes' = [signinCodes EXCEPT ![calls[r].code] = IF calls[r].newer THEN None ELSE @]
  /\ answers' = [answers EXCEPT ![calls[r].code] = IF calls[r].found THEN @ + 1 ELSE @]
  /\ calls' = [calls EXCEPT ![r] = Idle]
  /\ UNCHANGED <<accounts, recoveryVars, unblockCodes, created>>

(* Time passes the signinCodesMaxAge of a code.                            *)
ExpireSigninCode(c) ==
  /\ signinCodes[c] # None
  /\ signinCodes' = [signinCodes EXCEPT ![c].expired = TRUE]
  /\ UNCHANGED <<accounts, recoveryVars, unblockCodes, created, answers, calls>>

-----------------------------------------------------------------------------
(* Unblock codes.                                                          *)

(* createUnblockCode_1                                                     *)
CreateUnblockCode(u, c) ==
  /\ c \notin created
  /\ unblockCodes' = [unblockCodes EXCEPT ![u] = @ \cup {c}]
  /\ created' = created \cup {c}
  /\ UNCHANGED <<accounts, recoveryVars, signinCodes, answers, calls>>

(* consumeUnblockCode_3: the SELECT of the code's createdAt.  Without one  *)
(* the request ends with notFound and deletes nothing.                     *)
ConsumeUnblockSelect(r, u, c) ==
  /\ calls[r] = Idle
  /\ c \in unblockCodes[u]
  /\ calls' = [calls EXCEPT ![r] = [proc |-> "consumeUnblockCode", uid |-> u, code |-> c]]
  /\ UNCHANGED <<accounts, recoveryVars, oneTimeVars>>

(* ... the DELETE of every code of the account.                            *)
ConsumeUnblockDelete(r) ==
  /\ calls[r].proc = "consumeUnblockCode"
  /\ unblockCodes' = [unblockCodes EXCEPT ![calls[r].uid] = {}]
  /\ answers' = [answers EXCEPT ![calls[r].code] = @ + 1]
  /\ calls' = [calls EXCEPT ![r] = Idle]
  /\ UNCHANGED <<accounts, recoveryVars, signinCodes, created>>

-----------------------------------------------------------------------------
(* Any error, a lost connection, or a crash of the server: the request goes*)
(* no further.  The rows that a replacement has deleted stay deleted, the  *)
(* other operations have written nothing yet.                              *)
RequestFails(r) ==
  /\ calls[r] # Idle
  /\ calls' = [calls EXCEPT ![r] = Idle]
  /\ UNCHANGED <<accounts, recoveryVars, oneTimeVars>>

(* deleteAccount_15                                                        *)
DeleteAccount(u) ==
  /\ accounts' = accounts \ {u}
  /\ recoveryCodes' = recoveryCodes \ RowsOf(u)
  /\ unblockCodes' = [unblockCodes EXCEPT ![u] = {}]
  /\ signinCodes' = [c \in SigninIds |->
       IF signinCodes[c] # None /\ signinCodes[c].uid = u THEN None ELSE signinCodes[c]]
  /\ UNCHANGED <<generated, uses, created, answers, calls>>

(* prune_7, its DELETEs from unblockCodes and signinCodes.  Which rows are *)
(* older than pruneTokensMaxAge is left open.                              *)
Prune(C) ==
  /\ unblockCodes' = [u \in Uids |-> unblockCodes[u] \ C]
  /\ signinCodes' = [c \in SigninIds |-> IF c \in C THEN None ELSE signinCodes[c]]
  /\ UNCHANGED <<accounts, recoveryVars, created, answers, calls>>

ReplaceStep ==
  \E r \in Requests : ReplaceInsert(r) \/ \E u \in Uids : ReplaceDelete(r, u)

ConsumeStep ==
  \E r \in Requests : ConsumeDelete(r) \/ \E u \in Uids, c \in Codes : ConsumeSelect(r, u, c)

SigninStep ==
  \/ \E c \in SigninIds : ExpireSigninCode(c) \/ \E u \in Uids : CreateSigninCode(u, c)
  \/ \E r \in Requests :
       ConsumeSigninDelete(r) \/ \E c \in SigninIds : ConsumeSigninSelect(r, c)

UnblockStep ==
  \/ \E u \in Uids, c \in UnblockIds : CreateUnblockCode(u, c)
  \/ \E r \in Requests :
       \/ ConsumeUnblockDelete(r)
       \/ \E u \in Uids, c \in UnblockIds : ConsumeUnblockSelect(r, u, c)

Next ==
  \/ ReplaceStep \/ ConsumeStep \/ SigninStep \/ UnblockStep
  \/ \E r \in Requests : RequestFails(r)
  \/ \E u \in Uids : DeleteAccount(u)
  \/ \E C \in SUBSET (SigninIds \cup UnblockIds) : Prune(C)

Spec == Init /\ [][Next]_vars

-----------------------------------------------------------------------------
(* Codes that a replacement holds and has not inserted yet.                *)
Pending == {p \in Uids \X Codes : \E r \in Requests :
  calls[r].proc = "replace" /\ calls[r].uid = p[1] /\ p[2] \in calls[r].codes}

(* A stored or pending code was generated, for one replacement, and was    *)
(* never consumed; a consumed code was generated, and consumed once.       *)
CodesUnused ==
  /\ \A p \in recoveryCodes \cup Pending : p[2] \in generated /\ uses[p] = 0
  /\ recoveryCodes \cap Pending = {}
  /\ \A q, r \in Requests : q # r /\ calls[q].proc = "replace" /\ calls[r].proc = "replace" =>
       calls[q].codes \cap calls[r].codes = {}
  /\ \A p \in Uids \X Codes : uses[p] <= 1 /\ (p[2] \notin generated => uses[p] = 0)

(* Although two overlapping requests may both succeed, no request that     *)
(* starts after a code was accepted can find it: a code with an answer is  *)
(* in no table.                                                            *)
AcceptedCodesGone ==
  /\ \A c \in SigninIds : answers[c] > 0 => signinCodes[c] = None
  /\ \A c \in UnblockIds : answers[c] > 0 => \A u \in Uids : c \notin unblockCodes[u]

(* A stored or accepted code was created, and created for one account only.*)
CreatedOnce ==
  /\ \A c \in SigninIds : signinCodes[c] # None \/ answers[c] > 0 => c \in created
  /\ \A c \in UnblockIds : answers[c] > 0 => c \in created
  /\ \A c \in UnblockIds : \A u \in Uids : c \in unblockCodes[u] =>
       c \in created /\ \A v \in Uids \ {u} : c \notin unblockCodes[v]

(* A code that a request is about to accept will be deleted by it.         *)
CallsMatch ==
  \A r \in Requests :
    /\ calls[r].proc = "consumeSigninCode" /\ calls[r].found =>
         calls[r].newer /\ calls[r].code \in created
    /\ calls[r].proc = "consumeUnblockCode" =>
         /\ calls[r].code \in created
         /\ \A v \in Uids \ {calls[r].uid} : calls[r].code \notin unblockCodes[v]

IInv == TypeOK /\ CodesUnused /\ AcceptedCodesGone /\ CreatedOnce /\ CallsMatch

(* Codes of an account can be issued while they are pending for it or were *)
(* never generated.                                                        *)
Fresh == {p \in Uids \X Codes : p[2] \notin generated} \cup Pending

SingleUse == INSTANCE SingleUseCodes
  WITH Codes <- Uids \X Codes, fresh <- Fresh, live <- recoveryCodes

(* The store keeps the promise of single-use codes: of two requests that   *)
(* consume one code only one succeeds, no other code is lost, and a code   *)
(* that was replaced while it was being compared is refused.               *)
SingleUseSpec == SingleUse!Spec
=============================================================================
