---------------------------- MODULE MemAccounts ----------------------------
(***************************************************************************)
(* Accounts, email addresses, password-forgot, password-change and account-*)
(* reset tokens, TOTP tokens and recovery keys of the in-memory store      *)
(* (lib/db/mem.js).                                                        *)
(*                                                                         *)
(* What a function does before it returns is one step: nothing interleaves *)
(* with it.  What it does in the callback of getAccountByUid waits until   *)
(* the request handlers that are ready have run; then bluebird drains its  *)
(* queue of callbacks, in order, and no handler runs before it is empty.   *)
(*                                                                         *)
(* An email code is random and names an object in emails, so verifyEmail is*)
(* given the address.  profileChangedAt, locale, the hashes and keys of an *)
(* account and the tries of a token are left out.                          *)
(***************************************************************************)
EXTENDS Naturals, Sequences, FiniteSets

CONSTANTS
  Uids,       \* accounts
  Addresses,  \* email addresses, normalized
  TokenIds,   \* ids of password-forgot, password-change and account-reset tokens
  MaxQueue,   \* bound on the callbacks that wait
  MaxFactors, \* bound on the TOTP tokens and recovery keys, stored or on their way
  None        \* undefined

(* An object in emails.                                                    *)
Email == [uid : Uids, isPrimary : BOOLEAN, isVerified : BOOLEAN]

ASSUME MemAccountsAssumption ==
  /\ None \notin Uids \cup Addresses \cup TokenIds \cup Email
  /\ MaxQueue \in Nat
  /\ MaxFactors \in Nat

VARIABLES
  accounts,              \* [Uids -> the account's normalizedEmail or None]
  uidByNormalizedEmail,  \* [Addresses -> uid or None]
  emails,                \* [Addresses -> object or None]
  passwordForgotTokens,  \* [TokenIds -> the token's uid or None]
  passwordChangeTokens,  \* likewise
  accountResetTokens,    \* likewise
  totpTokens,            \* the uids that have one
  recoveryKeys,          \* the uids that have one
  queue,                 \* callbacks that wait, first come first served
  draining,              \* they are being run
  known,                 \* uids that an account was created with: they are random, so none
                         \* is used twice, or known to a caller before (history)
  issued,                \* token ids that were used: they are random, too (history)
  outdated,              \* tokens that a reset or closure of their account ended (history)
  foreign                \* setPrimaryEmail was called with another account's address (history)

addressVars == <<accounts, uidByNormalizedEmail, emails, known, foreign>>
tokenVars == <<passwordForgotTokens, passwordChangeTokens, accountResetTokens, issued, outdated>>
factorVars == <<totpTokens, recoveryKeys>>
loopVars == <<queue, draining>>
vars == <<addressVars, tokenVars, factorVars, loopVars>>

(* What the closure of a callback holds.  deleteAccount keeps the account, *)
(* of which only normalizedEmail is used.                                  *)
Callback ==
  [proc : {"verifyEmail", "deleteAccount"}, uid : Uids, address : Addresses]
    \cup [proc : {"resetAccount", "createRecoveryKey", "deleteRecoveryKey"}, uid : Uids]

TypeOK ==
  /\ accounts \in [Uids -> Addresses \cup {None}]
  /\ uidByNormalizedEmail \in [Addresses -> Uids \cup {None}]
  /\ emails \in [Addresses -> Email \cup {None}]
  /\ passwordForgotTokens \in [TokenIds -> Uids \cup {None}]
  /\ passwordChangeTokens \in [TokenIds -> Uids \cup {None}]
  /\ accountResetTokens \in [TokenIds -> Uids \cup {None}]
  /\ totpTokens \subseteq Uids
  /\ recoveryKeys \subseteq Uids
  /\ queue \in Seq(Callback)
  /\ draining \in BOOLEAN
  /\ known \subseteq Uids
  /\ issued \subseteq TokenIds
  /\ outdated \subseteq TokenIds
  /\ foreign \in BOOLEAN

Init ==
  /\ accounts = [u \in Uids |-> None]
  /\ uidByNormalizedEmail = [a \in Addresses |-> None]
  /\ emails = [a \in Addresses |-> None]
  /\ passwordForgotTokens = [t \in TokenIds |-> None]
  /\ passwordChangeTokens = [t \in TokenIds |-> None]
  /\ accountResetTokens = [t \in TokenIds |-> None]
  /\ totpTokens = {}
  /\ recoveryKeys = {}
  /\ queue = <<>>
  /\ draining = FALSE
  /\ known = {}
  /\ issued = {}
  /\ outdated = {}
  /\ foreign = FALSE

Exists(u) == accounts[u] # None
EmailOf(u, a) == emails[a] # None /\ emails[a].uid = u
IsPrimary(u, a) == EmailOf(u, a) /\ emails[a].isPrimary

-----------------------------------------------------------------------------
(* The event loop.                                                         *)

(* A request handler runs to its end.                                      *)
Handler == ~draining /\ UNCHANGED draining

(* getAccountByUid(u).then(callback).  Without an account the request ends.*)
Later(u, callback) ==
  /\ Exists(u)
  /\ Len(queue) < MaxQueue
  /\ queue' = Append(queue, callback)

(* The callback at the head of the queue runs, if it is one of proc.       *)
Turn(proc) ==
  /\ queue # <<>>
  /\ Head(queue).proc = proc
  /\ queue' = Tail(queue)
  /\ draining' = (Len(queue) > 1)

-----------------------------------------------------------------------------
(* Accounts and addresses.                                                 *)

CreateAccount(u, a, v) ==
  /\ Handler
  /\ u \notin known
  /\ emails[a] = None
  /\ uidByNormalizedEmail[a] = None
  /\ accounts' = [accounts EXCEPT ![u] = a]
  /\ uidByNormalizedEmail' = [uidByNormalizedEmail EXCEPT ![a] = u]
  /\ emails' = [emails EXCEPT ![a] = [uid |-> u, isPrimary |-> TRUE, isVerified |-> v]]
  /\ known' = known \cup {u}
  /\ UNCHANGED <<foreign, tokenVars, factorVars, queue>>

(* Faulty: without the search through accounts.                            *)
CreateEmail_EmailsOnly(u, a, v) ==
  /\ Handler
  /\ u \in known
  /\ emails[a] = None
  /\ emails' = [emails EXCEPT ![a] = [uid |-> u, isPrimary |-> FALSE, isVerified |-> v]]
  /\ UNCHANGED <<accounts, uidByNormalizedEmail, known, foreign, tokenVars, factorVars, queue>>

CreateEmail(u, a, v) ==
  /\ Handler
  /\ u \in known
  /\ \A w \in Uids : accounts[w] # a
  /\ emails[a] = None
  /\ emails' = [emails EXCEPT ![a] = [uid |-> u, isPrimary |-> FALSE, isVerified |-> v]]
  /\ UNCHANGED <<accounts, uidByNormalizedEmail, known, foreign, tokenVars, factorVars, queue>>

(* Faulty: the old primary address is not demoted.                         *)
SetPrimaryEmail_NoDemotion(u, a) ==
  /\ Handler
  /\ u \in known
  /\ emails[a] # None
  /\ emails' = [emails EXCEPT ![a].isPrimary = TRUE]
  /\ foreign' = (foreign \/ ~EmailOf(u, a))
  /\ UNCHANGED <<accounts, uidByNormalizedEmail, known, tokenVars, factorVars, queue>>

(* Whose address a is, is not looked at.  The callback sets only           *)
(* profileChangedAt.                                                       *)
SetPrimaryEmail(u, a) ==
  /\ Handler
  /\ u \in known
  /\ emails[a] # None
  /\ emails' = [b \in Addresses |->
       IF b = a THEN [emails[b] EXCEPT !.isPrimary = TRUE]
       ELSE IF EmailOf(u, b) THEN [emails[b] EXCEPT !.isPrimary = FALSE]
       ELSE emails[b]]
  /\ foreign' = (foreign \/ ~EmailOf(u, a))
  /\ UNCHANGED <<accounts, uidByNormalizedEmail, known, tokenVars, factorVars, queue>>

(* Faulty: without "isPrimary === false".                                  *)
DeleteEmail_AnyRow(u, a) ==
  /\ Handler
  /\ EmailOf(u, a)
  /\ emails' = [emails EXCEPT ![a] = None]
  /\ UNCHANGED <<accounts, uidByNormalizedEmail, known, foreign, tokenVars, factorVars, queue>>

(* The callback sets only profileChangedAt.                                *)
DeleteEmail(u, a) ==
  /\ Handler
  /\ EmailOf(u, a) /\ ~IsPrimary(u, a)
  /\ emails' = [emails EXCEPT ![a] = None]
  /\ UNCHANGED <<accounts, uidByNormalizedEmail, known, foreign, tokenVars, factorVars, queue>>

VerifyEmail(u, a) ==
  /\ Handler
  /\ EmailOf(u, a)
  /\ Later(u, [proc |-> "verifyEmail", uid |-> u, address |-> a])
  /\ UNCHANGED <<addressVars, tokenVars, factorVars>>

VerifyEmailTurn ==
  /\ Turn("verifyEmail")
  /\ LET call == Head(queue)
     IN  emails' = [emails EXCEPT
           ![call.address] =
              IF EmailOf(call.uid, call.address) THEN [@ EXCEPT !.isVerified = TRUE] ELSE @]
  /\ UNCHANGED <<accounts, uidByNormalizedEmail, known, foreign, tokenVars, factorVars>>

-----------------------------------------------------------------------------
(* Password-forgot, password-change and account-reset tokens.              *)

(* deleteByUid                                                             *)
WithoutUid(tokens, u) == [t \in TokenIds |-> IF tokens[t] = u THEN None ELSE tokens[t]]

Issue(u, t) == u \in known /\ t \notin issued /\ issued' = issued \cup {t}

CreatePasswordForgotToken(u, t) ==
  /\ Handler
  /\ Issue(u, t)
  /\ passwordForgotTokens' = [WithoutUid(passwordForgotTokens, u) EXCEPT ![t] = u]
  /\ UNCHANGED <<addressVars, passwordChangeTokens, accountResetTokens, outdated, factorVars,
                 queue>>

CreatePasswordChangeToken(u, t) ==
  /\ Handler
  /\ Issue(u, t)
  /\ passwordChangeTokens' = [WithoutUid(passwordChangeTokens, u) EXCEPT ![t] = u]
  /\ UNCHANGED <<addressVars, passwordForgotTokens, accountResetTokens, outdated, factorVars,
                 queue>>

DeletePasswordForgotToken(t) ==
  /\ Handler
  /\ passwordForgotTokens' = [passwordForgotTokens EXCEPT ![t] = None]
  /\ UNCHANGED <<addressVars, passwordChangeTokens, accountResetTokens, issued, outdated,
                 factorVars, queue>>

DeletePasswordChangeToken(t) ==
  /\ Handler
  /\ passwordChangeTokens' = [passwordChangeTokens EXCEPT ![t] = None]
  /\ UNCHANGED <<addressVars, passwordForgotTokens, accountResetTokens, issued, outdated,
                 factorVars, queue>>

DeleteAccountResetToken(t) ==
  /\ Handler
  /\ accountResetTokens' = [accountResetTokens EXCEPT ![t] = None]
  /\ UNCHANGED <<addressVars, passwordForgotTokens, passwordChangeTokens, issued, outdated,
                 factorVars, queue>>

(* The email verified is the one the account was created with, primary or  *)
(* not: verifyEmail is called without a code.                              *)
ForgotPasswordVerified(u, t, n) ==
  /\ Handler
  /\ t \in issued
  /\ Issue(u, n)
  /\ passwordForgotTokens' = [passwordForgotTokens EXCEPT ![t] = None]
  /\ accountResetTokens' = [WithoutUid(accountResetTokens, u) EXCEPT ![n] = u]
  /\ IF Exists(u)
       THEN Later(u, [proc |-> "verifyEmail", uid |-> u, address |-> accounts[u]])
       ELSE UNCHANGED queue
  /\ UNCHANGED <<addressVars, passwordChangeTokens, outdated, factorVars>>

TokensOf(u) ==
  {t \in TokenIds : u \in {passwordForgotTokens[t], passwordChangeTokens[t], accountResetTokens[t]}}

(* Faulty: without passwordForgotTokens.                                   *)
EndTokens_KeepForgot(u) ==
  /\ passwordChangeTokens' = WithoutUid(passwordChangeTokens, u)
  /\ accountResetTokens' = WithoutUid(accountResetTokens, u)
  /\ outdated' = outdated \cup TokensOf(u)
  /\ UNCHANGED <<passwordForgotTokens, issued>>

(* Every token that the account has ends.                                  *)
EndTokens(u) ==
  /\ passwordForgotTokens' = WithoutUid(passwordForgotTokens, u)
  /\ passwordChangeTokens' = WithoutUid(passwordChangeTokens, u)
  /\ accountResetTokens' = WithoutUid(accountResetTokens, u)
  /\ outdated' = outdated \cup TokensOf(u)
  /\ UNCHANGED issued

ResetAccountTokens(u) ==
  /\ Handler
  /\ EndTokens(u)
  /\ UNCHANGED <<addressVars, factorVars, queue>>

ResetAccount(u) ==
  /\ Handler
  /\ Later(u, [proc |-> "resetAccount", uid |-> u])
  /\ UNCHANGED <<addressVars, tokenVars, factorVars>>

ResetAccountTurn ==
  /\ Turn("resetAccount")
  /\ EndTokens(Head(queue).uid)
  /\ UNCHANGED <<addressVars, factorVars>>

-----------------------------------------------------------------------------
(* TOTP tokens and recovery keys.                                          *)

RoomForFactor ==
  Cardinality(totpTokens) + Cardinality(recoveryKeys)
    + Cardinality({i \in 1..Len(queue) : queue[i].proc = "createRecoveryKey"}) < MaxFactors

(* The account is not looked at.                                           *)
CreateTotpToken(u) ==
  /\ Handler
  /\ RoomForFactor
  /\ u \in known
  /\ totpTokens' = totpTokens \cup {u}
  /\ UNCHANGED <<addressVars, tokenVars, recoveryKeys, queue>>

DeleteTotpToken(u) ==
  /\ Handler
  /\ totpTokens' = totpTokens \ {u}
  /\ UNCHANGED <<addressVars, tokenVars, recoveryKeys, queue>>

CreateRecoveryKey(u) ==
  /\ Handler
  /\ RoomForFactor
  /\ Later(u, [proc |-> "createRecoveryKey", uid |-> u])
  /\ UNCHANGED <<addressVars, tokenVars, factorVars>>

(* A key that is there stays, and the request ends with duplicate.         *)
CreateRecoveryKeyTurn ==
  /\ Turn("createRecoveryKey")
  /\ recoveryKeys' = recoveryKeys \cup {Head(queue).uid}
  /\ UNCHANGED <<addressVars, tokenVars, totpTokens>>

DeleteRecoveryKey(u) ==
  /\ Handler
  /\ Later(u, [proc |-> "deleteRecoveryKey", uid |-> u])
  /\ UNCHANGED <<addressVars, tokenVars, factorVars>>

DeleteRecoveryKeyTurn ==
  /\ Turn("deleteRecoveryKey")
  /\ recoveryKeys' = recoveryKeys \ {Head(queue).uid}
  /\ UNCHANGED <<addressVars, tokenVars, totpTokens>>

-----------------------------------------------------------------------------
DeleteAccount(u) ==
  /\ Handler
  /\ Later(u, [proc |-> "deleteAccount", uid |-> u, address |-> accounts[u]])
  /\ UNCHANGED <<addressVars, tokenVars, factorVars>>

(* Faulty: without "delete uidByNormalizedEmail".                          *)
DeleteAccountTurn_KeepIndex ==
  /\ Turn("deleteAccount")
  /\ LET u == Head(queue).uid
     IN  /\ accounts' = [accounts EXCEPT ![u] = None]
         /\ emails' = [a \in Addresses |-> IF EmailOf(u, a) THEN None ELSE emails[a]]
         /\ EndTokens(u)
         /\ totpTokens' = totpTokens \ {u}
         /\ recoveryKeys' = recoveryKeys \ {u}
  /\ UNCHANGED <<uidByNormalizedEmail, known, foreign>>

(* The uid in the index is not compared with the account's.                *)
DeleteAccountTurn ==
  /\ Turn("deleteAccount")
  /\ LET u == Head(queue).uid
     IN  /\ accounts' = [accounts EXCEPT ![u] = None]
         /\ uidByNormalizedEmail' =
              [uidByNormalizedEmail EXCEPT ![Head(queue).address] = None]
         /\ emails' = [a \in Addresses |-> IF EmailOf(u, a) THEN None ELSE emails[a]]
         /\ EndTokens(u)
         /\ totpTokens' = totpTokens \ {u}
         /\ recoveryKeys' = recoveryKeys \ {u}
  /\ UNCHANGED <<known, foreign>>

(* The operations, in the groups in which lib/db/mem.js has them.          *)
CreateStep ==
  \E u \in Uids :
    \/ \E a \in Addresses, v \in BOOLEAN : CreateAccount(u, a, v)
    \/ \E t \in TokenIds : CreatePasswordForgotToken(u, t) \/ CreatePasswordChangeToken(u, t)

DeleteTokenStep ==
  \E t \in TokenIds :
    DeletePasswordForgotToken(t) \/ DeletePasswordChangeToken(t) \/ DeleteAccountResetToken(t)

BatchStep ==
  \/ \E u \in Uids :
       \/ \E a \in Addresses : VerifyEmail(u, a)
       \/ \E t, n \in TokenIds : ForgotPasswordVerified(u, t, n)
       \/ ResetAccount(u) \/ DeleteAccount(u) \/ ResetAccountTokens(u)
  \/ VerifyEmailTurn \/ ResetAccountTurn \/ DeleteAccountTurn

EmailStep ==
  \E u \in Uids, a \in Addresses :
    \/ \E v \in BOOLEAN : CreateEmail(u, a, v)
    \/ SetPrimaryEmail(u, a)
    \/ DeleteEmail(u, a)

FactorStep ==
  \/ \E u \in Uids :
       CreateTotpToken(u) \/ DeleteTotpToken(u) \/ CreateRecoveryKey(u) \/ DeleteRecoveryKey(u)
  \/ CreateRecoveryKeyTurn \/ DeleteRecoveryKeyTurn

Next == CreateStep \/ DeleteTokenStep \/ BatchStep \/ EmailStep \/ FactorStep

Spec == Init /\ [][Next]_vars

-----------------------------------------------------------------------------
(* What emailRecord and accountRecord find for an address.                 *)
EmailRecord(a) == uidByNormalizedEmail[a]
AccountRecord(a) == IF emails[a] = None THEN None ELSE emails[a].uid

(* Three collections say whose an address is.  The index is exactly the    *)
(* accounts', and emails never disagrees with it: emailRecord and          *)
(* accountRecord do not name different accounts for one address.  (In the  *)
(* PostgreSQL store they may.)                                             *)
RecordsAgree ==
  \A a \in Addresses :
    /\ \A u \in Uids : uidByNormalizedEmail[a] = u <=> accounts[u] = a
    /\ None \in {EmailRecord(a), AccountRecord(a)} \/ EmailRecord(a) = AccountRecord(a)

(* Every account has exactly one primary address, unless setPrimaryEmail   *)
(* was called with an address of another account.                          *)
OnePrimaryUnlessForeign ==
  foreign \/ \A u \in Uids : Exists(u) =>
    \E a \in Addresses : IsPrimary(u, a) /\ \A b \in Addresses \ {a} : ~IsPrimary(u, b)

TokenCollections == {passwordForgotTokens, passwordChangeTokens, accountResetTokens}

(* A token that a reset or closure of its account ended never comes back,  *)
(* and an account has one token of each kind at most: nothing but the      *)
(* order of statements ensures either.                                     *)
TokensCurrent ==
  \A tokens \in TokenCollections :
    /\ \A t \in outdated : tokens[t] = None
    /\ \A t, s \in TokenIds : t # s /\ tokens[t] # None => tokens[t] # tokens[s]

(* When an account goes, nothing of it stays.                              *)
NoneOf(u) ==
  /\ \A a \in Addresses : ~EmailOf(u, a) /\ uidByNormalizedEmail[a] # u
  /\ \A tokens \in TokenCollections, t \in TokenIds : tokens[t] # u
  /\ u \notin totpTokens \cup recoveryKeys

NothingLeft == [][\A u \in Uids : Exists(u) /\ ~Exists(u)' => NoneOf(u)']_vars

(* Until a setPrimaryEmail with another account's address, the collections *)
(* implement the abstract address book.                                    *)
Book == INSTANCE AddressBook WITH
  owner <- [a \in Addresses |-> AccountRecord(a)],
  primary <- {a \in Addresses : emails[a] # None /\ emails[a].isPrimary},
  verified <- {a \in Addresses : emails[a] # None /\ emails[a].isVerified}

BookUnlessForeign == Book!Init /\ [][Book!Next \/ foreign']_(Book!book)
-----------------------------------------------------------------------------
(* What the properties need to be inductive.  An account is there when the *)
(* closing callback runs, and so is its entry in the index, unless another *)
(* one in the same drain has closed it.                                    *)
ClosingKnows(call) ==
  call.proc = "deleteAccount" =>
    \/ accounts[call.uid] = call.address
    \/ draining /\ accounts[call.uid] = None /\ uidByNormalizedEmail[call.address] = None

QueueOK == \A i \in 1..Len(queue) : ClosingKnows(queue[i])

NothingForUnknown ==
  \A u \in Uids \ known : ~Exists(u) /\ \A a \in Addresses : ~EmailOf(u, a)

(* A token is in one of the three collections at most.                     *)
TokensIssued ==
  /\ outdated \subseteq issued
  /\ \A t \in TokenIds :
       /\ \A tokens \in TokenCollections : tokens[t] # None => t \in issued
       /\ None \in {passwordForgotTokens[t], passwordChangeTokens[t]}
       /\ None \in {passwordForgotTokens[t], accountResetTokens[t]}
       /\ None \in {passwordChangeTokens[t], accountResetTokens[t]}

IInv ==
  /\ TypeOK
  /\ RecordsAgree /\ QueueOK
  /\ OnePrimaryUnlessForeign /\ NothingForUnknown
  /\ TokensCurrent /\ TokensIssued
=============================================================================
