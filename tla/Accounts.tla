------------------------------ MODULE Accounts ------------------------------
(***************************************************************************)
(* The tables accounts, emails, passwordForgotTokens, passwordChangeTokens,*)
(* accountResetTokens, totp and recoveryKeys, and the stored procedures of *)
(* lib/db/schema that lib/db/postgres.js calls on them.                    *)
(*                                                                         *)
(* A procedure whose reads all lock is one step.  createAccount_7 is one   *)
(* too: its SELECT COUNT takes no lock, but the unique indexes decide in   *)
(* the INSERTs that follow, and a refusal changes nothing.  deleteEmail_3  *)
(* and createRecoveryKey_3 read without a lock what they act on later, and *)
(* are two steps.                                                          *)
(*                                                                         *)
(* An email code is random and names one row of emails, so verifyEmail_6 is*)
(* given the row's address.  accounts.emailVerified, the hashes and keys of*)
(* an account, its locale and profileChangedAt are left out: no property   *)
(* tells their values apart.                                               *)
(***************************************************************************)
EXTENDS Naturals, FiniteSets

CONSTANTS
  Uids,         \* accounts
  Addresses,    \* email addresses, normalized
  TokenIds,     \* ids of password-forgot, password-change and account-reset tokens
  Connections,  \* database connections that run the two-step procedures
  None          \* "no such row"

(* A row of emails.                                                        *)
Email == [uid : Uids, isPrimary : BOOLEAN, isVerified : BOOLEAN]

ASSUME AccountsAssumption == None \notin Uids \cup Addresses \cup TokenIds \cup Email

VARIABLES
  accounts,              \* [Uids -> accounts.normalizedEmail or None]
  emails,                \* [Addresses -> row or None]
  passwordForgotTokens,  \* [Uids -> tokenId or None]: uid is a unique index
  passwordChangeTokens,  \* likewise
  accountResetTokens,    \* likewise
  totp,                  \* [Uids -> TotpState]
  recoveryKeys,          \* the uids that have a row
  known,                 \* uids that an account was created with: they are random, so none
                         \* is used twice, or known to a caller before (history)
  issuedTo,              \* [TokenIds -> the account a token was made for, or None] (history)
  outdated,              \* tokens that a reset or closure of their account ended (history)
  calls                  \* [Connections -> Call]

addressVars == <<accounts, emails, known>>
tokenVars ==
  <<passwordForgotTokens, passwordChangeTokens, accountResetTokens, issuedTo, outdated>>
factorVars == <<totp, recoveryKeys>>
vars == <<addressVars, tokenVars, factorVars, calls>>

(* No row of totp, or one whose verified column is not or is set.  The     *)
(* column enabled is only stored.                                          *)
TotpState == {"none", "unverified", "verified"}

(* What a connection remembers between two statements of one procedure.    *)
Idle == [proc |-> "idle"]
Call ==
  {Idle}
    \cup [proc : {"deleteEmail"}, uid : Uids, address : Addresses]
    \cup [proc : {"createRecoveryKey"}, uid : Uids]

TypeOK ==
  /\ accounts \in [Uids -> Addresses \cup {None}]
  /\ emails \in [Addresses -> Email \cup {None}]
  /\ passwordForgotTokens \in [Uids -> TokenIds \cup {None}]
  /\ passwordChangeTokens \in [Uids -> TokenIds \cup {None}]
  /\ accountResetTokens \in [Uids -> TokenIds \cup {None}]
  /\ totp \in [Uids -> TotpState]
  /\ recoveryKeys \subseteq Uids
  /\ known \subseteq Uids
  /\ issuedTo \in [TokenIds -> Uids \cup {None}]
  /\ outdated \subseteq TokenIds
  /\ calls \in [Connections -> Call]

Init ==
  /\ accounts = [u \in Uids |-> None]
  /\ emails = [a \in Addresses |-> None]
  /\ passwordForgotTokens = [u \in Uids |-> None]
  /\ passwordChangeTokens = [u \in Uids |-> None]
  /\ accountResetTokens = [u \in Uids |-> None]
  /\ totp = [u \in Uids |-> "none"]
  /\ recoveryKeys = {}
  /\ known = {}
  /\ issuedTo = [t \in TokenIds |-> None]
  /\ outdated = {}
  /\ calls = [c \in Connections |-> Idle]

Exists(u) == accounts[u] # None

(* The rows of emails that are u's.                                        *)
EmailOf(u, a) == emails[a] # None /\ emails[a].uid = u

IsPrimary(u, a) == EmailOf(u, a) /\ emails[a].isPrimary

IssuedTo(u) == {t \in TokenIds : issuedTo[t] = u}

-----------------------------------------------------------------------------
(* Accounts and addresses.                                                 *)

(* createAccount_7.  uid is the primary key and normalizedEmail a unique   *)
(* index of accounts, normalizedEmail a unique index of emails.            *)
CreateAccount(u, a, v) ==
  /\ u \notin known
  /\ emails[a] = None
  /\ \A w \in Uids : accounts[w] # a
  /\ accounts' = [accounts EXCEPT ![u] = a]
  /\ emails' = [emails EXCEPT ![a] = [uid |-> u, isPrimary |-> TRUE, isVerified |-> v]]
  /\ known' = known \cup {u}
  /\ UNCHANGED <<tokenVars, factorVars, calls>>

(* createEmail_2.  Neither the account nor accounts.normalizedEmail is     *)
(* looked at.                                                              *)
CreateEmail(u, a, v) ==
  /\ u \in known
  /\ emails[a] = None
  /\ emails' = [emails EXCEPT ![a] = [uid |-> u, isPrimary |-> FALSE, isVerified |-> v]]
  /\ UNCHANGED <<accounts, known, tokenVars, factorVars, calls>>

(* Faulty: the second UPDATE without "WHERE uid = inUid".                  *)
SetPrimaryEmail_AnyAccount(u, a) ==
  /\ emails[a] # None
  /\ emails' = [b \in Addresses |->
       IF EmailOf(u, b) \/ b = a THEN [emails[b] EXCEPT !.isPrimary = (b = a)] ELSE emails[b]]
  /\ UNCHANGED <<accounts, known, tokenVars, factorVars, calls>>

(* setPrimaryEmail_2: the account's primary rows are demoted, its row for a*)
(* is promoted, and if that changed no row all is rolled back.             *)
SetPrimaryEmail(u, a) ==
  /\ EmailOf(u, a)
  /\ emails' = [b \in Addresses |->
       IF EmailOf(u, b) THEN [emails[b] EXCEPT !.isPrimary = (b = a)] ELSE emails[b]]
  /\ UNCHANGED <<accounts, known, tokenVars, factorVars, calls>>

(* verifyEmail_6, with the code of the row for a.                          *)
VerifyEmail(u, a) ==
  /\ EmailOf(u, a)
  /\ emails' = [emails EXCEPT ![a].isVerified = TRUE]
  /\ UNCHANGED <<accounts, known, tokenVars, factorVars, calls>>

(* deleteEmail_3: the SELECT COUNT.  For a primary address it ends with    *)
(* cannotDeletePrimaryEmail.                                               *)
DeleteEmailCheck(c, u, a) ==
  /\ calls[c] = Idle
  /\ ~IsPrimary(u, a)
  /\ calls' = [calls EXCEPT ![c] = [proc |-> "deleteEmail", uid |-> u, address |-> a]]
  /\ UNCHANGED <<addressVars, tokenVars, factorVars>>

(* Faulty: the DELETE trusts the SELECT and has no "isPrimary = false".    *)
DeleteEmail_Trusting(c) ==
  /\ calls[c].proc = "deleteEmail"
  /\ LET call == calls[c]
     IN  emails' = [emails EXCEPT
           ![call.address] = IF EmailOf(call.uid, call.address) THEN None ELSE @]
  /\ calls' = [calls EXCEPT ![c] = Idle]
  /\ UNCHANGED <<accounts, known, tokenVars, factorVars>>

(* ... the DELETE, of a row that is not primary.                           *)
DeleteEmail(c) ==
  /\ calls[c].proc = "deleteEmail"
  /\ LET call == calls[c]
     IN  emails' = [emails EXCEPT
           ![call.address] =
              IF EmailOf(call.uid, call.address) /\ ~@.isPrimary THEN None ELSE @]
  /\ calls' = [calls EXCEPT ![c] = Idle]
  /\ UNCHANGED <<accounts, known, tokenVars, factorVars>>

-----------------------------------------------------------------------------
(* Password-forgot, password-change and account-reset tokens.              *)

Issue(u, t) ==
  /\ u \in known
  /\ issuedTo[t] = None
  /\ issuedTo' = [issuedTo EXCEPT ![t] = u]

(* createPasswordForgotToken_2: REPLACE, so a uid has one token at most.   *)
(* The account is not looked at, here and below.                           *)
CreatePasswordForgotToken(u, t) ==
  /\ Issue(u, t)
  /\ passwordForgotTokens' = [passwordForgotTokens EXCEPT ![u] = t]
  /\ UNCHANGED <<addressVars, passwordChangeTokens, accountResetTokens, outdated,
                 factorVars, calls>>

(* createPasswordChangeToken_2                                             *)
CreatePasswordChangeToken(u, t) ==
  /\ Issue(u, t)
  /\ passwordChangeTokens' = [passwordChangeTokens EXCEPT ![u] = t]
  /\ UNCHANGED <<addressVars, passwordForgotTokens, accountResetTokens, outdated,
                 factorVars, calls>>

Without(table, T) == [u \in Uids |-> IF table[u] \in T THEN None ELSE table[u]]

(* deletePasswordForgotToken_1                                             *)
DeletePasswordForgotToken(t) ==
  /\ passwordForgotTokens' = Without(passwordForgotTokens, {t})
  /\ UNCHANGED <<addressVars, passwordChangeTokens, accountResetTokens, issuedTo, outdated,
                 factorVars, calls>>

(* deletePasswordChangeToken_1                                             *)
DeletePasswordChangeToken(t) ==
  /\ passwordChangeTokens' = Without(passwordChangeTokens, {t})
  /\ UNCHANGED <<addressVars, passwordForgotTokens, accountResetTokens, issuedTo, outdated,
                 factorVars, calls>>

(* deleteAccountResetToken_1                                               *)
DeleteAccountResetToken(t) ==
  /\ accountResetTokens' = Without(accountResetTokens, {t})
  /\ UNCHANGED <<addressVars, passwordForgotTokens, passwordChangeTokens, issuedTo, outdated,
                 factorVars, calls>>

(* forgotPasswordVerified_7, with a password-forgot token that the caller  *)
(* read some time ago and an account-reset token it made: whether the      *)
(* former is still there is not looked at.                                 *)
ForgotPasswordVerified(u, t, n) ==
  /\ issuedTo[t] = u
  /\ Issue(u, n)
  /\ accountResetTokens' = [accountResetTokens EXCEPT ![u] = n]
  /\ passwordForgotTokens' = Without(passwordForgotTokens, {t})
  /\ emails' = [a \in Addresses |->
       IF IsPrimary(u, a) THEN [emails[a] EXCEPT !.isVerified = TRUE] ELSE emails[a]]
  /\ UNCHANGED <<accounts, known, passwordChangeTokens, outdated, factorVars, calls>>

(* Faulty: without DELETE FROM passwordChangeTokens.                       *)
EndTokens_KeepChange(u) ==
  /\ passwordForgotTokens' = [passwordForgotTokens EXCEPT ![u] = None]
  /\ accountResetTokens' = [accountResetTokens EXCEPT ![u] = None]
  /\ outdated' = outdated \cup IssuedTo(u)
  /\ UNCHANGED <<passwordChangeTokens, issuedTo>>

(* The three DELETEs that end an account's tokens.                         *)
EndTokens(u) ==
  /\ passwordForgotTokens' = [passwordForgotTokens EXCEPT ![u] = None]
  /\ passwordChangeTokens' = [passwordChangeTokens EXCEPT ![u] = None]
  /\ accountResetTokens' = [accountResetTokens EXCEPT ![u] = None]
  /\ outdated' = outdated \cup IssuedTo(u)
  /\ UNCHANGED issuedTo

(* resetAccount_9                                                          *)
ResetAccount(u) ==
  /\ EndTokens(u)
  /\ UNCHANGED <<addressVars, factorVars, calls>>

(* resetAccountTokens_1                                                    *)
ResetAccountTokens(u) ==
  /\ EndTokens(u)
  /\ UNCHANGED <<addressVars, factorVars, calls>>

(* prune_7, its DELETEs from these tables.  Which rows are older than      *)
(* pruneTokensMaxAge is left open.                                         *)
PruneTokens(T) ==
  /\ passwordForgotTokens' = Without(passwordForgotTokens, T)
  /\ passwordChangeTokens' = Without(passwordChangeTokens, T)
  /\ accountResetTokens' = Without(accountResetTokens, T)
  /\ UNCHANGED <<addressVars, issuedTo, outdated, factorVars, calls>>

-----------------------------------------------------------------------------
(* TOTP tokens and recovery keys.                                          *)

(* createTotpToken_1                                                       *)
CreateTotpToken(u) ==
  /\ u \in known
  /\ totp[u] = "none"
  /\ totp' = [totp EXCEPT ![u] = "unverified"]
  /\ UNCHANGED <<addressVars, tokenVars, recoveryKeys, calls>>

(* updateTotpToken_2.  Without a row nothing is updated, and the answer    *)
(* depends on the account's row, which is updated last.                    *)
UpdateTotpToken(u, verified) ==
  /\ totp[u] # "none"
  /\ totp' = [totp EXCEPT ![u] = IF verified THEN "verified" ELSE "unverified"]
  /\ UNCHANGED <<addressVars, tokenVars, recoveryKeys, calls>>

(* deleteTotpToken_2                                                       *)
DeleteTotpToken(u) ==
  /\ totp' = [totp EXCEPT ![u] = "none"]
  /\ UNCHANGED <<addressVars, tokenVars, recoveryKeys, calls>>

(* createRecoveryKey_3: the SELECT COUNT of the account.                   *)
CreateRecoveryKeyCheck(c, u) ==
  /\ calls[c] = Idle
  /\ Exists(u)
  /\ calls' = [calls EXCEPT ![c] = [proc |-> "createRecoveryKey", uid |-> u]]
  /\ UNCHANGED <<addressVars, tokenVars, factorVars>>

(* ... the INSERT, which a key that is there makes fail.                   *)
CreateRecoveryKey(c) ==
  /\ calls[c].proc = "createRecoveryKey"
  /\ recoveryKeys' = recoveryKeys \cup {calls[c].uid}
  /\ calls' = [calls EXCEPT ![c] = Idle]
  /\ UNCHANGED <<addressVars, tokenVars, totp>>

(* deleteRecoveryKey_2                                                     *)
DeleteRecoveryKey(u) ==
  /\ recoveryKeys' = recoveryKeys \ {u}
  /\ UNCHANGED <<addressVars, tokenVars, totp, calls>>

-----------------------------------------------------------------------------
(* The connection dies between the two statements.                         *)
ConnectionLost(c) ==
  /\ calls[c] # Idle
  /\ calls' = [calls EXCEPT ![c] = Idle]
  /\ UNCHANGED <<addressVars, tokenVars, factorVars>>

(* deleteAccount_15                                                        *)
DeleteAccount(u) ==
  /\ accounts' = [accounts EXCEPT ![u] = None]
  /\ emails' = [a \in Addresses |-> IF EmailOf(u, a) THEN None ELSE emails[a]]
  /\ EndTokens(u)
  /\ totp' = [totp EXCEPT ![u] = "none"]
  /\ recoveryKeys' = recoveryKeys \ {u}
  /\ UNCHANGED <<known, calls>>

(* The operations in the groups in which lib/db/postgres.js has them.      *)
AccountStep ==
  \E u \in Uids :
    \/ \E a \in Addresses, v \in BOOLEAN : CreateAccount(u, a, v)
    \/ DeleteAccount(u)

IssueStep ==
  \E u \in Uids, t \in TokenIds :
    CreatePasswordForgotToken(u, t) \/ CreatePasswordChangeToken(u, t)

DeleteTokenStep ==
  \E t \in TokenIds :
    DeleteAccountResetToken(t) \/ DeletePasswordForgotToken(t) \/ DeletePasswordChangeToken(t)

CredentialStep ==
  \E u \in Uids :
    \/ ResetAccount(u)
    \/ \E a \in Addresses : VerifyEmail(u, a)
    \/ \E t, n \in TokenIds : ForgotPasswordVerified(u, t, n)

CreateEmailStep == \E u \in Uids, a \in Addresses, v \in BOOLEAN : CreateEmail(u, a, v)

EmailStep ==
  \/ CreateEmailStep
  \/ \E u \in Uids, a \in Addresses :
       \/ SetPrimaryEmail(u, a)
       \/ \E c \in Connections : DeleteEmailCheck(c, u, a)
  \/ \E c \in Connections : DeleteEmail(c)

TotpStep ==
  \E u \in Uids :
    \/ CreateTotpToken(u)
    \/ DeleteTotpToken(u)
    \/ \E verified \in BOOLEAN : UpdateTotpToken(u, verified)

RecoveryKeyStep ==
  \/ \E u \in Uids :
       (\E c \in Connections : CreateRecoveryKeyCheck(c, u)) \/ DeleteRecoveryKey(u)
  \/ \E c \in Connections : CreateRecoveryKey(c)

Next ==
  \/ AccountStep \/ IssueStep \/ DeleteTokenStep \/ CredentialStep \/ EmailStep
  \/ TotpStep \/ RecoveryKeyStep
  \/ \E u \in Uids : ResetAccountTokens(u)
  \/ \E T \in SUBSET TokenIds : PruneTokens(T)
  \/ \E c \in Connections : ConnectionLost(c)

Spec == Init /\ [][Next]_vars

-----------------------------------------------------------------------------
(* Every account has exactly one primary address, and it is a row of its   *)
(* own: accountRecord_3, consumeSigninCode_4 and sessionWithDevice_16 join *)
(* with that row and find nothing, or two rows, otherwise.                 *)
OnePrimary ==
  \A u \in Uids : Exists(u) =>
    \E a \in Addresses : IsPrimary(u, a) /\ \A b \in Addresses \ {a} : ~IsPrimary(u, b)

(* What OnePrimary needs to be inductive: nothing is stored for a uid that *)
(* no account was created with.                                            *)
NothingForUnknown ==
  \A u \in Uids \ known : ~Exists(u) /\ \A a \in Addresses : ~EmailOf(u, a)

TokenTables == {passwordForgotTokens, passwordChangeTokens, accountResetTokens}

(* A token that a password reset or a closure ended never comes back, in   *)
(* whatever order tokens were made, replaced, exchanged and deleted.       *)
OutdatedTokensGone ==
  \A table \in TokenTables, u \in Uids : table[u] \notin outdated

(* A stored token is one its account was given.                            *)
TokensIssued ==
  /\ \A table \in TokenTables, u \in Uids : table[u] # None => issuedTo[table[u]] = u
  /\ \A t \in outdated : issuedTo[t] # None

NoRowsOf(u) ==
  /\ \A a \in Addresses : ~EmailOf(u, a)
  /\ \A table \in TokenTables : table[u] = None
  /\ totp[u] = "none"
  /\ u \notin recoveryKeys

(* No foreign key ties these tables to accounts.  Still, when an account   *)
(* goes, nothing of it stays.  (What is created for it later does.)        *)
NothingLeft == [][\A u \in Uids : Exists(u) /\ ~Exists(u)' => NoRowsOf(u)']_vars

(* The tables implement the abstract address book.                         *)
Book == INSTANCE AddressBook WITH
  owner <- [a \in Addresses |-> IF emails[a] = None THEN None ELSE emails[a].uid],
  primary <- {a \in Addresses : emails[a] # None /\ emails[a].isPrimary},
  verified <- {a \in Addresses : emails[a] # None /\ emails[a].isVerified}

BookSpec == Book!Spec

(* What is left for a uid whose account is gone is like an account's: that *)
(* is what the refinement needs.                                           *)
AtMostOnePrimary ==
  \A u \in Uids, a, b \in Addresses : IsPrimary(u, a) /\ IsPrimary(u, b) => a = b

IInv ==
  /\ TypeOK
  /\ OnePrimary /\ AtMostOnePrimary /\ NothingForUnknown
  /\ OutdatedTokensGone /\ TokensIssued
=============================================================================
