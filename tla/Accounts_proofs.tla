--------------------------- MODULE Accounts_proofs ---------------------------
(***************************************************************************)
(* Proofs about Accounts, for any number of accounts, addresses, tokens and*)
(* connections: the invariant, and that the tables implement AddressBook.  *)
(***************************************************************************)
EXTENDS Accounts, TLAPS

(* The columns of a row of emails.                                         *)
LEMMA Columns ==
  ASSUME TypeOK, NEW a \in Addresses, emails[a] # None
  PROVE  /\ emails[a] \in Email
         /\ emails[a].uid \in Uids
         /\ emails[a].isPrimary \in BOOLEAN
         /\ emails[a].isVerified \in BOOLEAN
BY DEF TypeOK, Email

(* The fields of a call between its two statements.                        *)
LEMMA CallFields ==
  ASSUME TypeOK, NEW c \in Connections
  PROVE  /\ calls[c].proc = "deleteEmail" => calls[c].uid \in Uids /\ calls[c].address \in Addresses
         /\ calls[c].proc = "createRecoveryKey" => calls[c].uid \in Uids
BY DEF TypeOK, Call, Idle

(* Deleting tokens from a table leaves a table.                            *)
LEMMA WithoutType ==
  ASSUME NEW table \in [Uids -> TokenIds \cup {None}], NEW T
  PROVE  /\ Without(table, T) \in [Uids -> TokenIds \cup {None}]
         /\ \A u \in Uids : Without(table, T)[u] \in {table[u], None}
BY DEF Without

-----------------------------------------------------------------------------
(* The type invariant is inductive by itself: what each group of actions   *)
(* does to the columns.                                                    *)
LEMMA AddressTypes ==
  ASSUME TypeOK, AccountStep \/ EmailStep
  PROVE  TypeOK'
<1> USE DEF TypeOK
<1>1. ASSUME NEW u \in Uids, NEW a \in Addresses, NEW v \in BOOLEAN, CreateAccount(u, a, v)
      PROVE  TypeOK'
  BY <1>1 DEF CreateAccount, tokenVars, factorVars, Email
<1>2. ASSUME NEW u \in Uids, DeleteAccount(u) PROVE TypeOK'
  BY <1>2 DEF DeleteAccount, EndTokens, IssuedTo, TotpState
<1>3. ASSUME NEW u \in Uids, NEW a \in Addresses, NEW v \in BOOLEAN, CreateEmail(u, a, v)
      PROVE  TypeOK'
  BY <1>3 DEF CreateEmail, tokenVars, factorVars, Email
<1>4. ASSUME NEW u \in Uids, NEW a \in Addresses, SetPrimaryEmail(u, a) PROVE TypeOK'
  <2>1. \A b \in Addresses : EmailOf(u, b) => [emails[b] EXCEPT !.isPrimary = (b = a)] \in Email
    BY Columns DEF EmailOf, Email
  <2> QED BY <1>4, <2>1 DEF SetPrimaryEmail, tokenVars, factorVars
<1>5. ASSUME NEW c \in Connections, NEW u \in Uids, NEW a \in Addresses, DeleteEmailCheck(c, u, a)
      PROVE  TypeOK'
  BY <1>5 DEF DeleteEmailCheck, addressVars, tokenVars, factorVars, Call
<1>6. ASSUME NEW c \in Connections, DeleteEmail(c) PROVE TypeOK'
  <2>1. calls' \in [Connections -> Call] BY <1>6 DEF DeleteEmail, Call
  <2>2. emails' \in [Addresses -> Email \cup {None}] BY <1>6, CallFields DEF DeleteEmail
  <2> QED BY <1>6, <2>1, <2>2 DEF DeleteEmail, tokenVars, factorVars
<1> QED BY <1>1, <1>2, <1>3, <1>4, <1>5, <1>6 DEF AccountStep, EmailStep, CreateEmailStep

LEMMA TokenTypes ==
  ASSUME TypeOK,
         \/ IssueStep \/ DeleteTokenStep \/ CredentialStep
         \/ \E u \in Uids : ResetAccountTokens(u)
         \/ \E T \in SUBSET TokenIds : PruneTokens(T)
  PROVE  TypeOK'
<1> USE DEF TypeOK
<1>1. ASSUME IssueStep PROVE TypeOK'
  BY <1>1 DEF IssueStep, CreatePasswordForgotToken, CreatePasswordChangeToken, Issue,
     addressVars, factorVars
<1>2. ASSUME DeleteTokenStep PROVE TypeOK'
  BY <1>2, WithoutType DEF DeleteTokenStep, DeleteAccountResetToken, DeletePasswordForgotToken,
     DeletePasswordChangeToken, addressVars, factorVars
<1>3. ASSUME NEW u \in Uids, ResetAccount(u) \/ ResetAccountTokens(u) PROVE TypeOK'
  BY <1>3 DEF ResetAccount, ResetAccountTokens, EndTokens, IssuedTo, addressVars, factorVars
<1>4. ASSUME NEW u \in Uids, NEW a \in Addresses, VerifyEmail(u, a) PROVE TypeOK'
  <2>1. [emails[a] EXCEPT !.isVerified = TRUE] \in Email
    BY <1>4, Columns DEF VerifyEmail, EmailOf, Email
  <2> QED BY <1>4, <2>1 DEF VerifyEmail, tokenVars, factorVars
<1>5. ASSUME NEW u \in Uids, NEW t \in TokenIds, NEW n \in TokenIds, ForgotPasswordVerified(u, t, n)
      PROVE  TypeOK'
  <2>1. \A a \in Addresses : IsPrimary(u, a) => [emails[a] EXCEPT !.isVerified = TRUE] \in Email
    BY Columns DEF IsPrimary, EmailOf, Email
  <2>2. emails' \in [Addresses -> Email \cup {None}] BY <1>5, <2>1 DEF ForgotPasswordVerified
  <2> QED BY <1>5, <2>2, WithoutType DEF ForgotPasswordVerified, Issue, factorVars
<1>6. ASSUME NEW T \in SUBSET TokenIds, PruneTokens(T) PROVE TypeOK'
  BY <1>6, WithoutType DEF PruneTokens, addressVars, factorVars
<1> QED BY <1>1, <1>2, <1>3, <1>4, <1>5, <1>6 DEF CredentialStep

LEMMA FactorTypes ==
  ASSUME TypeOK, TotpStep \/ RecoveryKeyStep \/ \E c \in Connections : ConnectionLost(c)
  PROVE  TypeOK'
<1> USE DEF TypeOK, addressVars, tokenVars, factorVars
<1>1. ASSUME TotpStep PROVE TypeOK'
  BY <1>1 DEF TotpStep, CreateTotpToken, DeleteTotpToken, UpdateTotpToken, TotpState
<1>2. ASSUME NEW c \in Connections, NEW u \in Uids, CreateRecoveryKeyCheck(c, u) PROVE TypeOK'
  BY <1>2 DEF CreateRecoveryKeyCheck, Call
<1>3. ASSUME NEW c \in Connections, CreateRecoveryKey(c) PROVE TypeOK'
  BY <1>3, CallFields DEF CreateRecoveryKey, Call
<1>4. ASSUME NEW u \in Uids, DeleteRecoveryKey(u) PROVE TypeOK'
  BY <1>4 DEF DeleteRecoveryKey
<1>5. ASSUME NEW c \in Connections, ConnectionLost(c) PROVE TypeOK'
  BY <1>5 DEF ConnectionLost, Call
<1> QED BY <1>1, <1>2, <1>3, <1>4, <1>5 DEF RecoveryKeyStep

LEMMA TypeStep == ASSUME TypeOK, [Next]_vars PROVE TypeOK'
<1>1. CASE UNCHANGED vars
  BY <1>1 DEF vars, addressVars, tokenVars, factorVars, TypeOK
<1> QED BY <1>1, AddressTypes, TokenTypes, FactorTypes DEF Next
-----------------------------------------------------------------------------
(* Most actions leave the addresses alone.                                 *)
LEMMA AddressesKept ==
  ASSUME [Next]_vars, ~AccountStep, ~CredentialStep, ~EmailStep
  PROVE  UNCHANGED addressVars
BY DEF Next, vars, addressVars, IssueStep, CreatePasswordForgotToken, CreatePasswordChangeToken,
   DeleteTokenStep, DeleteAccountResetToken, DeletePasswordForgotToken, DeletePasswordChangeToken,
   TotpStep, CreateTotpToken, DeleteTotpToken, UpdateTotpToken,
   RecoveryKeyStep, CreateRecoveryKeyCheck, CreateRecoveryKey, DeleteRecoveryKey,
   ResetAccountTokens, PruneTokens, ConnectionLost

OneAddress == OnePrimary /\ AtMostOnePrimary /\ NothingForUnknown

(* An action that keeps every row's owner and primary flag, or removes rows*)
(* that are not primary, keeps the primary addresses as they are.          *)
LEMMA SamePrimaries ==
  ASSUME TypeOK, OneAddress, UNCHANGED <<accounts, known>>,
         \A u \in Uids, a \in Addresses :
           (EmailOf(u, a)' => EmailOf(u, a)) /\ (IsPrimary(u, a)' <=> IsPrimary(u, a))
  PROVE  OneAddress'
BY DEF OneAddress, OnePrimary, AtMostOnePrimary, NothingForUnknown, Exists

LEMMA OneAddressStep == ASSUME TypeOK, OneAddress, [Next]_vars PROVE OneAddress'
<1> USE AccountsAssumption
<1>1. CASE UNCHANGED addressVars
  BY <1>1 DEF addressVars, OneAddress, OnePrimary, AtMostOnePrimary, NothingForUnknown,
     Exists, IsPrimary, EmailOf
<1>2. ASSUME NEW u \in Uids, NEW a \in Addresses, NEW v \in BOOLEAN, CreateAccount(u, a, v)
      PROVE  OneAddress'
  <2> DEFINE row == [uid |-> u, isPrimary |-> TRUE, isVerified |-> v]
  <2>1. row # None
    <3>1. row \in Email BY DEF Email
    <3> QED BY <3>1
  <2>2. emails'[a] = row /\ \A b \in Addresses \ {a} : emails'[b] = emails[b]
    BY <1>2 DEF CreateAccount, TypeOK
  <2>3. /\ \A w \in Uids \ {u}, b \in Addresses :
             (EmailOf(w, b)' <=> EmailOf(w, b)) /\ (IsPrimary(w, b)' <=> IsPrimary(w, b))
        /\ \A b \in Addresses : ~EmailOf(u, b)
    BY <1>2, <2>1, <2>2 DEF CreateAccount, EmailOf, IsPrimary, OneAddress, NothingForUnknown
  <2>4. IsPrimary(u, a)' /\ \A b \in Addresses \ {a} : ~IsPrimary(u, b)'
    BY <2>1, <2>2, <2>3 DEF EmailOf, IsPrimary
  <2>5. u \in known' /\ known \subseteq known' /\ \A w \in Uids \ {u} : accounts'[w] = accounts[w]
    BY <1>2 DEF CreateAccount, TypeOK
  <2> QED BY <2>3, <2>4, <2>5
  DEF OneAddress, OnePrimary, AtMostOnePrimary, NothingForUnknown, Exists
<1>3. ASSUME NEW u \in Uids, DeleteAccount(u) PROVE OneAddress'
  <2>1. /\ \A w \in Uids \ {u}, b \in Addresses :
             (EmailOf(w, b)' <=> EmailOf(w, b)) /\ (IsPrimary(w, b)' <=> IsPrimary(w, b))
        /\ \A b \in Addresses : ~EmailOf(u, b)'
    BY <1>3 DEF DeleteAccount, EmailOf, IsPrimary, TypeOK
  <2>2. known' = known /\ accounts'[u] = None /\ \A w \in Uids \ {u} : accounts'[w] = accounts[w]
    BY <1>3 DEF DeleteAccount, TypeOK
  <2>3. \A b \in Addresses : ~IsPrimary(u, b)' BY <2>1 DEF IsPrimary
  <2> QED
    BY <2>1, <2>2, <2>3 DEF OneAddress, OnePrimary, AtMostOnePrimary, NothingForUnknown, Exists
<1>4. ASSUME NEW u \in Uids, NEW a \in Addresses, NEW v \in BOOLEAN, CreateEmail(u, a, v)
      PROVE  OneAddress'
  <2> DEFINE row == [uid |-> u, isPrimary |-> FALSE, isVerified |-> v]
  <2>1. emails'[a] = row /\ emails[a] = None /\ \A b \in Addresses \ {a} : emails'[b] = emails[b]
    BY <1>4 DEF CreateEmail, TypeOK
  <2>2. /\ \A w \in Uids \ {u}, b \in Addresses : EmailOf(w, b)' <=> EmailOf(w, b)
        /\ \A w \in Uids, b \in Addresses : IsPrimary(w, b)' <=> IsPrimary(w, b)
    BY <2>1 DEF EmailOf, IsPrimary
  <2>3. u \in known /\ UNCHANGED <<accounts, known>> BY <1>4 DEF CreateEmail
  <2> QED BY <2>2, <2>3 DEF OneAddress, OnePrimary, AtMostOnePrimary, NothingForUnknown, Exists
<1>5. ASSUME NEW u \in Uids, NEW a \in Addresses, SetPrimaryEmail(u, a) PROVE OneAddress'
  <2>1. \A b \in Addresses : EmailOf(u, b) =>
          /\ emails'[b] # None /\ emails'[b].uid = u /\ emails'[b].isPrimary = (b = a)
    <3>1. SUFFICES ASSUME NEW b \in Addresses, EmailOf(u, b)
                   PROVE  /\ emails'[b] # None /\ emails'[b].uid = u
                          /\ emails'[b].isPrimary = (b = a)
      OBVIOUS
    <3>2. emails'[b] = [emails[b] EXCEPT !.isPrimary = (b = a)]
      BY <1>5, <3>1 DEF SetPrimaryEmail
    <3>3. emails[b] \in Email /\ emails[b].uid = u BY <3>1, Columns DEF EmailOf
    <3>4. emails'[b] \in Email /\ emails'[b].uid = u /\ emails'[b].isPrimary = (b = a)
      BY <3>2, <3>3 DEF Email
    <3> QED BY <3>4
  <2>2. \A b \in Addresses : ~EmailOf(u, b) => emails'[b] = emails[b]
    BY <1>5 DEF SetPrimaryEmail
  <2>3. UNCHANGED <<accounts, known>> /\ EmailOf(u, a) BY <1>5 DEF SetPrimaryEmail
  <2>4. \A w \in Uids, b \in Addresses : EmailOf(w, b)' <=> EmailOf(w, b)
    BY <2>1, <2>2 DEF EmailOf
  <2>5. \A w \in Uids \ {u}, b \in Addresses : IsPrimary(w, b)' <=> IsPrimary(w, b)
    BY <2>1, <2>2, <2>4 DEF EmailOf, IsPrimary
  <2>6. IsPrimary(u, a)' /\ \A b \in Addresses \ {a} : ~IsPrimary(u, b)'
    BY <2>1, <2>3, <2>4 DEF IsPrimary
  <2> QED BY <2>3, <2>4, <2>5, <2>6
  DEF OneAddress, OnePrimary, AtMostOnePrimary, NothingForUnknown, Exists
<1>6. ASSUME NEW c \in Connections, DeleteEmail(c) PROVE OneAddress'
  <2> DEFINE a == calls[c].address
  <2>1. a \in Addresses BY <1>6, CallFields DEF DeleteEmail
  <2>2. /\ \A b \in Addresses \ {a} : emails'[b] = emails[b]
        /\ \/ emails'[a] = emails[a]
           \/ emails'[a] = None /\ emails[a] # None /\ ~emails[a].isPrimary
    <3> DEFINE gone == EmailOf(calls[c].uid, a) /\ ~emails[a].isPrimary
    <3>1. emails' = [emails EXCEPT ![a] = IF gone THEN None ELSE emails[a]]
      BY <1>6 DEF DeleteEmail
    <3>2. gone => emails[a] # None /\ ~emails[a].isPrimary BY DEF EmailOf
    <3> HIDE DEF a, gone
    <3> QED BY <2>1, <3>1, <3>2 DEF TypeOK
  <2> HIDE DEF a
  <2>3. \A u \in Uids, b \in Addresses :
          (EmailOf(u, b)' => EmailOf(u, b)) /\ (IsPrimary(u, b)' <=> IsPrimary(u, b))
    BY <2>1, <2>2 DEF EmailOf, IsPrimary
  <2> QED BY <1>6, <2>3, SamePrimaries DEF DeleteEmail
<1>7. ASSUME NEW u \in Uids, NEW a \in Addresses, VerifyEmail(u, a) PROVE OneAddress'
  <2>1. emails'[a] = [emails[a] EXCEPT !.isVerified = TRUE] /\ emails[a] \in Email
        /\ \A b \in Addresses \ {a} : emails'[b] = emails[b]
    BY <1>7, Columns DEF VerifyEmail, EmailOf, TypeOK
  <2>2. emails'[a] \in Email /\ emails'[a].uid = emails[a].uid
        /\ emails'[a].isPrimary = emails[a].isPrimary
    BY <2>1 DEF Email
  <2>3. \A w \in Uids, b \in Addresses :
          (EmailOf(w, b)' => EmailOf(w, b)) /\ (IsPrimary(w, b)' <=> IsPrimary(w, b))
    BY <2>1, <2>2 DEF EmailOf, IsPrimary
  <2> QED BY <1>7, <2>3, SamePrimaries DEF VerifyEmail
<1>8. ASSUME NEW u \in Uids, NEW t \in TokenIds, NEW n \in TokenIds, ForgotPasswordVerified(u, t, n)
      PROVE  OneAddress'
  <2>1. ASSUME NEW a \in Addresses
        PROVE  emails'[a] = emails[a] \/
                 /\ emails[a] # None /\ emails'[a] # None /\ emails'[a].uid = emails[a].uid
                 /\ emails'[a].isPrimary = emails[a].isPrimary
    <3>1. CASE IsPrimary(u, a)
      <4>1. emails'[a] = [emails[a] EXCEPT !.isVerified = TRUE] /\ emails[a] \in Email
        BY <1>8, <3>1, Columns DEF ForgotPasswordVerified, IsPrimary, EmailOf
      <4>2. emails'[a] \in Email /\ emails'[a].uid = emails[a].uid
            /\ emails'[a].isPrimary = emails[a].isPrimary
        BY <4>1 DEF Email
      <4> QED BY <4>1, <4>2
    <3>2. CASE ~IsPrimary(u, a) BY <1>8, <3>2 DEF ForgotPasswordVerified
    <3> QED BY <3>1, <3>2
  <2>2. \A w \in Uids, b \in Addresses :
          (EmailOf(w, b)' => EmailOf(w, b)) /\ (IsPrimary(w, b)' <=> IsPrimary(w, b))
    BY <2>1 DEF EmailOf, IsPrimary
  <2> QED BY <1>8, <2>2, SamePrimaries DEF ForgotPasswordVerified
<1>9. \A u \in Uids : ResetAccount(u) => UNCHANGED addressVars BY DEF ResetAccount
<1>10. \A c \in Connections, u \in Uids, a \in Addresses :
         DeleteEmailCheck(c, u, a) => UNCHANGED addressVars
  BY DEF DeleteEmailCheck
<1> QED
  BY <1>1, <1>2, <1>3, <1>4, <1>5, <1>6, <1>7, <1>8, <1>9, <1>10, AddressesKept
  DEF AccountStep, CredentialStep, EmailStep, CreateEmailStep
-----------------------------------------------------------------------------
(* Most actions leave the tokens alone.                                    *)
LEMMA TokensKept ==
  ASSUME [Next]_vars, ~AccountStep, ~IssueStep, ~DeleteTokenStep, ~CredentialStep,
         ~\E u \in Uids : ResetAccountTokens(u), ~\E T \in SUBSET TokenIds : PruneTokens(T)
  PROVE  UNCHANGED tokenVars
BY
DEF Next, vars, tokenVars, EmailStep, CreateEmailStep, CreateEmail, SetPrimaryEmail, DeleteEmailCheck, DeleteEmail,
   TotpStep, CreateTotpToken, DeleteTotpToken, UpdateTotpToken,
   RecoveryKeyStep, CreateRecoveryKeyCheck, CreateRecoveryKey, DeleteRecoveryKey, ConnectionLost

TokensOK == OutdatedTokensGone /\ TokensIssued

(* Tokens that stay in their rows, or go.                                  *)
LEMMA FewerTokens ==
  ASSUME TypeOK, TokensOK, UNCHANGED <<issuedTo, outdated>>,
         \A u \in Uids :
           /\ passwordForgotTokens'[u] \in {passwordForgotTokens[u], None}
           /\ passwordChangeTokens'[u] \in {passwordChangeTokens[u], None}
           /\ accountResetTokens'[u] \in {accountResetTokens[u], None}
  PROVE  TokensOK'
BY AccountsAssumption DEF TypeOK, TokensOK, OutdatedTokensGone, TokensIssued, TokenTables

(* What the invariant says of one table.                                   *)
TableOK(table) ==
  \A u \in Uids : table[u] \notin outdated /\ (table[u] # None => issuedTo[table[u]] = u)

LEMMA TokensOKByTable ==
  TokensOK <=>
    /\ TableOK(passwordForgotTokens) /\ TableOK(passwordChangeTokens) /\ TableOK(accountResetTokens)
    /\ \A t \in outdated : issuedTo[t] # None
BY DEF TokensOK, OutdatedTokensGone, TokensIssued, TokenTables, TableOK

(* A token that is new to its account may be in any of the three tables.   *)
NewToken(table, u, t) ==
  \A w \in Uids :
    table'[w] = table[w] \/ table'[w] = None \/ (w = u /\ table'[w] = t)

LEMMA OneMoreToken ==
  ASSUME TypeOK, TokensOK, NEW u \in Uids, NEW t \in TokenIds, Issue(u, t), outdated' = outdated,
         NewToken(passwordForgotTokens, u, t), NewToken(passwordChangeTokens, u, t),
         NewToken(accountResetTokens, u, t)
  PROVE  TokensOK'
<1> USE AccountsAssumption DEF TypeOK
<1>1. /\ issuedTo[t] = None /\ issuedTo'[t] = u
      /\ \A q \in TokenIds \ {t} : issuedTo'[q] = issuedTo[q]
  BY DEF Issue
<1>2. t \notin outdated /\ None \notin outdated BY <1>1 DEF TokensOK, TokensIssued
<1>3. \A q \in outdated : issuedTo'[q] # None BY <1>1, <1>2 DEF TokensOK, TokensIssued
<1>4. TableOK(passwordForgotTokens)'
  BY <1>1, <1>2, TokensOKByTable DEF NewToken, TableOK
<1>5. TableOK(passwordChangeTokens)'
  BY <1>1, <1>2, TokensOKByTable DEF NewToken, TableOK
<1>6. TableOK(accountResetTokens)'
  BY <1>1, <1>2, TokensOKByTable DEF NewToken, TableOK
<1> QED BY <1>3, <1>4, <1>5, <1>6
    DEF TokensOK, OutdatedTokensGone, TokensIssued, TokenTables, TableOK

(* The end of an account's tokens.                                         *)
LEMMA NoMoreTokens ==
  ASSUME TypeOK, TokensOK, NEW u \in Uids, EndTokens(u)
  PROVE  TokensOK'
<1> USE AccountsAssumption DEF TypeOK
<1>1. issuedTo' = issuedTo /\ outdated' = outdated \cup IssuedTo(u) BY DEF EndTokens
<1>2. None \notin outdated' /\ \A t \in outdated' : issuedTo[t] # None
  BY DEF EndTokens, IssuedTo, TokensOK, TokensIssued
<1>3. TableOK(passwordForgotTokens)'
  BY <1>1, <1>2, TokensOKByTable DEF EndTokens, TableOK, IssuedTo
<1>4. TableOK(passwordChangeTokens)'
  BY <1>1, <1>2, TokensOKByTable DEF EndTokens, TableOK, IssuedTo
<1>5. TableOK(accountResetTokens)'
  BY <1>1, <1>2, TokensOKByTable DEF EndTokens, TableOK, IssuedTo
<1> QED BY <1>1, <1>2, <1>3, <1>4, <1>5
    DEF TokensOK, OutdatedTokensGone, TokensIssued, TokenTables, TableOK

LEMMA TokensStep == ASSUME TypeOK, TokensOK, [Next]_vars PROVE TokensOK'
<1>1. CASE UNCHANGED tokenVars
  BY <1>1 DEF tokenVars, TokensOK, OutdatedTokensGone, TokensIssued, TokenTables
<1>2. ASSUME NEW u \in Uids, DeleteAccount(u) \/ ResetAccount(u) \/ ResetAccountTokens(u)
      PROVE  TokensOK'
  BY <1>2, NoMoreTokens DEF DeleteAccount, ResetAccount, ResetAccountTokens
<1>3. ASSUME NEW u \in Uids, NEW t \in TokenIds,
             CreatePasswordForgotToken(u, t) \/ CreatePasswordChangeToken(u, t)
      PROVE  TokensOK'
  BY <1>3, OneMoreToken
  DEF CreatePasswordForgotToken, CreatePasswordChangeToken, NewToken, TypeOK
<1>4. ASSUME NEW u \in Uids, NEW t \in TokenIds, NEW n \in TokenIds, ForgotPasswordVerified(u, t, n)
      PROVE  TokensOK'
  <2>1. \A w \in Uids : passwordForgotTokens'[w] \in {passwordForgotTokens[w], None}
    BY <1>4, WithoutType DEF ForgotPasswordVerified, TypeOK
  <2> QED BY <1>4, <2>1, OneMoreToken DEF ForgotPasswordVerified, NewToken, TypeOK
<1>5. ASSUME DeleteTokenStep \/ \E T \in SUBSET TokenIds : PruneTokens(T) PROVE TokensOK'
  <2>1. UNCHANGED <<issuedTo, outdated>>
    BY <1>5 DEF DeleteTokenStep, DeleteAccountResetToken, DeletePasswordForgotToken,
       DeletePasswordChangeToken, PruneTokens
  <2>2. \A u \in Uids :
          /\ passwordForgotTokens'[u] \in {passwordForgotTokens[u], None}
          /\ passwordChangeTokens'[u] \in {passwordChangeTokens[u], None}
          /\ accountResetTokens'[u] \in {accountResetTokens[u], None}
    BY <1>5, WithoutType DEF DeleteTokenStep, DeleteAccountResetToken, DeletePasswordForgotToken,
       DeletePasswordChangeToken, PruneTokens, TypeOK
  <2> QED BY <2>1, <2>2, FewerTokens
<1>6. \A u \in Uids, a \in Addresses, v \in BOOLEAN : CreateAccount(u, a, v) => UNCHANGED tokenVars
  BY DEF CreateAccount
<1>7. \A u \in Uids, a \in Addresses : VerifyEmail(u, a) => UNCHANGED tokenVars BY DEF VerifyEmail
<1> QED
  BY <1>1, <1>2, <1>3, <1>4, <1>5, <1>6, <1>7, TokensKept DEF AccountStep, IssueStep, CredentialStep

-----------------------------------------------------------------------------
(* The invariant holds in every reachable state.                           *)
LEMMA InitInvariant == Init => IInv
<1> SUFFICES ASSUME Init PROVE IInv OBVIOUS
<1> USE AccountsAssumption DEF Init
<1>1. calls \in [Connections -> Call]
  <2>1. Idle \in Call BY DEF Call
  <2> QED BY <2>1
<1>2. TypeOK BY <1>1 DEF TypeOK, TotpState
<1>3. OnePrimary /\ AtMostOnePrimary /\ NothingForUnknown
  BY DEF OnePrimary, AtMostOnePrimary, NothingForUnknown, Exists, IsPrimary, EmailOf
<1>4. OutdatedTokensGone /\ TokensIssued BY DEF OutdatedTokensGone, TokensIssued, TokenTables
<1> QED BY <1>2, <1>3, <1>4 DEF IInv

LEMMA Step == ASSUME IInv, [Next]_vars PROVE IInv'
BY TypeStep, OneAddressStep, TokensStep DEF IInv, OneAddress, TokensOK

LEMMA Inductive == Spec => []IInv
BY InitInvariant, Step, PTL DEF Spec

(* The rows of all seven tables always have their types.                   *)
THEOREM TypeCorrect == Spec => []TypeOK
BY Inductive, PTL DEF IInv

(* For any number of accounts and addresses, and however the statements of *)
(* deleteEmail_3 and setPrimaryEmail_2 interleave: an account has exactly  *)
(* one primary address.                                                    *)
THEOREM ExactlyOnePrimary == Spec => []OnePrimary
BY Inductive, PTL DEF IInv

(* For any number of tokens: none that a reset or a closure ended is found *)
(* in a table again.                                                       *)
THEOREM OutdatedTokensStayGone == Spec => []OutdatedTokensGone
BY Inductive, PTL DEF IInv

(* Only deleteAccount_15 makes an account go.                              *)
LEMMA AccountGoes ==
  ASSUME IInv, [Next]_vars, NEW u \in Uids, Exists(u), ~Exists(u)'
  PROVE  DeleteAccount(u)
<1> USE AccountsAssumption DEF IInv, TypeOK, Exists
<1>1. ~UNCHANGED addressVars BY DEF addressVars
<1>2. \A w \in Uids, a \in Addresses, v \in BOOLEAN : ~CreateAccount(w, a, v) BY DEF CreateAccount
<1>3. \A w \in Uids : DeleteAccount(w) => w = u BY DEF DeleteAccount
<1>4. ~CredentialStep
  BY <1>1 DEF CredentialStep, ResetAccount, VerifyEmail, ForgotPasswordVerified
<1>5. ~EmailStep
  BY <1>1 DEF EmailStep, CreateEmailStep, CreateEmail, SetPrimaryEmail, DeleteEmailCheck, DeleteEmail
<1> QED BY <1>1, <1>2, <1>3, <1>4, <1>5, AddressesKept DEF AccountStep

(* When an account goes, every row of it goes in the same step.            *)
THEOREM NothingIsLeft == Spec => NothingLeft
<1>1. ASSUME IInv, [Next]_vars, NEW u \in Uids, Exists(u), ~Exists(u)' PROVE NoRowsOf(u)'
  <2>1. DeleteAccount(u) BY <1>1, AccountGoes
  <2>2. \A a \in Addresses : ~EmailOf(u, a)'
    BY <2>1, <1>1 DEF DeleteAccount, EmailOf, IInv, TypeOK
  <2>3. \A table \in TokenTables' : table[u] = None
    BY <2>1, <1>1 DEF DeleteAccount, EndTokens, TokenTables, IInv, TypeOK
  <2>4. totp'[u] = "none" /\ u \notin recoveryKeys'
    BY <2>1, <1>1 DEF DeleteAccount, IInv, TypeOK
  <2> QED BY <2>2, <2>3, <2>4 DEF NoRowsOf
<1>2. IInv /\ [Next]_vars => [\A u \in Uids : Exists(u) /\ ~Exists(u)' => NoRowsOf(u)']_vars
  BY <1>1
<1> QED BY <1>2, Inductive, PTL DEF Spec, NothingLeft
-----------------------------------------------------------------------------
(* The refinement.  An address's owner, the primary and the verified       *)
(* addresses, as AddressBook has them.                                     *)
Owner == [a \in Addresses |-> IF emails[a] = None THEN None ELSE emails[a].uid]
Primary == {a \in Addresses : emails[a] # None /\ emails[a].isPrimary}
Verified == {a \in Addresses : emails[a] # None /\ emails[a].isVerified}

LEMMA OwnerOf ==
  ASSUME TypeOK, NEW u \in Uids, NEW a \in Addresses
  PROVE  /\ EmailOf(u, a) <=> Owner[a] = u
         /\ IsPrimary(u, a) <=> Owner[a] = u /\ a \in Primary
         /\ emails[a] = None <=> Owner[a] = None
BY AccountsAssumption, Columns DEF EmailOf, IsPrimary, Owner, Primary

(* A step that changes one row.                                            *)
LEMMA OwnerChange ==
  ASSUME NEW a \in Addresses, NEW x,
         x = IF emails'[a] = None THEN None ELSE emails'[a].uid,
         \A b \in Addresses \ {a} : emails'[b] = emails[b]
  PROVE  Owner' = [Owner EXCEPT ![a] = x]
<1>1. \A b \in Addresses : Owner'[b] = IF b = a THEN x ELSE Owner[b] BY DEF Owner
<1>2. /\ Owner' = [b \in Addresses |-> Owner'[b]]
      /\ Owner = [b \in Addresses |-> Owner[b]]
  BY DEF Owner
<1> HIDE DEF Owner
<1> QED BY <1>1, <1>2

(* A step that keeps the rows' owners and primary flags, and verifies a row*)
(* or none.                                                                *)
LEMMA VerifiesOne ==
  ASSUME TypeOK, NEW a \in Addresses, emails[a] # None,
         emails' = [emails EXCEPT ![a] = [emails[a] EXCEPT !.isVerified = TRUE]]
  PROVE  Book!Verify(a)
<1> DEFINE row == [emails[a] EXCEPT !.isVerified = TRUE]
<1>1. emails[a] \in Email BY Columns
<1>2. row \in Email /\ row.uid = emails[a].uid /\ row.isPrimary = emails[a].isPrimary
      /\ row.isVerified = TRUE
  BY <1>1 DEF Email
<1>3. emails'[a] = row /\ \A b \in Addresses \ {a} : emails'[b] = emails[b] BY DEF TypeOK
<1> HIDE DEF row
<1>4. row # None BY <1>2, AccountsAssumption
<1>5. Primary' = Primary BY <1>2, <1>3, <1>4 DEF Primary
<1>6. Owner' = Owner
  <2>1. Owner' = [Owner EXCEPT ![a] = emails[a].uid] BY <1>2, <1>3, <1>4, OwnerChange
  <2>2. Owner = [b \in Addresses |-> Owner[b]] /\ Owner[a] = emails[a].uid BY DEF Owner
  <2> HIDE DEF Owner
  <2> QED BY <2>1, <2>2
<1>7. Verified' = Verified \cup {a} BY <1>2, <1>3, <1>4 DEF Verified
<1>8. Owner[a] # None BY AccountsAssumption, Columns DEF Owner
<1> QED BY <1>5, <1>6, <1>7, <1>8 DEF Book!Verify, Owner, Primary, Verified

LEMMA BookStep == ASSUME IInv, [Next]_vars PROVE [Book!Next]_Book!book
<1> USE AccountsAssumption DEF IInv
<1>1. CASE UNCHANGED emails BY <1>1 DEF Book!book
<1>2. ASSUME NEW u \in Uids, NEW a \in Addresses, NEW v \in BOOLEAN,
             CreateAccount(u, a, v) \/ CreateEmail(u, a, v)
      PROVE  Book!Next
  <2>1. CASE CreateAccount(u, a, v)
    <3> DEFINE new == [uid |-> u, isPrimary |-> TRUE, isVerified |-> v]
    <3>1. new \in Email /\ new # None
      <4>1. new \in Email BY DEF Email
      <4> QED BY <4>1
    <3>2. /\ emails[a] = None /\ emails'[a] = new
          /\ \A b \in Addresses \ {a} : emails'[b] = emails[b]
      BY <2>1 DEF CreateAccount, TypeOK
    <3>3. Owner' = [Owner EXCEPT ![a] = u] BY <3>1, <3>2, OwnerChange
    <3>4. Primary' = Primary \cup {a} BY <3>1, <3>2 DEF Primary
    <3>5. Verified' = IF v THEN Verified \cup {a} ELSE Verified BY <3>1, <3>2 DEF Verified
    <3>6. Owner[a] = None BY <3>2 DEF Owner
    <3>7. {b \in Addresses : Owner[b] = u} \cap Primary = {}
      BY <2>1, OwnerOf DEF CreateAccount, NothingForUnknown
    <3>8. Book!Open(u, a, v)
      BY <3>3, <3>4, <3>5, <3>6, <3>7 DEF Book!Open, Book!AddressesOf, Owner, Primary, Verified
    <3> QED BY <3>8 DEF Book!Next
  <2>2. CASE CreateEmail(u, a, v)
    <3> DEFINE new == [uid |-> u, isPrimary |-> FALSE, isVerified |-> v]
    <3>1. new \in Email /\ new # None
      <4>1. new \in Email BY DEF Email
      <4> QED BY <4>1
    <3>2. /\ emails[a] = None /\ emails'[a] = new
          /\ \A b \in Addresses \ {a} : emails'[b] = emails[b]
      BY <2>2 DEF CreateEmail, TypeOK
    <3>3. Owner' = [Owner EXCEPT ![a] = u] BY <3>1, <3>2, OwnerChange
    <3>4. Primary' = Primary BY <3>1, <3>2 DEF Primary
    <3>5. Verified' = IF v THEN Verified \cup {a} ELSE Verified BY <3>1, <3>2 DEF Verified
    <3>6. Owner[a] = None BY <3>2 DEF Owner
    <3>7. Book!Add(u, a, v)
      BY <3>3, <3>4, <3>5, <3>6 DEF Book!Add, Owner, Primary, Verified
    <3> QED BY <3>7 DEF Book!Next
  <2> QED BY <1>2, <2>1, <2>2
<1>3. ASSUME NEW u \in Uids, DeleteAccount(u) PROVE Book!Next
  <2>1. \A b \in Addresses : emails'[b] = IF EmailOf(u, b) THEN None ELSE emails[b]
    BY <1>3 DEF DeleteAccount
  <2>2. Owner' = [a \in Addresses |-> IF Owner[a] = u THEN None ELSE Owner[a]]
    BY <2>1, OwnerOf DEF Owner
  <2>3. Primary' = Primary \ {b \in Addresses : Owner[b] = u} BY <2>1, OwnerOf DEF Primary
  <2>4. Verified' = Verified \ {b \in Addresses : Owner[b] = u} BY <2>1, OwnerOf DEF Verified
  <2>5. Book!Close(u)
    BY <2>2, <2>3, <2>4 DEF Book!Close, Book!AddressesOf, Owner, Primary, Verified
  <2> QED BY <2>5 DEF Book!Next
<1>4. ASSUME NEW u \in Uids, NEW a \in Addresses, SetPrimaryEmail(u, a) PROVE Book!Next
  <2>1. ASSUME NEW b \in Addresses, EmailOf(u, b)
        PROVE  /\ emails'[b] # None /\ emails'[b].uid = u /\ emails'[b].isPrimary = (b = a)
               /\ emails'[b].isVerified = emails[b].isVerified
    <3>1. emails'[b] = [emails[b] EXCEPT !.isPrimary = (b = a)] BY <1>4, <2>1 DEF SetPrimaryEmail
    <3>2. emails[b] \in Email /\ emails[b].uid = u BY <2>1, Columns DEF EmailOf
    <3>3. /\ emails'[b] \in Email /\ emails'[b].uid = u /\ emails'[b].isPrimary = (b = a)
          /\ emails'[b].isVerified = emails[b].isVerified
      BY <3>1, <3>2 DEF Email
    <3> QED BY <3>3
  <2>2. \A b \in Addresses : ~EmailOf(u, b) => emails'[b] = emails[b] BY <1>4 DEF SetPrimaryEmail
  <2>3. EmailOf(u, a) BY <1>4 DEF SetPrimaryEmail
  <2>4. Owner' = Owner /\ Verified' = Verified BY <2>1, <2>2 DEF Owner, Verified, EmailOf
  <2>5. Primary' = (Primary \ {b \in Addresses : Owner[b] = u}) \cup {a}
    <3>1. ASSUME NEW b \in Addresses
          PROVE  b \in Primary' <=> (b \in Primary /\ Owner[b] # u) \/ b = a
      <4>1. CASE EmailOf(u, b)
        <5>1. emails'[b] # None /\ (emails'[b].isPrimary <=> b = a) BY <2>1, <4>1
        <5>2. b \in Primary' <=> b = a BY <5>1 DEF Primary
        <5>3. Owner[b] = u BY <4>1, OwnerOf
        <5> QED BY <5>2, <5>3
      <4>2. CASE ~EmailOf(u, b)
        <5>1. emails'[b] = emails[b] /\ b # a BY <2>2, <2>3, <4>2
        <5>2. b \in Primary' <=> b \in Primary BY <5>1 DEF Primary
        <5>3. Owner[b] # u BY <4>2, OwnerOf
        <5> QED BY <5>1, <5>2, <5>3
      <4> QED BY <4>1, <4>2
    <3> QED BY <3>1 DEF Primary
  <2>6. Book!Promote(u, a)
    BY <2>3, <2>4, <2>5, OwnerOf DEF Book!Promote, Book!AddressesOf, Owner, Primary, Verified
  <2> QED BY <2>6 DEF Book!Next
<1>5. ASSUME NEW c \in Connections, DeleteEmail(c) PROVE [Book!Next]_Book!book
  <2>1. PICK a \in Addresses : a = calls[c].address BY <1>5, CallFields DEF DeleteEmail
  <2> DEFINE gone == EmailOf(calls[c].uid, a) /\ ~emails[a].isPrimary
  <2>2. emails' = [emails EXCEPT ![a] = IF gone THEN None ELSE emails[a]]
    BY <1>5, <2>1 DEF DeleteEmail
  <2>3. gone => a \notin Primary BY DEF Primary
  <2> HIDE DEF gone
  <2>4. CASE gone
    <3>1. emails'[a] = None /\ \A b \in Addresses \ {a} : emails'[b] = emails[b]
      BY <2>1, <2>2, <2>4 DEF TypeOK
    <3>2. Owner' = [Owner EXCEPT ![a] = None] BY <2>1, <3>1, OwnerChange
    <3>3. Primary' = Primary BY <2>1, <2>3, <2>4, <3>1 DEF Primary
    <3>4. Verified' = Verified \ {a} BY <2>1, <3>1 DEF Verified
    <3>5. Book!GiveUp(a)
      BY <2>3, <2>4, <3>2, <3>3, <3>4 DEF Book!GiveUp, Owner, Primary, Verified
    <3> QED BY <2>1, <3>5 DEF Book!Next
  <2>5. CASE ~gone
    <3>1. emails' = emails BY <2>1, <2>2, <2>5 DEF TypeOK
    <3> QED BY <3>1, <1>1
  <2> QED BY <2>4, <2>5
<1>6. ASSUME NEW u \in Uids, NEW a \in Addresses, VerifyEmail(u, a) PROVE Book!Next
  <2>1. emails[a] # None /\ emails' = [emails EXCEPT ![a] = [emails[a] EXCEPT !.isVerified = TRUE]]
    BY <1>6 DEF VerifyEmail, EmailOf, TypeOK
  <2> QED BY <2>1, VerifiesOne DEF Book!Next
<1>7. ASSUME NEW u \in Uids, NEW t \in TokenIds, NEW n \in TokenIds, ForgotPasswordVerified(u, t, n)
      PROVE  [Book!Next]_Book!book
  <2>1. CASE \E a \in Addresses : IsPrimary(u, a)
    <3>1. PICK a \in Addresses : IsPrimary(u, a) BY <2>1
    <3>2. \A b \in Addresses : IsPrimary(u, b) <=> b = a BY <3>1 DEF AtMostOnePrimary
    <3>3. emails' = [emails EXCEPT ![a] = [emails[a] EXCEPT !.isVerified = TRUE]]
      BY <1>7, <3>2 DEF ForgotPasswordVerified, TypeOK
    <3>4. emails[a] # None BY <3>1 DEF IsPrimary, EmailOf
    <3> QED BY <3>3, <3>4, VerifiesOne DEF Book!Next
  <2>2. CASE ~\E a \in Addresses : IsPrimary(u, a)
    <3>1. emails' = emails BY <1>7, <2>2 DEF ForgotPasswordVerified, TypeOK
    <3> QED BY <3>1, <1>1
  <2> QED BY <2>1, <2>2
<1>8. \A u \in Uids : ResetAccount(u) => UNCHANGED emails BY DEF ResetAccount, addressVars
<1>9. \A c \in Connections, u \in Uids, a \in Addresses :
        DeleteEmailCheck(c, u, a) => UNCHANGED emails
  BY DEF DeleteEmailCheck, addressVars
<1>10. UNCHANGED addressVars => UNCHANGED emails BY DEF addressVars
<1> QED
  BY <1>1, <1>2, <1>3, <1>4, <1>5, <1>6, <1>7, <1>8, <1>9, <1>10, AddressesKept
  DEF AccountStep, CredentialStep, EmailStep, CreateEmailStep

(* The tables keep what AddressBook promises, for any number of accounts   *)
(* and addresses: an address belongs to one account, and an account gives  *)
(* up its primary address by closing only.                                 *)
THEOREM ImplementsAddressBook == Spec => BookSpec
<1>1. Init => Book!Init
  BY DEF Init, Book!Init
<1>2. IInv /\ [Next]_vars => [Book!Next]_Book!book BY BookStep
<1> QED BY <1>1, <1>2, Inductive, PTL DEF Spec, BookSpec, Book!Spec
=============================================================================
