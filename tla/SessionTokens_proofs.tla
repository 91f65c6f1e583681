------------------------- MODULE SessionTokens_proofs -------------------------
(* Theorems about SessionTokens, for every value of its constants.         *)
EXTENDS SessionTokens, TLAPS

(* The empty tables have the right types.                                  *)
LEMMA InitType == Init => TypeOK
BY DEF Init, TypeOK, Call, Idle, SecurityEvent

(* What a connection remembers has the fields and types of its procedure.  *)
LEMMA CallFields ==
  ASSUME TypeOK, NEW c \in Connections
  PROVE  /\ calls[c].proc = "verifyToken" =>
              calls[c].uid \in Uids /\ calls[c].tokenVerificationId \in VerificationIds
         /\ calls[c].proc = "verifyTokenCode" =>
              calls[c].uid \in Uids /\ calls[c].tokenVerificationId \in VerificationIds
         /\ calls[c].proc = "createSecurityEvent" =>
              calls[c].uid \in Uids /\ calls[c].tokenVerificationId \in VerificationIds \cup {NULL}
         /\ calls[c].proc = "deleteDevice" =>
              calls[c].uid \in Uids /\ calls[c].id \in DeviceIds
BY DEF TypeOK, Call, Idle

(* Marking events verified leaves rows of securityEvents.                  *)
LEMMA EventsVerifiedType ==
  ASSUME TypeOK, NEW u, NEW x
  PROVE  EventsVerified(u, x) \subseteq SecurityEvent
BY DEF TypeOK, EventsVerified, SecurityEvent

(* Both DELETEs on unverifiedTokens leave rows of unverifiedTokens.        *)
LEMMA UnverifiedWithoutType ==
  ASSUME TypeOK
  PROVE  /\ \A u, x : UnverifiedWithout(u, x) \in [TokenIds -> UnverifiedToken \cup {None}]
         /\ \A T : UnverifiedWithoutTokens(T) \in [TokenIds -> UnverifiedToken \cup {None}]
BY DEF TypeOK, UnverifiedWithout, UnverifiedWithoutTokens

(* Every token id has an account.                                          *)
LEMMA OwnerType == \A t \in TokenIds : OwnerOf[t] \in Uids
BY TokensAssumption

(* The rows that the procedures build are rows, so none of them is None.   *)
LEMMA NewRows ==
  /\ \A u \in Uids, m \in BOOLEAN, v \in Methods \cup {NULL} :
       [uid |-> u, mustVerify |-> m, verificationMethod |-> v] \in Session
  /\ \A u \in Uids, x \in VerificationIds, m \in BOOLEAN, k \in CodeHashes \cup {NULL},
       b \in BOOLEAN :
       [uid |-> u, tokenVerificationId |-> x, mustVerify |-> m, codeHash |-> k, expired |-> b]
         \in UnverifiedToken
  /\ \A r \in Session : [r EXCEPT !.mustVerify = TRUE] \in Session
  /\ \A r \in Session, v \in Methods : [r EXCEPT !.verificationMethod = v] \in Session
  /\ \A r \in UnverifiedToken : /\ [r EXCEPT !.mustVerify = TRUE] \in UnverifiedToken
                                 /\ [r EXCEPT !.expired = TRUE] \in UnverifiedToken
  /\ None \notin Session /\ None \notin UnverifiedToken
BY TokensAssumption DEF Session, UnverifiedToken

(* Creating, updating and deleting tokens keeps the types.                 *)
LEMMA TokenStepType == TypeOK /\ TokenStep => TypeOK'
<1> SUFFICES ASSUME TypeOK, TokenStep PROVE TypeOK'
  OBVIOUS
<1>1. ASSUME NEW s \in SessionIds, NEW m \in BOOLEAN, NEW x \in VerificationIds \cup {NULL},
             NEW k \in CodeHashes \cup {NULL}, CreateSessionToken(s, m, x, k)
      PROVE  TypeOK'
  <2>1. [uid |-> OwnerOf[s], mustVerify |-> m, verificationMethod |-> NULL] \in Session
    BY OwnerType, NewRows DEF TokenIds
  <2>2. x # NULL =>
          [uid |-> OwnerOf[s], tokenVerificationId |-> x, mustVerify |-> m, codeHash |-> k,
           expired |-> FALSE] \in UnverifiedToken
    BY OwnerType, NewRows DEF TokenIds
  <2>3. QED
    BY <1>1, <2>1, <2>2 DEF CreateSessionToken, TypeOK, TokenIds
<1>2. ASSUME NEW s \in SessionIds, UpdateSessionToken(s)
      PROVE  TypeOK'
  BY <1>2, NewRows DEF UpdateSessionToken, TypeOK, TokenIds
<1>3. ASSUME NEW s \in SessionIds, DeleteSessionToken(s)
      PROVE  TypeOK'
  BY <1>3, UnverifiedWithoutType DEF DeleteSessionToken, TypeOK
<1>4. ASSUME NEW t \in KeyFetchIds, NEW x \in VerificationIds \cup {NULL},
             CreateKeyFetchToken(t, x)
      PROVE  TypeOK'
  <2>1. OwnerOf[t] \in Uids
    BY OwnerType DEF TokenIds
  <2>2. x # NULL =>
          [uid |-> OwnerOf[t], tokenVerificationId |-> x, mustVerify |-> TRUE, codeHash |-> NULL,
           expired |-> FALSE] \in UnverifiedToken
    BY <2>1, NewRows
  <2>3. QED
    BY <1>4, <2>1, <2>2 DEF CreateKeyFetchToken, TypeOK, TokenIds
<1>5. ASSUME NEW t \in KeyFetchIds, DeleteKeyFetchToken(t)
      PROVE  TypeOK'
  BY <1>5, UnverifiedWithoutType DEF DeleteKeyFetchToken, TypeOK
<1>6. QED
  BY <1>1, <1>2, <1>3, <1>4, <1>5 DEF TokenStep

(* Verification keeps the types.                                           *)
LEMMA VerifyStepType == TypeOK /\ VerifyStep => TypeOK'
<1> SUFFICES ASSUME TypeOK, VerifyStep PROVE TypeOK'
  OBVIOUS
<1>1. ASSUME NEW c \in Connections, NEW u \in Uids, NEW x \in VerificationIds,
             VerifyTokenEvents(c, u, x)
      PROVE  TypeOK'
  BY <1>1, EventsVerifiedType DEF VerifyTokenEvents, TypeOK, Call
<1>2. ASSUME NEW c \in Connections, NEW u \in Uids, NEW k \in CodeHashes,
             VerifyTokenCodeLookup(c, u, k)
      PROVE  TypeOK'
  <2>1. PICK t \in TokenIds :
          /\ unverifiedTokens[t] # None
          /\ calls' = [calls EXCEPT
               ![c] = [proc |-> "verifyTokenCode", uid |-> u,
                       tokenVerificationId |-> unverifiedTokens[t].tokenVerificationId]]
    BY <1>2 DEF VerifyTokenCodeLookup
  <2>2. unverifiedTokens[t].tokenVerificationId \in VerificationIds
    BY <2>1 DEF TypeOK, UnverifiedToken
  <2>3. QED
    BY <1>2, <2>1, <2>2 DEF VerifyTokenCodeLookup, TypeOK, Call
<1>3. ASSUME NEW c \in Connections, VerifyTokenRows(c)
      PROVE  TypeOK'
  BY <1>3, UnverifiedWithoutType DEF VerifyTokenRows, TypeOK, Call
<1>4. ASSUME NEW c \in Connections, VerifyTokenCodeCommit(c)
      PROVE  TypeOK'
  BY <1>4, UnverifiedWithoutType, EventsVerifiedType DEF VerifyTokenCodeCommit, TypeOK, Call
<1>5. ASSUME NEW s \in SessionIds, NEW m \in Methods, VerifyTokensWithMethod(s, m)
      PROVE  TypeOK'
  <2>1. sessionTokens' \in [SessionIds -> Session \cup {None}]
    BY <1>5, NewRows DEF VerifyTokensWithMethod, TypeOK
  <2>2. /\ unverifiedTokens' \in [TokenIds -> UnverifiedToken \cup {None}]
        /\ securityEvents' \subseteq SecurityEvent
    BY <1>5, UnverifiedWithoutType, EventsVerifiedType DEF VerifyTokensWithMethod, TypeOK
  <2>3. QED
    BY <1>5, <2>1, <2>2 DEF VerifyTokensWithMethod, TypeOK
<1>6. ASSUME NEW t \in TokenIds, ExpireCode(t)
      PROVE  TypeOK'
  BY <1>6, NewRows DEF ExpireCode, TypeOK
<1>7. QED
  BY <1>1, <1>2, <1>3, <1>4, <1>5, <1>6 DEF VerifyStep

(* Writing security events keeps the types.                                *)
LEMMA EventStepType == TypeOK /\ EventStep => TypeOK'
<1> SUFFICES ASSUME TypeOK, EventStep PROVE TypeOK'
  OBVIOUS
<1>1. ASSUME NEW c \in Connections, NEW u \in Uids, NEW t \in TokenIds,
             SecurityEventLookup(c, u, t)
      PROVE  TypeOK'
  <2> DEFINE x == IF unverifiedTokens[t] # None /\ unverifiedTokens[t].uid = u
                  THEN unverifiedTokens[t].tokenVerificationId ELSE NULL
  <2>1. x \in VerificationIds \cup {NULL}
    BY DEF TypeOK, UnverifiedToken
  <2>2. [proc |-> "createSecurityEvent", uid |-> u, tokenVerificationId |-> x] \in Call
    BY <2>1 DEF Call
  <2>3. QED
    BY <1>1, <2>2 DEF SecurityEventLookup, TypeOK
<1>2. ASSUME NEW c \in Connections, SecurityEventInsert(c)
      PROVE  TypeOK'
  <2> DEFINE e == [uid |-> calls[c].uid, tokenVerificationId |-> calls[c].tokenVerificationId,
                   verified |-> (calls[c].tokenVerificationId = NULL)]
  <2>1. e \in SecurityEvent
    BY <1>2, CallFields DEF SecurityEventInsert, SecurityEvent
  <2>2. securityEvents' = securityEvents \cup {e}
    BY <1>2 DEF SecurityEventInsert
  <2>3. calls' \in [Connections -> Call]
    BY <1>2 DEF SecurityEventInsert, TypeOK, Call
  <2>4. QED
    BY <1>2, <2>1, <2>2, <2>3 DEF SecurityEventInsert, TypeOK
<1>3. QED
  BY <1>1, <1>2 DEF EventStep

(* Writing and deleting devices keeps the types.                           *)
LEMMA DeviceStepType == TypeOK /\ DeviceStep => TypeOK'
<1> SUFFICES ASSUME TypeOK, DeviceStep PROVE TypeOK'
  OBVIOUS
<1>1. ASSUME NEW u \in Uids, NEW d \in DeviceIds, NEW s \in SessionIds \cup {NULL},
             CreateDevice(u, d, s) \/ UpdateDevice(u, d, s)
      PROVE  TypeOK'
  <2>1. devices' = [devices EXCEPT ![u][d] = s]
    BY <1>1 DEF CreateDevice, UpdateDevice
  <2>2. devices' \in [Uids -> [DeviceIds -> SessionIds \cup {NULL, None}]]
    BY <2>1 DEF TypeOK
  <2>3. QED
    BY <1>1, <2>2 DEF CreateDevice, UpdateDevice, TypeOK
<1>2. ASSUME NEW c \in Connections, NEW u \in Uids, NEW d \in DeviceIds,
             DeleteDeviceSelect(c, u, d)
      PROVE  TypeOK'
  <2>1. [proc |-> "deleteDevice", uid |-> u, id |-> d, sessionTokenId |-> devices[u][d]] \in Call
    BY DEF TypeOK, Call
  <2>2. QED
    BY <1>2, <2>1 DEF DeleteDeviceSelect, TypeOK
<1>3. ASSUME NEW c \in Connections, DeleteDeviceRows(c)
      PROVE  TypeOK'
  <2>1. devices' \in [Uids -> [DeviceIds -> SessionIds \cup {NULL, None}]]
    BY <1>3, CallFields DEF DeleteDeviceRows, TypeOK
  <2>2. sessionTokens' \in [SessionIds -> Session \cup {None}]
    BY <1>3 DEF DeleteDeviceRows, TypeOK
  <2>3. QED
    BY <1>3, <2>1, <2>2, UnverifiedWithoutType DEF DeleteDeviceRows, TypeOK, Call
<1>4. QED
  BY <1>1, <1>2, <1>3 DEF DeviceStep

(* Resets, deletions, pruning and lost connections keep the types.         *)
LEMMA AccountStepType == TypeOK /\ AccountStep => TypeOK'
<1> SUFFICES ASSUME TypeOK, AccountStep PROVE TypeOK'
  OBVIOUS
<1>1. ASSUME NEW u \in Uids, ResetAccount(u) \/ DeleteAccount(u)
      PROVE  TypeOK'
  BY <1>1 DEF ResetAccount, DeleteAccount, DeleteTokensOf, TypeOK
<1>2. ASSUME NEW T \in SUBSET SessionIds, PruneSessionTokens(T)
      PROVE  TypeOK'
  BY <1>2, UnverifiedWithoutType DEF PruneSessionTokens, TypeOK
<1>3. ASSUME NEW c \in Connections, ConnectionLost(c)
      PROVE  TypeOK'
  BY <1>3 DEF ConnectionLost, TypeOK, Call
<1>4. QED
  BY <1>1, <1>2, <1>3 DEF AccountStep

(* Every table keeps its type, and a connection remembers only values that *)
(* a statement gave it.                                                    *)
THEOREM TypeCorrect == Spec => []TypeOK
<1>1. TypeOK /\ [Next]_vars => TypeOK'
  <2> SUFFICES ASSUME TypeOK, [Next]_vars PROVE TypeOK'
    OBVIOUS
  <2>1. CASE Next
    BY <2>1, TokenStepType, VerifyStepType, EventStepType, DeviceStepType, AccountStepType
    DEF Next
  <2>2. CASE UNCHANGED vars
    BY <2>2 DEF vars, TypeOK
  <2>3. QED
    BY <2>1, <2>2
<1>2. QED
  BY InitType, <1>1, PTL DEF Spec

-----------------------------------------------------------------------------
(* The inductive invariant.  The tables are tied together only by what the *)
(* procedures write, so the step lemmas say, conjunct by conjunct, why     *)
(* each procedure keeps them together.                                     *)

(* The empty tables satisfy the invariant.                                 *)
LEMMA InitInv == Init => IInv
<1> SUFFICES ASSUME Init PROVE IInv
  OBVIOUS
<1>1. DevicesOwnSessions
  BY TokensAssumption DEF Init, DevicesOwnSessions
<1>2. QED
  BY InitType, <1>1 DEF Init, IInv, TokensOwned, UnverifiedRowsOwned, MustVerifyAgrees,
     MethodOnlyWhenVerified, TokenIds

(* Deleting tokens, with exactly the unverified rows that the deletion     *)
(* orphans, keeps the invariant, whatever happens to the devices.          *)
LEMMA DeletionInv ==
  ASSUME IInv, TypeOK', DevicesOwnSessions',
         \A s \in SessionIds : sessionTokens'[s] \in {sessionTokens[s], None},
         \A t \in KeyFetchIds : keyFetchTokens'[t] \in {keyFetchTokens[t], None},
         \A t \in TokenIds : unverifiedTokens'[t] \in {unverifiedTokens[t], None},
         \A t \in TokenIds : TokenExists(t) /\ ~TokenExists(t)' => unverifiedTokens'[t] = None
  PROVE  IInv'
<1>1. TokensOwned'
  BY DEF IInv, TokensOwned
<1>2. UnverifiedRowsOwned'
  BY DEF IInv, UnverifiedRowsOwned
<1>3. \A s \in SessionIds : unverifiedTokens'[s] # None => sessionTokens'[s] = sessionTokens[s]
  BY <1>2, TokensAssumption DEF IInv, UnverifiedRowsOwned, TokenExists, TokenIds
<1>4. MustVerifyAgrees'
  BY <1>3 DEF IInv, MustVerifyAgrees, TokenIds
<1>5. MethodOnlyWhenVerified'
  BY DEF IInv, MethodOnlyWhenVerified, TokenIds
<1>6. QED
  BY <1>1, <1>2, <1>4, <1>5 DEF IInv

(* Deleting unverified rows, and nothing else that the invariant reads,    *)
(* keeps it.                                                               *)
LEMMA VerificationInv ==
  ASSUME IInv, TypeOK', UNCHANGED <<sessionTokens, keyFetchTokens, devices>>,
         \A t \in TokenIds : unverifiedTokens'[t] \in {unverifiedTokens[t], None}
  PROVE  IInv'
<1>1. DevicesOwnSessions'
  BY DEF IInv, DevicesOwnSessions
<1>2. \A t \in TokenIds : TokenExists(t)' <=> TokenExists(t)
  BY DEF TokenExists
<1>3. QED
  BY <1>1, <1>2, DeletionInv

(* Taking devices away cannot break DevicesOwnSessions.                    *)
LEMMA FewerDevices ==
  ASSUME DevicesOwnSessions, NULL \notin SessionIds, None \notin SessionIds,
         \A u \in Uids : \A d \in DeviceIds : devices'[u][d] \in {devices[u][d], NULL, None}
  PROVE  DevicesOwnSessions'
BY DEF DevicesOwnSessions

(* The DELETE by tokenVerificationId drops a row or keeps it as it is.     *)
LEMMA UnverifiedWithoutEach ==
  /\ \A u, x : \A t \in TokenIds : UnverifiedWithout(u, x)[t] \in {unverifiedTokens[t], None}
  /\ \A T : \A t \in TokenIds :
       /\ UnverifiedWithoutTokens(T)[t] \in {unverifiedTokens[t], None}
       /\ t \in T => UnverifiedWithoutTokens(T)[t] = None
BY DEF UnverifiedWithout, UnverifiedWithoutTokens

(* A session or key-fetch token and its unverified row are inserted        *)
(* together; the row carries the uid and the mustVerify of its token.      *)
LEMMA CreateSessionTokenInv ==
  ASSUME IInv, TypeOK', NEW s \in SessionIds, NEW m \in BOOLEAN,
         NEW x \in VerificationIds \cup {NULL}, NEW k \in CodeHashes \cup {NULL},
         CreateSessionToken(s, m, x, k)
  PROVE  IInv'
<1> DEFINE row == [uid |-> OwnerOf[s], mustVerify |-> m, verificationMethod |-> NULL]
           unv == [uid |-> OwnerOf[s], tokenVerificationId |-> x, mustVerify |-> m,
                   codeHash |-> k, expired |-> FALSE]
<1>1. row # None
  BY OwnerType, NewRows DEF TokenIds
<1>2. sessionTokens[s] = None /\ unverifiedTokens[s] = None
  <2>1. ~TokenExists(s)
    BY TokensAssumption DEF CreateSessionToken, TokenExists
  <2>2. QED
    BY <2>1 DEF CreateSessionToken, IInv, UnverifiedRowsOwned, TokenIds
<1>3. /\ sessionTokens'[s] = row
      /\ \A o \in SessionIds \ {s} : sessionTokens'[o] = sessionTokens[o]
      /\ keyFetchTokens' = keyFetchTokens
  BY DEF CreateSessionToken, IInv, TypeOK
<1>4. /\ unverifiedTokens'[s] \in {unv, None}
      /\ \A o \in TokenIds \ {s} : unverifiedTokens'[o] = unverifiedTokens[o]
  BY <1>2 DEF CreateSessionToken, IInv, TypeOK, TokenIds
<1>5. TokensOwned'
  BY <1>3 DEF IInv, TokensOwned
<1>6. UnverifiedRowsOwned'
  BY <1>1, <1>3, <1>4 DEF IInv, UnverifiedRowsOwned, TokenExists
<1>7. MustVerifyAgrees' /\ MethodOnlyWhenVerified'
  BY <1>3, <1>4 DEF IInv, MustVerifyAgrees, MethodOnlyWhenVerified, TokenIds
<1>8. DevicesOwnSessions'
  BY DEF CreateSessionToken, IInv, DevicesOwnSessions
<1>9. QED
  BY <1>5, <1>6, <1>7, <1>8 DEF IInv

(* createKeyFetchToken_2 preserves the invariant.                          *)
LEMMA CreateKeyFetchTokenInv ==
  ASSUME IInv, TypeOK', NEW t \in KeyFetchIds, NEW x \in VerificationIds \cup {NULL},
         CreateKeyFetchToken(t, x)
  PROVE  IInv'
<1> DEFINE unv == [uid |-> OwnerOf[t], tokenVerificationId |-> x, mustVerify |-> TRUE,
                   codeHash |-> NULL, expired |-> FALSE]
<1>1. OwnerOf[t] # None /\ t \notin SessionIds
  BY OwnerType, TokensAssumption DEF TokenIds
<1>2. /\ keyFetchTokens'[t] = OwnerOf[t]
      /\ \A o \in KeyFetchIds \ {t} : keyFetchTokens'[o] = keyFetchTokens[o]
      /\ sessionTokens' = sessionTokens
      /\ UNCHANGED devices
  BY DEF CreateKeyFetchToken, IInv, TypeOK
<1>3. /\ unverifiedTokens'[t] \in {unv, unverifiedTokens[t]}
      /\ \A o \in TokenIds \ {t} : unverifiedTokens'[o] = unverifiedTokens[o]
  BY DEF CreateKeyFetchToken, IInv, TypeOK, TokenIds
<1>4. TokensOwned'
  BY <1>2 DEF IInv, TokensOwned
<1>5. UnverifiedRowsOwned'
  BY <1>1, <1>2, <1>3 DEF IInv, UnverifiedRowsOwned, TokenExists
<1>6. MustVerifyAgrees' /\ MethodOnlyWhenVerified'
  BY <1>1, <1>2, <1>3 DEF IInv, MustVerifyAgrees, MethodOnlyWhenVerified, TokenIds
<1>7. DevicesOwnSessions'
  BY <1>2 DEF IInv, DevicesOwnSessions
<1>8. QED
  BY <1>4, <1>5, <1>6, <1>7 DEF IInv

(* updateSessionToken_3 raises mustVerify in both tables.                  *)
LEMMA UpdateSessionTokenInv ==
  ASSUME IInv, TypeOK', NEW s \in SessionIds, UpdateSessionToken(s)
  PROVE  IInv'
<1>1. /\ sessionTokens[s] = None => sessionTokens'[s] = None
      /\ sessionTokens[s] # None =>
           /\ sessionTokens'[s] # None
           /\ sessionTokens'[s].uid = sessionTokens[s].uid
           /\ sessionTokens'[s].verificationMethod = sessionTokens[s].verificationMethod
           /\ sessionTokens'[s].mustVerify = TRUE
      /\ \A o \in SessionIds \ {s} : sessionTokens'[o] = sessionTokens[o]
  BY NewRows DEF UpdateSessionToken, IInv, TypeOK, Session
<1>2. /\ unverifiedTokens[s] = None => unverifiedTokens'[s] = None
      /\ unverifiedTokens[s] # None =>
           /\ unverifiedTokens'[s] # None
           /\ unverifiedTokens'[s].uid = unverifiedTokens[s].uid
           /\ unverifiedTokens'[s].mustVerify = TRUE
      /\ \A o \in TokenIds \ {s} : unverifiedTokens'[o] = unverifiedTokens[o]
  <2>1. s \in TokenIds /\ unverifiedTokens \in [TokenIds -> UnverifiedToken \cup {None}]
    BY DEF IInv, TypeOK, TokenIds
  <2>2. unverifiedTokens' = [unverifiedTokens EXCEPT
          ![s] = IF @ = None THEN None ELSE [@ EXCEPT !.mustVerify = TRUE]]
    BY DEF UpdateSessionToken
  <2>3. \A r \in UnverifiedToken : /\ [r EXCEPT !.mustVerify = TRUE] # None
                                   /\ [r EXCEPT !.mustVerify = TRUE].uid = r.uid
                                   /\ [r EXCEPT !.mustVerify = TRUE].mustVerify = TRUE
    BY NewRows DEF UnverifiedToken
  <2>4. QED
    BY <2>1, <2>2, <2>3
<1>3. keyFetchTokens' = keyFetchTokens /\ UNCHANGED devices
  BY DEF UpdateSessionToken
<1>4. TokensOwned'
  BY <1>1, <1>3 DEF IInv, TokensOwned
<1>5. UnverifiedRowsOwned'
  BY <1>1, <1>2, <1>3 DEF IInv, UnverifiedRowsOwned, TokenExists
<1>6. MustVerifyAgrees'
  <2>1. \A o \in SessionIds : unverifiedTokens[o] # None => sessionTokens[o] # None
    BY TokensAssumption DEF IInv, UnverifiedRowsOwned, TokenExists, TokenIds
  <2>2. QED
    BY <1>1, <1>2, <2>1 DEF IInv, MustVerifyAgrees, TokenIds
<1>7. MethodOnlyWhenVerified'
  BY <1>1, <1>2 DEF IInv, MethodOnlyWhenVerified, TokenIds
<1>8. DevicesOwnSessions'
  BY <1>3 DEF IInv, DevicesOwnSessions
<1>9. QED
  BY <1>4, <1>5, <1>6, <1>7, <1>8 DEF IInv

(* The procedures that create, update and delete tokens preserve it.       *)
LEMMA TokenStepInv == IInv /\ TokenStep /\ TypeOK' => IInv'
<1> SUFFICES ASSUME IInv, TokenStep, TypeOK' PROVE IInv'
  OBVIOUS
<1>1. ASSUME NEW s \in SessionIds, DeleteSessionToken(s)
      PROVE  IInv'
  <2>1. \A u \in Uids : \A d \in DeviceIds : devices'[u][d] \in {devices[u][d], NULL, None}
    BY <1>1 DEF DeleteSessionToken
  <2>2. DevicesOwnSessions'
    BY <2>1, FewerDevices, TokensAssumption DEF IInv
  <2>3. /\ \A o \in SessionIds : sessionTokens'[o] \in {sessionTokens[o], None}
        /\ \A o \in SessionIds \ {s} : sessionTokens'[o] = sessionTokens[o]
        /\ keyFetchTokens' = keyFetchTokens
        /\ unverifiedTokens' = UnverifiedWithoutTokens({s})
    BY <1>1 DEF DeleteSessionToken, IInv, TypeOK
  <2>4. \A t \in TokenIds : unverifiedTokens'[t] \in {unverifiedTokens[t], None}
    BY <2>3, UnverifiedWithoutEach
  <2>5. \A t \in TokenIds : TokenExists(t) /\ ~TokenExists(t)' => unverifiedTokens'[t] = None
    BY <2>3, UnverifiedWithoutEach DEF TokenExists
  <2>6. QED
    BY <2>2, <2>3, <2>4, <2>5, DeletionInv
<1>2. ASSUME NEW t \in KeyFetchIds, DeleteKeyFetchToken(t)
      PROVE  IInv'
  <2>1. /\ \A o \in KeyFetchIds : keyFetchTokens'[o] \in {keyFetchTokens[o], None}
        /\ \A o \in KeyFetchIds \ {t} : keyFetchTokens'[o] = keyFetchTokens[o]
        /\ sessionTokens' = sessionTokens
        /\ devices' = devices
        /\ unverifiedTokens' = UnverifiedWithoutTokens({t})
    BY <1>2 DEF DeleteKeyFetchToken, IInv, TypeOK
  <2>2. DevicesOwnSessions'
    BY <2>1 DEF IInv, DevicesOwnSessions
  <2>3. \A o \in TokenIds : unverifiedTokens'[o] \in {unverifiedTokens[o], None}
    BY <2>1, UnverifiedWithoutEach
  <2>4. \A o \in TokenIds : TokenExists(o) /\ ~TokenExists(o)' => unverifiedTokens'[o] = None
    BY <2>1, UnverifiedWithoutEach DEF TokenExists
  <2>5. QED
    BY <2>1, <2>2, <2>3, <2>4, DeletionInv
<1>3. QED
  BY <1>1, <1>2, CreateSessionTokenInv, CreateKeyFetchTokenInv, UpdateSessionTokenInv
  DEF TokenStep

(* The steps of the verification procedures preserve it.                   *)
LEMMA VerifyStepInv == IInv /\ VerifyStep /\ TypeOK' => IInv'
<1> SUFFICES ASSUME IInv, VerifyStep, TypeOK' PROVE IInv'
  OBVIOUS
<1>1. ASSUME NEW c \in Connections, NEW u \in Uids, NEW x \in VerificationIds,
             VerifyTokenEvents(c, u, x)
      PROVE  IInv'
  BY <1>1, VerificationInv DEF VerifyTokenEvents
<1>2. ASSUME NEW c \in Connections, NEW u \in Uids, NEW k \in CodeHashes,
             VerifyTokenCodeLookup(c, u, k)
      PROVE  IInv'
  BY <1>2, VerificationInv DEF VerifyTokenCodeLookup
<1>3. ASSUME NEW c \in Connections, VerifyTokenRows(c) \/ VerifyTokenCodeCommit(c)
      PROVE  IInv'
  BY <1>3, VerificationInv, UnverifiedWithoutEach DEF VerifyTokenRows, VerifyTokenCodeCommit
<1>4. ASSUME NEW s \in SessionIds, NEW m \in Methods, VerifyTokensWithMethod(s, m)
      PROVE  IInv'
  <2>1. /\ sessionTokens[s] = None => sessionTokens'[s] = None
        /\ sessionTokens[s] # None =>
             /\ sessionTokens'[s] # None
             /\ sessionTokens'[s].uid = sessionTokens[s].uid
             /\ sessionTokens'[s].mustVerify = sessionTokens[s].mustVerify
        /\ \A o \in SessionIds \ {s} : sessionTokens'[o] = sessionTokens[o]
        /\ UNCHANGED <<keyFetchTokens, devices>>
    BY <1>4, NewRows DEF VerifyTokensWithMethod, IInv, TypeOK, Session
  <2>2. /\ \A t \in TokenIds : unverifiedTokens'[t] \in {unverifiedTokens[t], None}
        /\ unverifiedTokens'[s] = None
    BY <1>4, UnverifiedWithoutEach
    DEF VerifyTokensWithMethod, UnverifiedWithout, HasVerificationId, TokenIds
  <2>3. TokensOwned'
    BY <2>1 DEF IInv, TokensOwned
  <2>4. UnverifiedRowsOwned'
    BY <2>1, <2>2 DEF IInv, UnverifiedRowsOwned, TokenExists
  <2>5. MustVerifyAgrees' /\ MethodOnlyWhenVerified'
    BY <2>1, <2>2 DEF IInv, MustVerifyAgrees, MethodOnlyWhenVerified, TokenIds
  <2>6. DevicesOwnSessions'
    BY <2>1 DEF IInv, DevicesOwnSessions
  <2>7. QED
    BY <2>3, <2>4, <2>5, <2>6 DEF IInv
<1>5. ASSUME NEW t \in TokenIds, ExpireCode(t)
      PROVE  IInv'
  <2>1. /\ unverifiedTokens[t] # None
        /\ unverifiedTokens'[t] # None
        /\ unverifiedTokens'[t].uid = unverifiedTokens[t].uid
        /\ unverifiedTokens'[t].mustVerify = unverifiedTokens[t].mustVerify
        /\ \A o \in TokenIds \ {t} : unverifiedTokens'[o] = unverifiedTokens[o]
        /\ UNCHANGED <<sessionTokens, keyFetchTokens, devices>>
    <3>1. \A r \in UnverifiedToken : /\ [r EXCEPT !.expired = TRUE] # None
                                     /\ [r EXCEPT !.expired = TRUE].uid = r.uid
                                     /\ [r EXCEPT !.expired = TRUE].mustVerify = r.mustVerify
      BY NewRows DEF UnverifiedToken
    <3>2. QED
      BY <1>5, <3>1 DEF ExpireCode, IInv, TypeOK
  <2>2. TokensOwned' /\ DevicesOwnSessions'
    BY <2>1 DEF IInv, TokensOwned, DevicesOwnSessions
  <2>3. UnverifiedRowsOwned'
    BY <2>1 DEF IInv, UnverifiedRowsOwned, TokenExists
  <2>4. MustVerifyAgrees' /\ MethodOnlyWhenVerified'
    BY <2>1 DEF IInv, MustVerifyAgrees, MethodOnlyWhenVerified, TokenIds
  <2>5. QED
    BY <2>2, <2>3, <2>4 DEF IInv
<1>6. QED
  BY <1>1, <1>2, <1>3, <1>4, <1>5 DEF VerifyStep

(* The steps of createSecurityEvent_3 touch nothing it is about.           *)
LEMMA EventStepInv == IInv /\ EventStep /\ TypeOK' => IInv'
BY VerificationInv DEF EventStep, SecurityEventLookup, SecurityEventInsert

(* The procedures on devices preserve it.                                  *)
LEMMA DeviceStepInv == IInv /\ DeviceStep /\ TypeOK' => IInv'
<1> SUFFICES ASSUME IInv, DeviceStep, TypeOK' PROVE IInv'
  OBVIOUS
<1>1. ASSUME NEW u \in Uids, NEW d \in DeviceIds, NEW s \in SessionIds \cup {NULL},
             s \in SessionIds => OwnerOf[s] = u,
             CreateDevice(u, d, s) \/ UpdateDevice(u, d, s)
      PROVE  IInv'
  <2>1. /\ devices' = [devices EXCEPT ![u][d] = s]
        /\ s \in SessionIds => \A o \in DeviceIds \ {d} : devices[u][o] # s
        /\ UNCHANGED <<sessionTokens, keyFetchTokens, unverifiedTokens>>
    BY <1>1, TokensAssumption DEF CreateDevice, UpdateDevice, SessionFree, UsesSession
  <2>2. /\ devices'[u][d] = s
        /\ \A o \in DeviceIds \ {d} : devices'[u][o] = devices[u][o]
        /\ \A v \in Uids \ {u} : devices'[v] = devices[v]
    BY <2>1 DEF IInv, TypeOK
  <2>3. DevicesOwnSessions'
    <3> SUFFICES ASSUME NEW v \in Uids, NEW e \in DeviceIds, devices'[v][e] \in SessionIds
                 PROVE  /\ OwnerOf[devices'[v][e]] = v
                        /\ \A o \in DeviceIds \ {e} : devices'[v][o] # devices'[v][e]
      BY DEF DevicesOwnSessions
    <3>1. CASE v # u
      BY <2>2, <3>1 DEF IInv, DevicesOwnSessions
    <3>2. CASE v = u /\ e = d
      BY <1>1, <2>1, <2>2, <3>2
    <3>3. CASE v = u /\ e # d
      BY <2>1, <2>2, <3>3 DEF IInv, DevicesOwnSessions
    <3>4. QED
      BY <3>1, <3>2, <3>3
  <2>4. QED
    BY <2>1, <2>3 DEF IInv, TokensOwned, UnverifiedRowsOwned, TokenExists, MustVerifyAgrees,
       MethodOnlyWhenVerified
<1>2. ASSUME NEW c \in Connections, NEW u \in Uids, NEW d \in DeviceIds,
             DeleteDeviceSelect(c, u, d)
      PROVE  IInv'
  BY <1>2, VerificationInv DEF DeleteDeviceSelect
<1>3. ASSUME NEW c \in Connections, DeleteDeviceRows(c)
      PROVE  IInv'
  <2> DEFINE gone == {s \in SessionIds : /\ UsesSession(calls[c].uid, calls[c].id, s)
                                         /\ sessionTokens[s] # None}
  <2>1. /\ devices' = [devices EXCEPT ![calls[c].uid][calls[c].id] = None]
        /\ sessionTokens' = [s \in SessionIds |-> IF s \in gone THEN None ELSE sessionTokens[s]]
        /\ unverifiedTokens' = UnverifiedWithoutTokens(gone)
        /\ keyFetchTokens' = keyFetchTokens
    BY <1>3 DEF DeleteDeviceRows
  <2>2. \A u \in Uids : \A d \in DeviceIds : devices'[u][d] \in {devices[u][d], NULL, None}
    BY <2>1 DEF IInv, TypeOK
  <2>3. DevicesOwnSessions'
    BY <2>2, FewerDevices, TokensAssumption DEF IInv
  <2>4. \A s \in SessionIds : sessionTokens'[s] \in {sessionTokens[s], None}
    BY <2>1
  <2>5. \A t \in TokenIds : unverifiedTokens'[t] \in {unverifiedTokens[t], None}
    BY <2>1, UnverifiedWithoutEach
  <2>6. \A t \in TokenIds : TokenExists(t) /\ ~TokenExists(t)' => unverifiedTokens'[t] = None
    BY <2>1, UnverifiedWithoutEach DEF TokenExists
  <2>7. QED
    BY <2>1, <2>3, <2>4, <2>5, <2>6, DeletionInv
<1>4. QED
  BY <1>1, <1>2, <1>3, TokensAssumption DEF DeviceStep

(* Resets, account deletions, pruning and lost connections preserve it.    *)
LEMMA AccountStepInv == IInv /\ AccountStep /\ TypeOK' => IInv'
<1> SUFFICES ASSUME IInv, AccountStep, TypeOK' PROVE IInv'
  OBVIOUS
<1>1. ASSUME NEW u \in Uids, ResetAccount(u) \/ DeleteAccount(u)
      PROVE  IInv'
  <2>1. DeleteTokensOf(u)
    BY <1>1 DEF ResetAccount, DeleteAccount
  <2>2. \A v \in Uids : \A d \in DeviceIds : devices'[v][d] \in {devices[v][d], NULL, None}
    BY <2>1 DEF DeleteTokensOf, IInv, TypeOK
  <2>3. DevicesOwnSessions'
    BY <2>2, FewerDevices, TokensAssumption DEF IInv
  <2>4. /\ \A s \in SessionIds : sessionTokens'[s] \in {sessionTokens[s], None}
        /\ \A t \in KeyFetchIds : keyFetchTokens'[t] \in {keyFetchTokens[t], None}
        /\ \A t \in TokenIds : unverifiedTokens'[t] \in {unverifiedTokens[t], None}
    BY <2>1 DEF DeleteTokensOf
  <2>5. \A t \in TokenIds : TokenExists(t) /\ ~TokenExists(t)' => OwnerOf[t] = u
    BY <2>1 DEF DeleteTokensOf, TokenExists, SessionsOf, IInv, TokensOwned
  <2>6. \A t \in TokenIds : OwnerOf[t] = u => unverifiedTokens'[t] = None
    BY <2>1 DEF DeleteTokensOf, IInv, UnverifiedRowsOwned
  <2>7. QED
    BY <2>3, <2>4, <2>5, <2>6, DeletionInv
<1>2. ASSUME NEW T \in SUBSET SessionIds, PruneSessionTokens(T)
      PROVE  IInv'
  <2>1. /\ sessionTokens' = [s \in SessionIds |-> IF s \in T THEN None ELSE sessionTokens[s]]
        /\ unverifiedTokens' = UnverifiedWithoutTokens(T)
        /\ UNCHANGED <<keyFetchTokens, devices>>
    BY <1>2 DEF PruneSessionTokens
  <2>2. DevicesOwnSessions'
    BY <2>1 DEF IInv, DevicesOwnSessions
  <2>3. \A s \in SessionIds : sessionTokens'[s] \in {sessionTokens[s], None}
    BY <2>1
  <2>4. \A t \in TokenIds : unverifiedTokens'[t] \in {unverifiedTokens[t], None}
    BY <2>1, UnverifiedWithoutEach
  <2>5. \A t \in TokenIds : TokenExists(t) /\ ~TokenExists(t)' => unverifiedTokens'[t] = None
    BY <2>1, UnverifiedWithoutEach DEF TokenExists
  <2>6. QED
    BY <2>1, <2>2, <2>3, <2>4, <2>5, DeletionInv
<1>3. ASSUME NEW c \in Connections, ConnectionLost(c)
      PROVE  IInv'
  BY <1>3, VerificationInv DEF ConnectionLost
<1>4. QED
  BY <1>1, <1>2, <1>3 DEF AccountStep

(* Every step preserves the invariant.                                     *)
LEMMA NextInv == IInv /\ [Next]_vars => IInv'
<1> SUFFICES ASSUME IInv, [Next]_vars PROVE IInv'
  OBVIOUS
<1>1. CASE Next
  <2>1. TypeOK'
    BY <1>1, TokenStepType, VerifyStepType, EventStepType, DeviceStepType, AccountStepType
    DEF Next, IInv
  <2>2. QED
    BY <1>1, <2>1, TokenStepInv, VerifyStepInv, EventStepInv, DeviceStepInv, AccountStepInv
    DEF Next
<1>2. CASE UNCHANGED vars
  BY <1>2 DEF vars, IInv, TypeOK, TokensOwned, UnverifiedRowsOwned, TokenExists,
     MustVerifyAgrees, MethodOnlyWhenVerified, DevicesOwnSessions
<1>3. QED
  BY <1>1, <1>2

(* The inductive invariant holds of every reachable state.                 *)
THEOREM InductiveInvariant == Spec => []IInv
BY InitInv, NextInv, PTL DEF Spec

(* No unverified row outlives its token or names another account: see      *)
(* UnverifiedRowsOwned.                                                    *)
THEOREM UnverifiedRowsAlwaysOwned == Spec => []UnverifiedRowsOwned
<1>1. IInv => UnverifiedRowsOwned
  BY DEF IInv
<1>2. QED
  BY <1>1, InductiveInvariant, PTL

(* The two copies of mustVerify never disagree: see MustVerifyAgrees.      *)
THEOREM MustVerifyAlwaysAgrees == Spec => []MustVerifyAgrees
<1>1. IInv => MustVerifyAgrees
  BY DEF IInv
<1>2. QED
  BY <1>1, InductiveInvariant, PTL

(* A session with a verification method is verified: see                   *)
(* MethodOnlyWhenVerified.                                                 *)
THEOREM MethodAlwaysVerified == Spec => []MethodOnlyWhenVerified
<1>1. IInv => MethodOnlyWhenVerified
  BY DEF IInv
<1>2. QED
  BY <1>1, InductiveInvariant, PTL

-----------------------------------------------------------------------------
(* What a step may do to rows, established once for each kind of step.     *)

(* A step never lowers mustVerify, in either table.                        *)
LEMMA MustVerifyStep ==
  ASSUME IInv, Next
  PROVE  /\ \A s \in SessionIds : sessionTokens[s] # None /\ sessionTokens'[s] # None =>
               (sessionTokens[s].mustVerify => sessionTokens'[s].mustVerify)
         /\ \A t \in TokenIds : unverifiedTokens[t] # None /\ unverifiedTokens'[t] # None =>
               (unverifiedTokens[t].mustVerify => unverifiedTokens'[t].mustVerify)
<1> DEFINE Kept ==
      /\ \A s \in SessionIds : sessionTokens[s] # None /\ sessionTokens'[s] # None =>
           (sessionTokens[s].mustVerify => sessionTokens'[s].mustVerify)
      /\ \A t \in TokenIds : unverifiedTokens[t] # None /\ unverifiedTokens'[t] # None =>
           (unverifiedTokens[t].mustVerify => unverifiedTokens'[t].mustVerify)
<1>1. ASSUME NEW s \in SessionIds, NEW m \in BOOLEAN, NEW x \in VerificationIds \cup {NULL},
             NEW k \in CodeHashes \cup {NULL}, CreateSessionToken(s, m, x, k)
      PROVE  Kept
  BY <1>1 DEF CreateSessionToken, CanInsertUnverified, IInv, TypeOK
<1>2. ASSUME NEW s \in SessionIds, UpdateSessionToken(s)
      PROVE  Kept
  BY <1>2 DEF UpdateSessionToken, IInv, TypeOK, Session, UnverifiedToken
<1>3. ASSUME NEW t \in KeyFetchIds, NEW x \in VerificationIds \cup {NULL},
             CreateKeyFetchToken(t, x)
      PROVE  Kept
  BY <1>3 DEF CreateKeyFetchToken, CanInsertUnverified, IInv, TypeOK
<1>4. ASSUME NEW s \in SessionIds, NEW m \in Methods, VerifyTokensWithMethod(s, m)
      PROVE  Kept
  <2>1. \A o \in SessionIds : sessionTokens[o] # None =>
          (sessionTokens'[o] # None => sessionTokens'[o].mustVerify = sessionTokens[o].mustVerify)
    BY <1>4 DEF VerifyTokensWithMethod, IInv, TypeOK, Session
  <2>2. \A t \in TokenIds : unverifiedTokens'[t] \in {unverifiedTokens[t], None}
    BY <1>4, UnverifiedWithoutEach DEF VerifyTokensWithMethod
  <2>3. QED
    BY <2>1, <2>2
<1>5. ASSUME NEW t \in TokenIds, ExpireCode(t)
      PROVE  Kept
  BY <1>5 DEF ExpireCode, IInv, TypeOK, UnverifiedToken
<1>6. ASSUME \A s \in SessionIds : sessionTokens'[s] \in {sessionTokens[s], None},
             \A t \in TokenIds : unverifiedTokens'[t] \in {unverifiedTokens[t], None}
      PROVE  Kept
  BY <1>6
<1>7. ASSUME NEW s \in SessionIds, DeleteSessionToken(s)
      PROVE  Kept
  BY <1>6, <1>7, UnverifiedWithoutEach DEF DeleteSessionToken, IInv, TypeOK
<1>8. ASSUME NEW t \in KeyFetchIds, DeleteKeyFetchToken(t)
      PROVE  Kept
  BY <1>6, <1>8, UnverifiedWithoutEach DEF DeleteKeyFetchToken
<1>9. ASSUME NEW c \in Connections,
             VerifyTokenRows(c) \/ VerifyTokenCodeCommit(c) \/ DeleteDeviceRows(c)
      PROVE  Kept
  BY <1>6, <1>9, UnverifiedWithoutEach
  DEF VerifyTokenRows, VerifyTokenCodeCommit, DeleteDeviceRows
<1>10. ASSUME NEW u \in Uids, ResetAccount(u) \/ DeleteAccount(u)
       PROVE  Kept
  BY <1>6, <1>10 DEF ResetAccount, DeleteAccount, DeleteTokensOf
<1>11. ASSUME NEW T \in SUBSET SessionIds, PruneSessionTokens(T)
       PROVE  Kept
  BY <1>6, <1>11, UnverifiedWithoutEach DEF PruneSessionTokens
<1>12. ASSUME UNCHANGED <<sessionTokens, unverifiedTokens>>
       PROVE  Kept
  BY <1>6, <1>12
<1>13. VerifyStep => Kept
  BY <1>4, <1>5, <1>9, <1>12 DEF VerifyStep, VerifyTokenEvents, VerifyTokenCodeLookup
<1>14. TokenStep => Kept
  BY <1>1, <1>2, <1>3, <1>7, <1>8 DEF TokenStep
<1>15. EventStep \/ DeviceStep => Kept
  BY <1>9, <1>12 DEF EventStep, SecurityEventLookup, SecurityEventInsert, DeviceStep,
     CreateDevice, UpdateDevice, DeleteDeviceSelect
<1>16. AccountStep => Kept
  BY <1>10, <1>11, <1>12 DEF AccountStep, ConnectionLost
<1>17. QED
  BY <1>13, <1>14, <1>15, <1>16 DEF Next

(* mustVerify never goes back to false: see MustVerifyNeverDropped.        *)
THEOREM MustVerifyMonotone == Spec => MustVerifyNeverDropped
<1>1. IInv /\ [Next]_vars =>
        [/\ \A s \in SessionIds : sessionTokens[s] # None /\ sessionTokens'[s] # None =>
              (sessionTokens[s].mustVerify => sessionTokens'[s].mustVerify)
         /\ \A t \in TokenIds : unverifiedTokens[t] # None /\ unverifiedTokens'[t] # None =>
              (unverifiedTokens[t].mustVerify => unverifiedTokens'[t].mustVerify)]_vars
  BY MustVerifyStep
<1>2. QED
  BY <1>1, InductiveInvariant, PTL DEF Spec, MustVerifyNeverDropped

(* A step that deletes a session leaves no device that uses it.            *)
LEMMA SessionGoneStep ==
  ASSUME IInv, Next, NEW s \in SessionIds, sessionTokens[s] # None, sessionTokens'[s] = None
  PROVE  \A u \in Uids : \A d \in DeviceIds : devices'[u][d] # s
<1>1. s # None /\ s # NULL
  BY TokensAssumption
<1>2. sessionTokens[s].uid = OwnerOf[s] /\ OwnerOf[s] \in Uids
  BY OwnerType DEF IInv, TokensOwned, TokenIds
<1>3. \A u \in Uids : \A d \in DeviceIds : devices[u][d] = s => OwnerOf[s] = u
  BY DEF IInv, DevicesOwnSessions
<1>4. ~(sessionTokens' = sessionTokens)
  OBVIOUS
<1>5. ASSUME NEW o \in SessionIds, DeleteSessionToken(o)
      PROVE  \A u \in Uids : \A d \in DeviceIds : devices'[u][d] # s
  <2>1. o = s
    BY <1>5 DEF DeleteSessionToken, IInv, TypeOK
  <2>2. QED
    BY <1>1, <1>2, <1>3, <1>5, <2>1 DEF DeleteSessionToken, SessionsOf, UsesSession
<1>6. ASSUME NEW c \in Connections, DeleteDeviceRows(c)
      PROVE  \A u \in Uids : \A d \in DeviceIds : devices'[u][d] # s
  <2> DEFINE v == calls[c].uid
             e == calls[c].id
  <2>1. v \in Uids /\ e \in DeviceIds
    BY <1>6, CallFields DEF DeleteDeviceRows, IInv
  <2>2. devices[v][e] = s /\ devices' = [devices EXCEPT ![v][e] = None]
    BY <1>6 DEF DeleteDeviceRows, UsesSession
  <2>3. \A d \in DeviceIds \ {e} : devices[v][d] # s
    BY <2>1, <2>2 DEF IInv, DevicesOwnSessions
  <2>4. /\ devices'[v][e] = None
        /\ \A d \in DeviceIds \ {e} : devices'[v][d] = devices[v][d]
        /\ \A u \in Uids \ {v} : devices'[u] = devices[u]
    BY <2>1, <2>2 DEF IInv, TypeOK
  <2>5. OwnerOf[s] = v
    BY <1>3, <2>1, <2>2
  <2>6. QED
    BY <1>1, <1>3, <2>3, <2>4, <2>5
<1>7. ASSUME NEW v \in Uids, ResetAccount(v) \/ DeleteAccount(v)
      PROVE  \A u \in Uids : \A d \in DeviceIds : devices'[u][d] # s
  <2>1. DeleteTokensOf(v)
    BY <1>7 DEF ResetAccount, DeleteAccount
  <2>2. OwnerOf[s] = v
    BY <1>2, <2>1 DEF DeleteTokensOf, SessionsOf
  <2>3. /\ \A d \in DeviceIds : devices'[v][d] = None
        /\ \A u \in Uids \ {v} : devices'[u] = devices[u]
    BY <2>1, <2>2 DEF DeleteTokensOf, IInv, TypeOK
  <2>4. QED
    BY <1>1, <1>3, <2>2, <2>3
<1>8. ASSUME NEW T \in SUBSET SessionIds, PruneSessionTokens(T)
      PROVE  \A u \in Uids : \A d \in DeviceIds : devices'[u][d] # s
  BY <1>2, <1>3, <1>8 DEF PruneSessionTokens, UsesSession
<1>9. ~VerifyStep /\ ~EventStep
  <2>1. ASSUME NEW o \in SessionIds, NEW m \in Methods, VerifyTokensWithMethod(o, m)
        PROVE  FALSE
    BY <2>1, NewRows DEF VerifyTokensWithMethod, IInv, TypeOK
  <2>2. QED
    BY <1>4, <2>1 DEF VerifyStep, EventStep, VerifyTokenEvents, VerifyTokenCodeLookup,
       VerifyTokenRows, VerifyTokenCodeCommit, ExpireCode, SecurityEventLookup,
       SecurityEventInsert
<1>10. ASSUME TokenStep
       PROVE  \A u \in Uids : \A d \in DeviceIds : devices'[u][d] # s
  <2>1. ASSUME NEW o \in SessionIds, UpdateSessionToken(o)
        PROVE  FALSE
    BY <2>1, NewRows DEF UpdateSessionToken, IInv, TypeOK
  <2>2. ASSUME NEW o \in SessionIds, NEW m \in BOOLEAN, NEW x \in VerificationIds \cup {NULL},
               NEW k \in CodeHashes \cup {NULL}, CreateSessionToken(o, m, x, k)
        PROVE  FALSE
    BY <2>2 DEF CreateSessionToken, IInv, TypeOK
  <2>3. QED
    BY <1>4, <1>5, <1>10, <2>1, <2>2 DEF TokenStep, CreateKeyFetchToken, DeleteKeyFetchToken
<1>11. QED
  BY <1>4, <1>6, <1>7, <1>8, <1>9, <1>10 DEF Next, DeviceStep, AccountStep, CreateDevice,
     UpdateDevice, DeleteDeviceSelect, ConnectionLost

(* No device outlives its session: see SessionTakesItsDevices.             *)
THEOREM DevicesGoWithSessions == Spec => SessionTakesItsDevices
<1>1. IInv /\ [Next]_vars =>
        [\A s \in SessionIds : sessionTokens[s] # None /\ sessionTokens'[s] = None =>
           \A u \in Uids : \A d \in DeviceIds : devices'[u][d] # s]_vars
  BY SessionGoneStep
<1>2. QED
  BY <1>1, InductiveInvariant, PTL DEF Spec, SessionTakesItsDevices

-----------------------------------------------------------------------------
(* The refinement.  Each lemma takes a kind of change to the rows and maps *)
(* it to an action of TokenLifecycle.                                      *)

(* The status of a token is one of the three.                              *)
LEMMA StatusValues ==
  \A t \in TokenIds :
    /\ StatusOf[t] = IF ~TokenExists(t) THEN "absent"
                     ELSE IF unverifiedTokens[t] # None THEN "unverified" ELSE "verified"
    /\ StatusOf'[t] = IF ~TokenExists(t)' THEN "absent"
                      ELSE IF unverifiedTokens'[t] # None THEN "unverified" ELSE "verified"
BY DEF StatusOf

(* A step that leaves the token tables alone leaves every status alone.    *)
LEMMA StatusSame ==
  ASSUME \A t \in TokenIds : /\ TokenExists(t)' <=> TokenExists(t)
                             /\ unverifiedTokens'[t] = None <=> unverifiedTokens[t] = None
  PROVE  StatusOf' = StatusOf
BY DEF StatusOf

(* A new row for an absent token is an Issue, or nothing.                  *)
LEMMA IssueMaps ==
  ASSUME NEW t \in TokenIds, ~TokenExists(t), TokenExists(t)',
         \A o \in TokenIds \ {t} : /\ TokenExists(o)' <=> TokenExists(o)
                                   /\ unverifiedTokens'[o] = unverifiedTokens[o]
  PROVE  Lifecycle!Next
<1> DEFINE st == IF unverifiedTokens'[t] # None THEN "unverified" ELSE "verified"
<1>1. StatusOf[t] = "absent" /\ StatusOf'[t] = st
  BY StatusValues
<1>2. \A o \in TokenIds \ {t} : StatusOf'[o] = StatusOf[o]
  BY StatusValues
<1>3. StatusOf' = [StatusOf EXCEPT ![t] = st]
  <2>1. StatusOf' = [o \in TokenIds |-> StatusOf'[o]] /\ StatusOf = [o \in TokenIds |-> StatusOf[o]]
    BY DEF StatusOf
  <2>2. QED
    BY <1>1, <1>2, <2>1
<1>4. Lifecycle!Issue(t, st)
  BY <1>1, <1>3 DEF Lifecycle!Issue, Lifecycle!Absent, Lifecycle!Unverified, Lifecycle!Verified
<1>5. st \in {Lifecycle!Unverified, Lifecycle!Verified}
  BY DEF Lifecycle!Unverified, Lifecycle!Verified
<1>6. QED
  BY <1>4, <1>5 DEF Lifecycle!Next

(* Deleting unverified rows of one account whose tokens stay is a Verify.  *)
LEMMA VerifyMaps ==
  ASSUME IInv, NEW u \in Uids, \A t \in TokenIds : TokenExists(t)' <=> TokenExists(t),
         \A t \in TokenIds : \/ unverifiedTokens'[t] = unverifiedTokens[t]
                             \/ unverifiedTokens'[t] = None /\ unverifiedTokens[t].uid = u
  PROVE  Lifecycle!Next
<1> DEFINE T == {t \in TokenIds : unverifiedTokens[t] # None /\ unverifiedTokens'[t] = None}
<1>1. \A t \in T : StatusOf[t] = "unverified" /\ OwnerOf[t] = u /\ StatusOf'[t] = "verified"
  BY StatusValues DEF IInv, UnverifiedRowsOwned
<1>2. \A t \in TokenIds \ T : StatusOf'[t] = StatusOf[t]
  BY StatusValues
<1>3. StatusOf' = [t \in TokenIds |-> IF t \in T THEN "verified" ELSE StatusOf[t]]
  BY <1>1, <1>2 DEF StatusOf
<1>4. Lifecycle!Verify(u, T)
  BY <1>1, <1>3 DEF Lifecycle!Verify, Lifecycle!Unverified, Lifecycle!Verified
<1>5. T \in SUBSET TokenIds
  OBVIOUS
<1>6. QED
  BY <1>4, <1>5 DEF Lifecycle!Next

(* Deleting tokens of one account with their unverified rows is a Revoke.  *)
LEMMA RevokeMaps ==
  ASSUME NEW T \in SUBSET TokenIds, \A t \in T : ~TokenExists(t)',
         \A t \in TokenIds \ T : /\ TokenExists(t)' <=> TokenExists(t)
                                 /\ unverifiedTokens'[t] = unverifiedTokens[t],
         \/ \E u \in Uids : \A t \in T : OwnerOf[t] = u
         \/ T \subseteq SessionIds
  PROVE  Lifecycle!Next
<1>1. \A t \in T : StatusOf'[t] = "absent"
  BY StatusValues
<1>2. \A t \in TokenIds \ T : StatusOf'[t] = StatusOf[t]
  BY StatusValues
<1>3. StatusOf' = [t \in TokenIds |-> IF t \in T THEN "absent" ELSE StatusOf[t]]
  BY <1>1, <1>2 DEF StatusOf
<1>4. CASE \E u \in Uids : \A t \in T : OwnerOf[t] = u
  BY <1>3, <1>4 DEF Lifecycle!Next, Lifecycle!Revoke, Lifecycle!Absent
<1>5. CASE T \subseteq SessionIds
  BY <1>3, <1>5 DEF Lifecycle!Next, Lifecycle!Expire, Lifecycle!Absent
<1>6. QED
  BY <1>4, <1>5

(* Each procedure on tokens maps to a step of the lifecycle or a stutter.  *)
LEMMA TokenStepMaps == IInv /\ TokenStep => Lifecycle!Next \/ StatusOf' = StatusOf
<1> SUFFICES ASSUME IInv, TokenStep PROVE Lifecycle!Next \/ StatusOf' = StatusOf
  OBVIOUS
<1>1. ASSUME NEW s \in SessionIds, NEW m \in BOOLEAN, NEW x \in VerificationIds \cup {NULL},
             NEW k \in CodeHashes \cup {NULL}, CreateSessionToken(s, m, x, k)
      PROVE  Lifecycle!Next
  <2>1. [uid |-> OwnerOf[s], mustVerify |-> m, verificationMethod |-> NULL] # None
    BY OwnerType, NewRows DEF TokenIds
  <2>2. s \in TokenIds /\ s \notin KeyFetchIds
    BY TokensAssumption DEF TokenIds
  <2>3. ~TokenExists(s) /\ TokenExists(s)'
    BY <1>1, <2>1, <2>2 DEF CreateSessionToken, TokenExists, IInv, TypeOK
  <2>4. \A o \in TokenIds \ {s} : /\ TokenExists(o)' <=> TokenExists(o)
                                 /\ unverifiedTokens'[o] = unverifiedTokens[o]
    BY <1>1 DEF CreateSessionToken, TokenExists, IInv, TypeOK
  <2>5. QED
    BY <2>2, <2>3, <2>4, IssueMaps
<1>2. ASSUME NEW t \in KeyFetchIds, NEW x \in VerificationIds \cup {NULL},
             CreateKeyFetchToken(t, x)
      PROVE  Lifecycle!Next
  <2>1. t \in TokenIds /\ t \notin SessionIds /\ OwnerOf[t] # None
    BY OwnerType, TokensAssumption DEF TokenIds
  <2>2. ~TokenExists(t) /\ TokenExists(t)'
    BY <1>2, <2>1 DEF CreateKeyFetchToken, TokenExists, IInv, TypeOK
  <2>3. \A o \in TokenIds \ {t} : /\ TokenExists(o)' <=> TokenExists(o)
                                 /\ unverifiedTokens'[o] = unverifiedTokens[o]
    BY <1>2 DEF CreateKeyFetchToken, TokenExists, IInv, TypeOK
  <2>4. QED
    BY <2>1, <2>2, <2>3, IssueMaps
<1>3. ASSUME NEW s \in SessionIds, UpdateSessionToken(s)
      PROVE  StatusOf' = StatusOf
  <2>1. \A o \in SessionIds : sessionTokens'[o] = None <=> sessionTokens[o] = None
    BY <1>3, NewRows DEF UpdateSessionToken, IInv, TypeOK
  <2>2. \A t \in TokenIds : unverifiedTokens'[t] = None <=> unverifiedTokens[t] = None
    BY <1>3, NewRows DEF UpdateSessionToken, IInv, TypeOK
  <2>3. QED
    BY <1>3, <2>1, <2>2, StatusSame DEF UpdateSessionToken, TokenExists
<1>4. ASSUME NEW s \in SessionIds, DeleteSessionToken(s)
      PROVE  Lifecycle!Next
  <2>1. /\ \A o \in SessionIds : sessionTokens'[o] = IF o = s THEN None ELSE sessionTokens[o]
        /\ keyFetchTokens' = keyFetchTokens
        /\ \A t \in TokenIds \ {s} : unverifiedTokens'[t] = unverifiedTokens[t]
    BY <1>4 DEF DeleteSessionToken, UnverifiedWithoutTokens, IInv, TypeOK
  <2>2. {s} \in SUBSET TokenIds /\ {s} \subseteq SessionIds /\ s \notin KeyFetchIds
    BY TokensAssumption DEF TokenIds
  <2>3. \A t \in {s} : ~TokenExists(t)'
    BY <2>1, <2>2 DEF TokenExists
  <2>4. \A t \in TokenIds \ {s} : TokenExists(t)' <=> TokenExists(t)
    BY <2>1 DEF TokenExists
  <2>5. QED
    BY <2>1, <2>2, <2>3, <2>4, RevokeMaps
<1>5. ASSUME NEW t \in KeyFetchIds, DeleteKeyFetchToken(t)
      PROVE  Lifecycle!Next
  <2>1. /\ \A o \in KeyFetchIds : keyFetchTokens'[o] = IF o = t THEN None ELSE keyFetchTokens[o]
        /\ sessionTokens' = sessionTokens
        /\ \A o \in TokenIds \ {t} : unverifiedTokens'[o] = unverifiedTokens[o]
    BY <1>5 DEF DeleteKeyFetchToken, UnverifiedWithoutTokens, IInv, TypeOK
  <2>2. {t} \in SUBSET TokenIds /\ t \notin SessionIds /\ OwnerOf[t] \in Uids
    BY OwnerType, TokensAssumption DEF TokenIds
  <2>3. \A o \in {t} : ~TokenExists(o)'
    BY <2>1, <2>2 DEF TokenExists
  <2>4. \A o \in TokenIds \ {t} : TokenExists(o)' <=> TokenExists(o)
    BY <2>1 DEF TokenExists
  <2>5. \E u \in Uids : \A o \in {t} : OwnerOf[o] = u
    BY <2>2
  <2>6. QED
    BY <2>1, <2>2, <2>3, <2>4, <2>5, RevokeMaps
<1>6. QED
  BY <1>1, <1>2, <1>3, <1>4, <1>5 DEF TokenStep

(* So does each step of the verification procedures ...                    *)
LEMMA VerifyStepMaps == IInv /\ VerifyStep => Lifecycle!Next \/ StatusOf' = StatusOf
<1> SUFFICES ASSUME IInv, VerifyStep PROVE Lifecycle!Next \/ StatusOf' = StatusOf
  OBVIOUS
<1>1. ASSUME NEW u, NEW x
      PROVE  \A t \in TokenIds :
               \/ UnverifiedWithout(u, x)[t] = unverifiedTokens[t]
               \/ UnverifiedWithout(u, x)[t] = None /\ unverifiedTokens[t].uid = u
  BY DEF UnverifiedWithout, HasVerificationId
<1>2. ASSUME NEW c \in Connections, VerifyTokenRows(c) \/ VerifyTokenCodeCommit(c)
      PROVE  Lifecycle!Next
  <2>1. calls[c].uid \in Uids
    BY <1>2, CallFields DEF VerifyTokenRows, VerifyTokenCodeCommit, IInv
  <2>2. /\ unverifiedTokens' = UnverifiedWithout(calls[c].uid, calls[c].tokenVerificationId)
        /\ UNCHANGED <<sessionTokens, keyFetchTokens>>
    BY <1>2 DEF VerifyTokenRows, VerifyTokenCodeCommit
  <2>3. QED
    BY <1>1, <2>1, <2>2, VerifyMaps DEF TokenExists
<1>3. ASSUME NEW s \in SessionIds, NEW m \in Methods, VerifyTokensWithMethod(s, m)
      PROVE  Lifecycle!Next \/ StatusOf' = StatusOf
  <2>1. \A o \in SessionIds : sessionTokens'[o] = None <=> sessionTokens[o] = None
    BY <1>3, NewRows DEF VerifyTokensWithMethod, IInv, TypeOK
  <2>2. \A t \in TokenIds : TokenExists(t)' <=> TokenExists(t)
    BY <1>3, <2>1 DEF VerifyTokensWithMethod, TokenExists
  <2>3. CASE unverifiedTokens[s] = None
    BY <1>3, <2>2, <2>3, StatusSame DEF VerifyTokensWithMethod
  <2>4. CASE unverifiedTokens[s] # None
    <3>1. unverifiedTokens' = UnverifiedWithout(unverifiedTokens[s].uid,
                                                unverifiedTokens[s].tokenVerificationId)
      BY <1>3, <2>4 DEF VerifyTokensWithMethod
    <3>2. unverifiedTokens[s].uid \in Uids
      BY <2>4 DEF IInv, TypeOK, UnverifiedToken, TokenIds
    <3>3. QED
      BY <1>1, <2>2, <3>1, <3>2, VerifyMaps
  <2>5. QED
    BY <2>3, <2>4
<1>4. ASSUME NEW t \in TokenIds, ExpireCode(t)
      PROVE  StatusOf' = StatusOf
  <2>1. \A o \in TokenIds : unverifiedTokens'[o] = None <=> unverifiedTokens[o] = None
    BY <1>4, NewRows DEF ExpireCode, IInv, TypeOK
  <2>2. QED
    BY <1>4, <2>1, StatusSame DEF ExpireCode, TokenExists
<1>5. ASSUME UNCHANGED <<sessionTokens, keyFetchTokens, unverifiedTokens>>
      PROVE  StatusOf' = StatusOf
  BY <1>5, StatusSame DEF TokenExists
<1>6. QED
  BY <1>2, <1>3, <1>4, <1>5 DEF VerifyStep, VerifyTokenEvents, VerifyTokenCodeLookup

(* ... each reset, deletion and pruning ...                                *)
LEMMA AccountStepMaps == IInv /\ AccountStep => Lifecycle!Next \/ StatusOf' = StatusOf
<1> SUFFICES ASSUME IInv, AccountStep PROVE Lifecycle!Next \/ StatusOf' = StatusOf
  OBVIOUS
<1>1. ASSUME NEW u \in Uids, ResetAccount(u) \/ DeleteAccount(u)
      PROVE  Lifecycle!Next
  <2> DEFINE T == {t \in TokenIds : OwnerOf[t] = u}
  <2>1. DeleteTokensOf(u)
    BY <1>1 DEF ResetAccount, DeleteAccount
  <2>2. \A t \in T : ~TokenExists(t)'
    BY <2>1, TokensAssumption DEF DeleteTokensOf, TokenExists, SessionsOf, IInv, TokensOwned
  <2>3. \A t \in TokenIds \ T : TokenExists(t)' <=> TokenExists(t)
    BY <2>1 DEF DeleteTokensOf, TokenExists, SessionsOf, IInv, TokensOwned
  <2>4. \A t \in TokenIds \ T : unverifiedTokens'[t] = unverifiedTokens[t]
    BY <2>1 DEF DeleteTokensOf, IInv, UnverifiedRowsOwned
  <2>5. T \in SUBSET TokenIds /\ \E v \in Uids : \A t \in T : OwnerOf[t] = v
    OBVIOUS
  <2>6. QED
    BY <2>2, <2>3, <2>4, <2>5, RevokeMaps
<1>2. ASSUME NEW T \in SUBSET SessionIds, PruneSessionTokens(T)
      PROVE  Lifecycle!Next
  <2>1. /\ \A s \in SessionIds : sessionTokens'[s] = IF s \in T THEN None ELSE sessionTokens[s]
        /\ keyFetchTokens' = keyFetchTokens
        /\ \A t \in TokenIds \ T : unverifiedTokens'[t] = unverifiedTokens[t]
    BY <1>2 DEF PruneSessionTokens, UnverifiedWithoutTokens
  <2>2. T \in SUBSET TokenIds /\ \A t \in T : t \notin KeyFetchIds
    BY TokensAssumption DEF TokenIds
  <2>3. \A t \in T : ~TokenExists(t)'
    BY <2>1, <2>2 DEF TokenExists
  <2>4. \A t \in TokenIds \ T : TokenExists(t)' <=> TokenExists(t)
    BY <2>1 DEF TokenExists
  <2>5. QED
    BY <2>1, <2>2, <2>3, <2>4, RevokeMaps
<1>3. ASSUME NEW c \in Connections, ConnectionLost(c)
      PROVE  StatusOf' = StatusOf
  BY <1>3, StatusSame DEF ConnectionLost, TokenExists
<1>4. QED
  BY <1>1, <1>2, <1>3 DEF AccountStep

(* ... and each step on devices, deleteDevice_3 being the one that revokes.*)
LEMMA DeviceStepMaps == IInv /\ DeviceStep => Lifecycle!Next \/ StatusOf' = StatusOf
<1> SUFFICES ASSUME IInv, DeviceStep PROVE Lifecycle!Next \/ StatusOf' = StatusOf
  OBVIOUS
<1>1. ASSUME NEW c \in Connections, DeleteDeviceRows(c)
      PROVE  Lifecycle!Next
  <2> DEFINE T == {s \in SessionIds : /\ UsesSession(calls[c].uid, calls[c].id, s)
                                      /\ sessionTokens[s] # None}
  <2>1. /\ \A s \in SessionIds : sessionTokens'[s] = IF s \in T THEN None ELSE sessionTokens[s]
        /\ keyFetchTokens' = keyFetchTokens
        /\ \A t \in TokenIds \ T : unverifiedTokens'[t] = unverifiedTokens[t]
    BY <1>1 DEF DeleteDeviceRows, UnverifiedWithoutTokens
  <2>2. T \in SUBSET TokenIds /\ T \subseteq SessionIds /\ \A t \in T : t \notin KeyFetchIds
    BY TokensAssumption DEF TokenIds
  <2>3. \A t \in T : ~TokenExists(t)'
    BY <2>1, <2>2 DEF TokenExists
  <2>4. \A t \in TokenIds \ T : TokenExists(t)' <=> TokenExists(t)
    BY <2>1 DEF TokenExists
  <2>5. QED
    BY <2>1, <2>2, <2>3, <2>4, RevokeMaps
<1>2. ASSUME UNCHANGED <<sessionTokens, keyFetchTokens, unverifiedTokens>>
      PROVE  StatusOf' = StatusOf
  BY <1>2, StatusSame DEF TokenExists
<1>3. QED
  BY <1>1, <1>2 DEF DeviceStep, CreateDevice, UpdateDevice, DeleteDeviceSelect

(* The tables implement TokenLifecycle: see LifecycleSpec.                 *)
THEOREM TablesImplementLifecycle == Spec => LifecycleSpec
<1>1. Init => Lifecycle!Init
  BY DEF Init, Lifecycle!Init, Lifecycle!Absent, StatusOf, TokenExists
<1>2. IInv /\ [Next]_vars => [Lifecycle!Next]_StatusOf
  <2> SUFFICES ASSUME IInv, [Next]_vars PROVE Lifecycle!Next \/ StatusOf' = StatusOf
    OBVIOUS
  <2>1. CASE EventStep \/ UNCHANGED vars
    BY <2>1, StatusSame DEF EventStep, SecurityEventLookup, SecurityEventInsert, vars, TokenExists
  <2>2. QED
    BY <2>1, TokenStepMaps, VerifyStepMaps, DeviceStepMaps, AccountStepMaps DEF Next
<1>3. QED
  BY <1>1, <1>2, InductiveInvariant, PTL DEF Spec, LifecycleSpec, Lifecycle!Spec

(* A step of the lifecycle never takes a verification back, and verifies   *)
(* tokens of one account only.                                             *)
LEMMA LifecycleKeeps ==
  ASSUME [Lifecycle!Next]_StatusOf
  PROVE  /\ \A t \in TokenIds :
              StatusOf[t] = Lifecycle!Verified => StatusOf'[t] # Lifecycle!Unverified
         /\ \A s, t \in TokenIds :
              /\ StatusOf[s] = Lifecycle!Unverified /\ StatusOf'[s] = Lifecycle!Verified
              /\ StatusOf[t] = Lifecycle!Unverified /\ StatusOf'[t] = Lifecycle!Verified
              => OwnerOf[s] = OwnerOf[t]
<1> USE DEF Lifecycle!Absent, Lifecycle!Unverified, Lifecycle!Verified
<1>2. StatusOf = [t \in TokenIds |-> StatusOf[t]] BY DEF StatusOf
<1> HIDE DEF StatusOf
<1>3. CASE UNCHANGED StatusOf BY <1>3
<1>4. ASSUME NEW t \in TokenIds, NEW st \in {"unverified", "verified"}, Lifecycle!Issue(t, st)
      PROVE  \A s \in TokenIds : s # t => StatusOf'[s] = StatusOf[s]
  BY <1>2, <1>4 DEF Lifecycle!Issue
<1>5. CASE \E t \in TokenIds, st \in {"unverified", "verified"} : Lifecycle!Issue(t, st)
  BY <1>4, <1>5 DEF Lifecycle!Issue
<1>6. CASE \E u \in Uids, T \in SUBSET TokenIds : Lifecycle!Verify(u, T)
  BY <1>6 DEF Lifecycle!Verify
<1>7. CASE \E u \in Uids, T \in SUBSET TokenIds : Lifecycle!Revoke(u, T)
  BY <1>7 DEF Lifecycle!Revoke
<1>8. CASE \E T \in SUBSET SessionIds : Lifecycle!Expire(T)
  BY <1>8 DEF Lifecycle!Expire
<1> QED BY <1>3, <1>5, <1>6, <1>7, <1>8 DEF Lifecycle!Next

(* So in the PostgreSQL tables a token that is verified stays verified     *)
(* while it lives, whatever requests overlap, ...                          *)
THEOREM VerifiedStaysVerified == Spec => Lifecycle!VerifiedForGood
<1>1. [Lifecycle!Next]_StatusOf =>
        [\A t \in TokenIds :
           StatusOf[t] = Lifecycle!Verified => StatusOf'[t] # Lifecycle!Unverified]_StatusOf
  BY LifecycleKeeps
<1> QED BY <1>1, TablesImplementLifecycle, PTL DEF LifecycleSpec, Lifecycle!Spec, Lifecycle!VerifiedForGood

(* ... and no step verifies tokens of two accounts, although callers of two*)
(* accounts may choose the same tokenVerificationId.                       *)
THEOREM VerifiedWithinAccount == Spec => Lifecycle!VerifiedByAccount
<1>1. [Lifecycle!Next]_StatusOf =>
        [\A s, t \in TokenIds :
           /\ StatusOf[s] = Lifecycle!Unverified /\ StatusOf'[s] = Lifecycle!Verified
           /\ StatusOf[t] = Lifecycle!Unverified /\ StatusOf'[t] = Lifecycle!Verified
           => OwnerOf[s] = OwnerOf[t]]_StatusOf
  BY LifecycleKeeps
<1> QED BY <1>1, TablesImplementLifecycle, PTL DEF LifecycleSpec, Lifecycle!Spec, Lifecycle!VerifiedByAccount
-----------------------------------------------------------------------------
(* A row that EventsVerified has changed was one of the account's with this*)
(* tokenVerificationId.                                                    *)
LEMMA ChangedEvents ==
  ASSUME TypeOK, NEW u, NEW x, NEW e \in EventsVerified(u, x), e \notin securityEvents
  PROVE  e.uid = u /\ e.tokenVerificationId = x
<1>1. PICK f \in securityEvents :
        e = IF f.uid = u /\ f.tokenVerificationId = x THEN [f EXCEPT !.verified = TRUE] ELSE f
  BY DEF EventsVerified
<1>2. f \in SecurityEvent BY DEF TypeOK
<1>3. f.uid = u /\ f.tokenVerificationId = x /\ e = [f EXCEPT !.verified = TRUE] BY <1>1
<1> QED BY <1>2, <1>3 DEF SecurityEvent

(* After the DELETE no token of the account has the tokenVerificationId.   *)
LEMMA NoneLeft ==
  ASSUME NEW u, NEW x, unverifiedTokens' = UnverifiedWithout(u, x)
  PROVE  \A t \in TokenIds : ~HasVerificationId(t, u, x)'
BY DEF UnverifiedWithout, HasVerificationId

(* Events that become verified do so with their tokens, or one statement   *)
(* before: see EventsVerifiedWithTokens.                                   *)
THEOREM EventsGoWithTokens == Spec => EventsVerifiedWithTokens
<1> DEFINE A == \A e \in securityEvents' \ securityEvents :
                  e.verified /\ e.tokenVerificationId # NULL =>
                    \/ \A t \in TokenIds : ~HasVerificationId(t, e.uid, e.tokenVerificationId)'
                    \/ \E c \in Connections :
                         calls'[c] = [proc |-> "verifyToken", uid |-> e.uid,
                                      tokenVerificationId |-> e.tokenVerificationId]
<1>1. ASSUME IInv, [Next]_vars PROVE A
  <2> USE <1>1 DEF IInv
  <2>1. CASE securityEvents' \subseteq securityEvents BY <2>1
  <2>2. ASSUME NEW c \in Connections, NEW u \in Uids, NEW x \in VerificationIds,
               VerifyTokenEvents(c, u, x)
        PROVE  A
    <3>1. calls'[c] = [proc |-> "verifyToken", uid |-> u, tokenVerificationId |-> x]
      BY <2>2 DEF VerifyTokenEvents, TypeOK
    <3>2. \A e \in securityEvents' \ securityEvents : e.uid = u /\ e.tokenVerificationId = x
      BY <2>2, ChangedEvents DEF VerifyTokenEvents
    <3> QED BY <3>1, <3>2
  <2>3. ASSUME NEW u, NEW x, securityEvents' = EventsVerified(u, x),
               unverifiedTokens' = UnverifiedWithout(u, x)
        PROVE  A
    <3>1. \A e \in securityEvents' \ securityEvents : e.uid = u /\ e.tokenVerificationId = x
      BY <2>3, ChangedEvents
    <3>2. \A t \in TokenIds : ~HasVerificationId(t, u, x)' BY <2>3, NoneLeft
    <3> QED BY <3>1, <3>2
  <2>4. ASSUME NEW c \in Connections, VerifyTokenCodeCommit(c) PROVE A
    BY <2>4, <2>3 DEF VerifyTokenCodeCommit
  <2>5. ASSUME NEW s \in SessionIds, NEW m \in Methods, VerifyTokensWithMethod(s, m) PROVE A
    <3>1. CASE unverifiedTokens[s] = None BY <2>5, <3>1, <2>1 DEF VerifyTokensWithMethod
    <3>2. CASE unverifiedTokens[s] # None BY <2>5, <3>2, <2>3 DEF VerifyTokensWithMethod
    <3> QED BY <3>1, <3>2
  <2>6. ASSUME NEW c \in Connections, SecurityEventInsert(c) PROVE A
    <3> DEFINE x == calls[c].tokenVerificationId
               f == [uid |-> calls[c].uid, tokenVerificationId |-> x, verified |-> (x = NULL)]
    <3>1. securityEvents' = securityEvents \cup {f} BY <2>6 DEF SecurityEventInsert
    <3>2. f.tokenVerificationId = x /\ (f.verified <=> x = NULL) OBVIOUS
    <3> HIDE DEF f
    <3> QED BY <3>1, <3>2
  <2>7. CASE TokenStep
    BY <2>7, <2>1 DEF TokenStep, CreateSessionToken, UpdateSessionToken, DeleteSessionToken,
       CreateKeyFetchToken, DeleteKeyFetchToken
  <2>8. CASE VerifyStep
    BY <2>8, <2>1, <2>2, <2>4, <2>5 DEF VerifyStep, VerifyTokenCodeLookup, VerifyTokenRows,
       ExpireCode
  <2>9. CASE EventStep BY <2>9, <2>1, <2>6 DEF EventStep, SecurityEventLookup
  <2>10. CASE DeviceStep
    BY <2>10, <2>1 DEF DeviceStep, CreateDevice, UpdateDevice, DeleteDeviceSelect, DeleteDeviceRows
  <2>11. CASE AccountStep
    BY <2>11, <2>1 DEF AccountStep, ResetAccount, DeleteAccount, PruneSessionTokens, ConnectionLost
  <2>12. CASE UNCHANGED vars BY <2>12, <2>1 DEF vars
  <2> QED BY <2>7, <2>8, <2>9, <2>10, <2>11, <2>12 DEF Next
<1>2. IInv /\ [Next]_vars => [A]_vars BY <1>1
<1> QED BY <1>2, InductiveInvariant, PTL DEF Spec, EventsVerifiedWithTokens

-----------------------------------------------------------------------------
(* The rows of an account are the same when each table has the same.       *)
LEMMA RowsSame ==
  ASSUME NEW v \in Uids,
         \A s \in SessionIds : OwnerOf[s] = v => sessionTokens'[s] = sessionTokens[s],
         \A t \in KeyFetchIds : OwnerOf[t] = v => keyFetchTokens'[t] = keyFetchTokens[t],
         \A t \in TokenIds : OwnerOf[t] = v => unverifiedTokens'[t] = unverifiedTokens[t],
         devices'[v] = devices[v],
         \A e : e.uid = v => (e \in securityEvents' <=> e \in securityEvents)
  PROVE  RowsOf(v)' = RowsOf(v)
<1>1. [s \in {o \in SessionIds : OwnerOf[o] = v} |-> sessionTokens'[s]]
        = [s \in {o \in SessionIds : OwnerOf[o] = v} |-> sessionTokens[s]]
  OBVIOUS
<1>2. [t \in {o \in KeyFetchIds : OwnerOf[o] = v} |-> keyFetchTokens'[t]]
        = [t \in {o \in KeyFetchIds : OwnerOf[o] = v} |-> keyFetchTokens[t]]
  OBVIOUS
<1>3. [t \in {o \in TokenIds : OwnerOf[o] = v} |-> unverifiedTokens'[t]]
        = [t \in {o \in TokenIds : OwnerOf[o] = v} |-> unverifiedTokens[t]]
  OBVIOUS
<1>4. {e \in securityEvents' : e.uid = v} = {e \in securityEvents : e.uid = v} OBVIOUS
<1> QED BY <1>1, <1>2, <1>3, <1>4 DEF RowsOf

(* What the statements on unverifiedTokens and securityEvents of one       *)
(* account leave alone: everything of another.                             *)
LEMMA OthersUnverified ==
  ASSUME IInv, NEW u, NEW x, NEW v \in Uids, v # u
  PROVE  \A t \in TokenIds : OwnerOf[t] = v => UnverifiedWithout(u, x)[t] = unverifiedTokens[t]
BY DEF IInv, UnverifiedRowsOwned, UnverifiedWithout, HasVerificationId

LEMMA OthersEvents ==
  ASSUME TypeOK, NEW u, NEW x, NEW v \in Uids, v # u
  PROVE  \A e : e.uid = v => (e \in EventsVerified(u, x) <=> e \in securityEvents)
<1>1. ASSUME NEW e, e.uid = v, e \in EventsVerified(u, x) PROVE e \in securityEvents
  BY <1>1, ChangedEvents
<1>2. ASSUME NEW e, e.uid = v, e \in securityEvents PROVE e \in EventsVerified(u, x)
  BY <1>2 DEF EventsVerified
<1> QED BY <1>1, <1>2

(* A step touches the rows of one account, whatever the callers chose as   *)
(* tokenVerificationIds: see OneAccountPerStep.                            *)
THEOREM OneAccountAtATime == Spec => OneAccountPerStep
<1> DEFINE Only(u) == \A v \in Uids \ {u} : RowsOf(v)' = RowsOf(v)
           One == \E u \in Uids : Only(u)
           Pruned == \E T \in SUBSET SessionIds : PruneSessionTokens(T)
<1>1. ASSUME IInv, Next, ~Pruned PROVE One
  <2> USE <1>1 DEF IInv
  <2> HIDE DEF Only
  <2>1. ASSUME NEW u \in Uids, UNCHANGED <<sessionTokens, keyFetchTokens, unverifiedTokens, devices,
                                            securityEvents>>
        PROVE  One
    <3>1. Only(u) BY <2>1, RowsSame DEF Only
    <3> QED BY <3>1
  <2>2. CASE TokenStep
    <3>1. ASSUME NEW s \in SessionIds, NEW m \in BOOLEAN, NEW x \in VerificationIds \cup {NULL},
                 NEW k \in CodeHashes \cup {NULL}, CreateSessionToken(s, m, x, k)
          PROVE  Only(OwnerOf[s])
      BY <3>1, RowsSame DEF Only, CreateSessionToken, TypeOK, TokenIds
    <3>2. ASSUME NEW s \in SessionIds, UpdateSessionToken(s) PROVE Only(OwnerOf[s])
      BY <3>2, RowsSame DEF Only, UpdateSessionToken, TypeOK, TokenIds
    <3>3. ASSUME NEW s \in SessionIds, DeleteSessionToken(s) PROVE Only(OwnerOf[s])
      <4>1. \A v \in Uids \ {OwnerOf[s]} : devices'[v] = devices[v]
        BY <3>3 DEF DeleteSessionToken, SessionsOf, TokensOwned, TypeOK
      <4> QED BY <3>3, <4>1, RowsSame DEF Only, DeleteSessionToken, UnverifiedWithoutTokens, TypeOK
    <3>4. ASSUME NEW t \in KeyFetchIds, NEW x \in VerificationIds \cup {NULL},
                 CreateKeyFetchToken(t, x)
          PROVE  Only(OwnerOf[t])
      BY <3>4, RowsSame DEF Only, CreateKeyFetchToken, TypeOK, TokenIds
    <3>5. ASSUME NEW t \in KeyFetchIds, DeleteKeyFetchToken(t) PROVE Only(OwnerOf[t])
      BY <3>5, RowsSame DEF Only, DeleteKeyFetchToken, UnverifiedWithoutTokens, TypeOK
    <3> QED BY <2>2, <3>1, <3>2, <3>3, <3>4, <3>5, OwnerType DEF TokenStep, TokenIds
  <2>3. CASE VerifyStep
    <3>1. ASSUME NEW u \in Uids, NEW x, securityEvents' = EventsVerified(u, x),
                 UNCHANGED <<sessionTokens, keyFetchTokens, unverifiedTokens, devices>>
          PROVE  One
      <4>1. Only(u) BY <3>1, RowsSame, OthersEvents DEF Only
      <4> QED BY <4>1
    <3>2. ASSUME NEW u \in Uids, NEW x, unverifiedTokens' = UnverifiedWithout(u, x),
                 securityEvents' \in {securityEvents, EventsVerified(u, x)},
                 \A s \in SessionIds : OwnerOf[s] # u => sessionTokens'[s] = sessionTokens[s],
                 UNCHANGED <<keyFetchTokens, devices>>
          PROVE  One
      <4>1. Only(u) BY <3>2, RowsSame, OthersEvents, OthersUnverified DEF Only
      <4> QED BY <4>1
    <3>3. ASSUME NEW c \in Connections, NEW u \in Uids, NEW x \in VerificationIds,
                 VerifyTokenEvents(c, u, x)
          PROVE  One
      BY <3>3, <3>1 DEF VerifyTokenEvents
    <3>4. ASSUME NEW c \in Connections, NEW u \in Uids, NEW k \in CodeHashes,
                 VerifyTokenCodeLookup(c, u, k)
          PROVE  One
      BY <3>4, <2>1 DEF VerifyTokenCodeLookup
    <3>5. ASSUME NEW c \in Connections, VerifyTokenRows(c) PROVE One
      <4>1. calls[c].uid \in Uids BY <3>5, CallFields DEF VerifyTokenRows
      <4> QED BY <3>5, <4>1, <3>2 DEF VerifyTokenRows
    <3>6. ASSUME NEW c \in Connections, VerifyTokenCodeCommit(c) PROVE One
      <4>1. calls[c].uid \in Uids BY <3>6, CallFields DEF VerifyTokenCodeCommit
      <4> QED BY <3>6, <4>1, <3>2 DEF VerifyTokenCodeCommit
    <3>7. ASSUME NEW s \in SessionIds, NEW m \in Methods, VerifyTokensWithMethod(s, m) PROVE One
      <4>1. s \in TokenIds /\ OwnerOf[s] \in Uids BY OwnerType DEF TokenIds
      <4>2. \A o \in SessionIds : OwnerOf[o] # OwnerOf[s] => sessionTokens'[o] = sessionTokens[o]
        BY <3>7 DEF VerifyTokensWithMethod, TypeOK
      <4>3. CASE unverifiedTokens[s] = None
        <5>1. Only(OwnerOf[s])
          BY <3>7, <4>2, <4>3, RowsSame DEF Only, VerifyTokensWithMethod
        <5> QED BY <4>1, <5>1
      <4>4. CASE unverifiedTokens[s] # None
        <5>1. unverifiedTokens[s].uid = OwnerOf[s] BY <4>1, <4>4 DEF UnverifiedRowsOwned
        <5> QED BY <3>7, <4>1, <4>2, <4>4, <5>1, <3>2 DEF VerifyTokensWithMethod
      <4> QED BY <4>3, <4>4
    <3>8. ASSUME NEW t \in TokenIds, ExpireCode(t) PROVE One
      <4>1. Only(OwnerOf[t]) BY <3>8, RowsSame DEF Only, ExpireCode, TypeOK
      <4> QED BY <4>1, OwnerType
    <3> QED BY <2>3, <3>3, <3>4, <3>5, <3>6, <3>7, <3>8 DEF VerifyStep
  <2>4. CASE EventStep
    <3>1. ASSUME NEW c \in Connections, NEW u \in Uids, NEW t \in TokenIds,
                 SecurityEventLookup(c, u, t)
          PROVE  One
      BY <3>1, <2>1 DEF SecurityEventLookup
    <3>2. ASSUME NEW c \in Connections, SecurityEventInsert(c) PROVE One
      <4>1. calls[c].uid \in Uids BY <3>2, CallFields DEF SecurityEventInsert
      <4>2. PICK f : f.uid = calls[c].uid /\ securityEvents' = securityEvents \cup {f}
        BY <3>2 DEF SecurityEventInsert
      <4>3. Only(calls[c].uid) BY <3>2, <4>2, RowsSame DEF Only, SecurityEventInsert
      <4> QED BY <4>1, <4>3
    <3> QED BY <2>4, <3>1, <3>2 DEF EventStep
  <2>5. CASE DeviceStep
    <3>1. ASSUME NEW u \in Uids, NEW d \in DeviceIds, NEW s,
                 CreateDevice(u, d, s) \/ UpdateDevice(u, d, s)
          PROVE  One
      <4>1. Only(u) BY <3>1, RowsSame DEF Only, CreateDevice, UpdateDevice, TypeOK
      <4> QED BY <4>1
    <3>2. ASSUME NEW c \in Connections, NEW u \in Uids, NEW d \in DeviceIds,
                 DeleteDeviceSelect(c, u, d)
          PROVE  One
      BY <3>2, <2>1 DEF DeleteDeviceSelect
    <3>3. ASSUME NEW c \in Connections, DeleteDeviceRows(c) PROVE One
      <4> DEFINE u == calls[c].uid
                 d == calls[c].id
                 gone == {s \in SessionIds : UsesSession(u, d, s) /\ sessionTokens[s] # None}
      <4>1. u \in Uids /\ d \in DeviceIds BY <3>3, CallFields DEF DeleteDeviceRows
      <4>2. gone \subseteq SessionIds /\ \A s \in gone : OwnerOf[s] = u
        BY <4>1 DEF DevicesOwnSessions, UsesSession
      <4>3. /\ \A s \in SessionIds \ gone : sessionTokens'[s] = sessionTokens[s]
            /\ \A t \in TokenIds \ gone : unverifiedTokens'[t] = unverifiedTokens[t]
            /\ \A v \in Uids \ {u} : devices'[v] = devices[v]
            /\ UNCHANGED <<keyFetchTokens, securityEvents>>
        BY <3>3 DEF DeleteDeviceRows, UnverifiedWithoutTokens, TypeOK
      <4> HIDE DEF u, d, gone
      <4>4. Only(u) BY <4>2, <4>3, RowsSame DEF Only
      <4> QED BY <4>1, <4>4
    <3> QED BY <2>5, <3>1, <3>2, <3>3 DEF DeviceStep
  <2>6. CASE AccountStep
    <3>1. ASSUME NEW u \in Uids, ResetAccount(u) \/ DeleteAccount(u) PROVE One
      <4>1. DeleteTokensOf(u) BY <3>1 DEF ResetAccount, DeleteAccount
      <4>2. \A e : e.uid # u => (e \in securityEvents' <=> e \in securityEvents)
        BY <3>1 DEF ResetAccount, DeleteAccount
      <4>3. /\ \A s \in SessionIds : OwnerOf[s] # u => sessionTokens'[s] = sessionTokens[s]
            /\ \A t \in KeyFetchIds : OwnerOf[t] # u => keyFetchTokens'[t] = keyFetchTokens[t]
            /\ \A v \in Uids \ {u} : devices'[v] = devices[v]
        BY <4>1 DEF DeleteTokensOf, SessionsOf, TokensOwned, TypeOK
      <4>4. \A t \in TokenIds : OwnerOf[t] # u => unverifiedTokens'[t] = unverifiedTokens[t]
        BY <4>1 DEF DeleteTokensOf, UnverifiedRowsOwned
      <4>5. Only(u) BY <4>2, <4>3, <4>4, RowsSame DEF Only
      <4> QED BY <4>5
    <3>2. ASSUME NEW c \in Connections, ConnectionLost(c) PROVE One
      <4>1. calls[c].uid \in Uids BY <3>2 DEF ConnectionLost, TypeOK, Call
      <4> QED BY <3>2, <4>1, <2>1 DEF ConnectionLost
    <3> QED BY <1>1, <2>6, <3>1, <3>2 DEF AccountStep
  <2> QED BY <1>1, <2>2, <2>3, <2>4, <2>5, <2>6 DEF Next
<1>2. IInv /\ [Next]_vars => [Pruned \/ One]_vars BY <1>1
<1> QED BY <1>2, InductiveInvariant, PTL DEF Spec, OneAccountPerStep
=============================================================================
