-------------------------- MODULE MemTokens_proofs --------------------------
(* Theorems about MemTokens, for every value of its constants.             *)
EXTENDS MemTokens, TLAPS

(* What a callback holds has the fields and types of its function.         *)
LEMMA CallFields ==
  ASSUME TypeOK, NEW r \in Requests
  PROVE  /\ calls[r].proc \in {"createDevice", "updateDevice"} =>
              /\ calls[r].uid \in Uids /\ calls[r].id \in DeviceIds
              /\ calls[r].sessionTokenId \in SessionIds \cup {NULL}
         /\ calls[r].proc = "deleteDevice" =>
              calls[r].uid \in Uids /\ calls[r].id \in DeviceIds
         /\ calls[r].proc \in {"resetAccount", "deleteAccount"} => calls[r].uid \in Uids
         /\ calls[r].proc \in {"sessionDevices", "sessionRows", "verifyFirst", "setMethod"} =>
              calls[r].sessionTokenId \in SessionIds
         /\ calls[r].proc \in {"verifyFirst", "setMethod"} => calls[r].method \in Methods
         /\ calls[r].proc = "verifyFirst" => calls[r].tokenVerificationId \in VerificationIds
BY DEF TypeOK, Idle, AccountCall, TokenCall

(* The objects that the functions build have the right fields, so none of  *)
(* them is undefined.                                                      *)
LEMMA NewObjects ==
  /\ \A m \in BOOLEAN, v \in Methods \cup {NULL}, d \in DeviceIds \cup {NULL} :
       [mustVerify |-> m, verificationMethod |-> v, deviceKey |-> d] \in Session
  /\ \A x \in VerificationIds, m \in BOOLEAN, k \in CodeHashes \cup {NULL}, b \in BOOLEAN :
       [tokenVerificationId |-> x, mustVerify |-> m, codeHash |-> k, expired |-> b]
         \in UnverifiedToken
  /\ \A o \in Session : /\ \A m \in BOOLEAN : [o EXCEPT !.mustVerify = m] \in Session
                        /\ \A v \in Methods : [o EXCEPT !.verificationMethod = v] \in Session
                        /\ \A d \in DeviceIds \cup {NULL} : [o EXCEPT !.deviceKey = d] \in Session
  /\ \A o \in UnverifiedToken : /\ [o EXCEPT !.mustVerify = TRUE] \in UnverifiedToken
                                /\ [o EXCEPT !.expired = TRUE] \in UnverifiedToken
  /\ None \notin Session /\ None \notin UnverifiedToken
BY MemAssumption DEF Session, UnverifiedToken

(* Verifying tokens leaves objects of the right types.                     *)
LEMMA VerifyType ==
  ASSUME TypeOK, NEW u \in Uids, NEW x, VerifyTokensOf(u, x)
  PROVE  /\ unverifiedTokens' \in [TokenIds -> UnverifiedToken \cup {None}]
         /\ securityEvents' \subseteq SecurityEvent
<1>1. unverifiedTokens' \in [TokenIds -> UnverifiedToken \cup {None}]
  BY DEF VerifyTokensOf, TypeOK
<1>2. \A e \in SecurityEvent : [e EXCEPT !.verified = TRUE] \in SecurityEvent
  BY DEF SecurityEvent
<1>3. QED
  BY <1>1, <1>2 DEF VerifyTokensOf, TypeOK

(* Functions without promises keep the types.                              *)
LEMMA TokenStepType == TypeOK /\ TokenStep => TypeOK'
<1> SUFFICES ASSUME TypeOK, TokenStep PROVE TypeOK'
  OBVIOUS
<1>1. ASSUME NEW s \in SessionIds, NEW m \in BOOLEAN, NEW x \in VerificationIds \cup {NULL},
             NEW k \in CodeHashes \cup {NULL}, CreateSessionToken(s, m, x, k)
      PROVE  TypeOK'
  <2>1. [mustVerify |-> m, verificationMethod |-> NULL, deviceKey |-> NULL] \in Session
    BY NewObjects
  <2>2. x # NULL =>
          [tokenVerificationId |-> x, mustVerify |-> m, codeHash |-> k, expired |-> FALSE]
            \in UnverifiedToken
    BY NewObjects
  <2>3. QED
    BY <1>1, <2>1, <2>2 DEF CreateSessionToken, TypeOK, TokenIds
<1>2. ASSUME NEW s \in SessionIds, NEW m \in BOOLEAN, UpdateSessionToken(s, m)
      PROVE  TypeOK'
  BY <1>2, NewObjects DEF UpdateSessionToken, TypeOK, TokenIds
<1>3. ASSUME NEW t \in KeyFetchIds, NEW x \in VerificationIds \cup {NULL},
             CreateKeyFetchToken(t, x)
      PROVE  TypeOK'
  <2>1. x # NULL =>
          [tokenVerificationId |-> x, mustVerify |-> FALSE, codeHash |-> NULL, expired |-> FALSE]
            \in UnverifiedToken
    BY NewObjects
  <2>2. QED
    BY <1>3, <2>1 DEF CreateKeyFetchToken, TypeOK, TokenIds
<1>4. ASSUME NEW t \in KeyFetchIds, DeleteKeyFetchToken(t)
      PROVE  TypeOK'
  BY <1>4 DEF DeleteKeyFetchToken, TypeOK
<1>5. ASSUME NEW u \in Uids, NEW x, VerifyTokens(u, x)
      PROVE  TypeOK'
  BY <1>5, VerifyType DEF VerifyTokens, TypeOK
<1>6. ASSUME NEW u \in Uids, NEW k \in CodeHashes, VerifyTokenCode(u, k)
      PROVE  TypeOK'
  BY <1>6, <1>5 DEF VerifyTokenCode
<1>7. ASSUME NEW t \in TokenIds, ExpireCode(t)
      PROVE  TypeOK'
  BY <1>7, NewObjects DEF ExpireCode, TypeOK
<1>8. ASSUME NEW u \in Uids, NEW t \in TokenIds \cup {NULL}, CreateSecurityEvent(u, t)
      PROVE  TypeOK'
  <2>1. PICK e : /\ e = [uid |-> u, tokenId |-> t,
                         verified |-> t = NULL \/ unverifiedTokens[t] = None]
                 /\ securityEvents' = securityEvents \cup {e}
    BY <1>8 DEF CreateSecurityEvent
  <2>2. (t = NULL \/ unverifiedTokens[t] = None) \in BOOLEAN
    OBVIOUS
  <2>3. e \in SecurityEvent
    BY <2>1, <2>2 DEF SecurityEvent
  <2>4. QED
    BY <1>8, <2>1, <2>3 DEF CreateSecurityEvent, TypeOK
<1>9. QED
  BY <1>1, <1>2, <1>3, <1>4, <1>5, <1>6, <1>7, <1>8 DEF TokenStep

(* A step that starts a call changes nothing but what the request holds.   *)
LEMMA CallStepCases ==
  ASSUME CallStep
  PROVE  \E r \in Requests :
           /\ calls[r] = Idle
           /\ UNCHANGED <<tables, issued>>
           /\ \/ \E s \in SessionIds : Continue(r, DeletionOf(s))
              \/ \E s \in SessionIds, m \in Methods : VerifyTokensWithMethod(r, s, m)
              \/ \E c \in AccountCall :
                   /\ c.proc \in {"createDevice", "updateDevice"} =>
                        c.sessionTokenId \in {NULL} \cup {s \in issued : OwnerOf[s] = c.uid}
                   /\ Continue(r, c)
BY DEF CallStep, DeleteSessionToken, VerifyTokensWithMethod, AccountFound

(* Starting a call keeps the types.                                        *)
LEMMA CallStepType == TypeOK /\ CallStep => TypeOK'
<1> SUFFICES ASSUME TypeOK, CallStep PROVE TypeOK'
  OBVIOUS
<1>1. PICK r \in Requests :
        /\ UNCHANGED <<tables, issued>>
        /\ \/ \E s \in SessionIds : Continue(r, DeletionOf(s))
           \/ \E s \in SessionIds, m \in Methods : VerifyTokensWithMethod(r, s, m)
           \/ \E c \in AccountCall : Continue(r, c)
  BY CallStepCases
<1>2. \A s \in SessionIds : DeletionOf(s) \in {Idle} \cup TokenCall
  BY DEF DeletionOf, TokenCall
<1>3. ASSUME NEW s \in SessionIds, NEW m \in Methods, VerifyTokensWithMethod(r, s, m)
      PROVE  \E c \in TokenCall : Continue(r, c)
  BY <1>3 DEF VerifyTokensWithMethod, TokenCall, TypeOK, UnverifiedToken, TokenIds
<1>4. \E c \in {Idle} \cup AccountCall \cup TokenCall : Continue(r, c)
  BY <1>1, <1>2, <1>3
<1>5. QED
  BY <1>1, <1>4 DEF Continue, TypeOK, tables

(* Recording which device a session has leaves sessions.                   *)
LEMMA SessionsType ==
  ASSUME TypeOK, NEW S \in [SessionIds -> Session \cup {None}]
  PROVE  /\ \A s \in SessionIds, d \in DeviceIds \cup {NULL} : S[s] # None =>
              [S EXCEPT ![s].deviceKey = d] \in [SessionIds -> Session \cup {None}]
         /\ \A s \in SessionIds \cup {NULL} :
              WithoutDevice(s) \in [SessionIds -> Session \cup {None}]
BY NewObjects DEF TypeOK, WithoutDevice

(* Writing a device keeps the types of devices and sessions.               *)
LEMMA WriteDeviceType ==
  ASSUME TypeOK, NEW u \in Uids, NEW d \in DeviceIds, NEW s \in SessionIds \cup {NULL},
         NEW S \in [SessionIds -> Session \cup {None}], WriteDevice(u, d, s, S)
  PROVE  /\ devices' \in [Uids -> [DeviceIds -> SessionIds \cup {NULL, None}]]
         /\ sessionTokens' \in [SessionIds -> Session \cup {None}]
BY SessionsType DEF WriteDevice, TypeOK

(* Deleting the tokens of an account leaves objects of the right types.    *)
LEMMA DeleteTokensType ==
  ASSUME TypeOK, NEW u, DeleteTokensOf(u)
  PROVE  /\ sessionTokens' \in [SessionIds -> Session \cup {None}]
         /\ keyFetchTokens' \subseteq KeyFetchIds
         /\ unverifiedTokens' \in [TokenIds -> UnverifiedToken \cup {None}]
BY DEF DeleteTokensOf, TypeOK

(* Callbacks keep the types.                                               *)
LEMMA CallbackStepType == TypeOK /\ CallbackStep => TypeOK'
<1> SUFFICES ASSUME TypeOK, NEW r \in Requests,
                    \/ DeleteSessionDevices(r) \/ DeleteSessionRows(r)
                    \/ VerifyFirst(r) \/ SetMethod(r)
                    \/ CreateDevice(r) \/ UpdateDevice(r) \/ DeleteDevice(r)
                    \/ ResetAccount(r) \/ DeleteAccount(r)
             PROVE  TypeOK'
  BY DEF CallbackStep
<1>a. OwnerOf \in [TokenIds -> Uids] /\ SessionIds \subseteq TokenIds
  BY MemAssumption DEF TokenIds
<1>b. \A c \in {Idle} \cup TokenCall :
        Continue(r, c) => calls' \in [Requests -> {Idle} \cup AccountCall \cup TokenCall]
  BY DEF Continue, TypeOK
<1>c. Done(r) => calls' \in [Requests -> {Idle} \cup AccountCall \cup TokenCall]
  BY <1>b DEF Done
<1>d. \A s \in SessionIds : /\ DeletionOf(s) \in {Idle} \cup TokenCall
                             /\ [proc |-> "sessionRows", sessionTokenId |-> s] \in TokenCall
  BY DEF DeletionOf, TokenCall
<1>1. CASE DeleteSessionDevices(r)
  BY <1>1, <1>a, <1>b, <1>d, CallFields DEF DeleteSessionDevices, TypeOK
<1>2. CASE DeleteSessionRows(r)
  BY <1>2, <1>a, <1>c, CallFields DEF DeleteSessionRows, TypeOK
<1>3. CASE VerifyFirst(r)
  <2>1. /\ OwnerOf[calls[r].sessionTokenId] \in Uids
        /\ calls[r].sessionTokenId \in SessionIds /\ calls[r].method \in Methods
    BY <1>3, <1>a, CallFields DEF VerifyFirst
  <2>2. [proc |-> "setMethod", method |-> calls[r].method,
         sessionTokenId |-> calls[r].sessionTokenId] \in TokenCall
    BY <2>1 DEF TokenCall
  <2>3. /\ unverifiedTokens' \in [TokenIds -> UnverifiedToken \cup {None}]
        /\ securityEvents' \subseteq SecurityEvent
    BY <1>3, <2>1, VerifyType DEF VerifyFirst, TypeOK
  <2>4. QED
    BY <1>3, <1>b, <1>c, <2>2, <2>3 DEF VerifyFirst, TypeOK
<1>4. CASE SetMethod(r)
  <2>1. calls[r].sessionTokenId \in SessionIds /\ calls[r].method \in Methods
    BY <1>4, CallFields DEF SetMethod
  <2>2. sessionTokens' \in [SessionIds -> Session \cup {None}]
    BY <1>4, <2>1, NewObjects DEF SetMethod, TypeOK
  <2>3. QED
    BY <1>4, <1>c, <2>2 DEF SetMethod, TypeOK
<1>5. CASE CreateDevice(r)
  <2>1. /\ calls[r].uid \in Uids /\ calls[r].id \in DeviceIds
        /\ calls[r].sessionTokenId \in SessionIds \cup {NULL}
    BY <1>5, CallFields DEF CreateDevice
  <2>2. QED
    BY <1>5, <1>c, <2>1, WriteDeviceType DEF CreateDevice, TypeOK
<1>6. CASE UpdateDevice(r)
  <2> DEFINE u == calls[r].uid
             d == calls[r].id
             old == devices[u][d]
             new == IF calls[r].sessionTokenId = NULL THEN old ELSE calls[r].sessionTokenId
             told == IF new = old THEN sessionTokens ELSE WithoutDevice(old)
  <2>1. /\ u \in Uids /\ d \in DeviceIds
        /\ calls[r].sessionTokenId \in SessionIds \cup {NULL}
    BY <1>6, CallFields DEF UpdateDevice
  <2>2. CASE old = None
    BY <1>6, <1>c, <2>2 DEF UpdateDevice, TypeOK
  <2>3. CASE old # None
    <3>1. old \in SessionIds \cup {NULL} /\ new \in SessionIds \cup {NULL}
      BY <2>1, <2>3 DEF TypeOK
    <3>2. told \in [SessionIds -> Session \cup {None}]
      BY <3>1, SessionsType DEF TypeOK
    <3>3. (sessionTokens' = told /\ UNCHANGED devices) \/ WriteDevice(u, d, new, told)
      BY <1>6, <2>3 DEF UpdateDevice
    <3> HIDE DEF u, d, old, new, told
    <3>4. /\ devices' \in [Uids -> [DeviceIds -> SessionIds \cup {NULL, None}]]
          /\ sessionTokens' \in [SessionIds -> Session \cup {None}]
      BY <2>1, <3>1, <3>2, <3>3, WriteDeviceType DEF TypeOK
    <3>5. QED
      BY <1>6, <1>c, <3>4 DEF UpdateDevice, TypeOK
  <2>4. QED
    BY <2>2, <2>3
<1>7. CASE DeleteDevice(r)
  <2>1. calls[r].uid \in Uids /\ calls[r].id \in DeviceIds
    BY <1>7, CallFields DEF DeleteDevice
  <2>2. devices' \in [Uids -> [DeviceIds -> SessionIds \cup {NULL, None}]]
    BY <1>7, <2>1 DEF DeleteDevice, TypeOK
  <2>3. \E c \in {Idle} \cup TokenCall : Continue(r, c)
    BY <1>7, <1>d, <2>1 DEF DeleteDevice, TypeOK
  <2>4. QED
    BY <1>7, <1>b, <2>2, <2>3 DEF DeleteDevice, TypeOK
<1>8. CASE ResetAccount(r)
  <2>1. calls[r].uid \in Uids
    BY <1>8, CallFields DEF ResetAccount
  <2>2. QED
    BY <1>8, <1>c, <2>1, DeleteTokensType DEF ResetAccount, TypeOK
<1>9. CASE DeleteAccount(r)
  BY <1>9, <1>c, DeleteTokensType DEF DeleteAccount, TypeOK
<1>10. QED
  BY <1>1, <1>2, <1>3, <1>4, <1>5, <1>6, <1>7, <1>8, <1>9

(* The store has no objects at first.                                      *)
LEMMA InitType == Init => TypeOK
BY DEF Init, TypeOK

(* Accounts, tokens, devices, events and callbacks keep their types.       *)
THEOREM TypeCorrect == Spec => []TypeOK
<1>1. TypeOK /\ UNCHANGED vars => TypeOK'
  BY DEF TypeOK, vars, tables
<1>2. TypeOK /\ [Next]_vars => TypeOK'
  BY <1>1, TokenStepType, CallStepType, CallbackStepType DEF Next
<1>3. QED
  BY <1>2, InitType, PTL DEF Spec

-----------------------------------------------------------------------------
(* The invariant.                                                          *)

(* What a session is apart from its device.                                *)
SameButDevices(S, Q) ==
  \A s \in SessionIds :
    /\ Q[s] = None <=> S[s] = None
    /\ S[s] # None => /\ Q[s].verificationMethod = S[s].verificationMethod
                      /\ Q[s].mustVerify = S[s].mustVerify

(* Devices change nothing else of a session.                               *)
LEMMA DeviceWrites ==
  ASSUME TypeOK
  PROVE  /\ \A s \in SessionIds \cup {NULL} : SameButDevices(sessionTokens, WithoutDevice(s))
         /\ \A S \in [SessionIds -> Session \cup {None}] :
              \A u \in Uids, d \in DeviceIds, s \in SessionIds \cup {NULL} :
                WriteDevice(u, d, s, S) => SameButDevices(S, sessionTokens')
<1>1. \A o \in Session, d \in DeviceIds \cup {NULL} :
        /\ [o EXCEPT !.deviceKey = d] # None /\ o # None
        /\ [o EXCEPT !.deviceKey = d].verificationMethod = o.verificationMethod
        /\ [o EXCEPT !.deviceKey = d].mustVerify = o.mustVerify
  <2>1. \A o \in Session, d \in DeviceIds \cup {NULL} :
          /\ [o EXCEPT !.deviceKey = d].verificationMethod = o.verificationMethod
          /\ [o EXCEPT !.deviceKey = d].mustVerify = o.mustVerify
    BY DEF Session
  <2>2. QED
    BY <2>1, NewObjects
<1>2. \A S \in [SessionIds -> Session \cup {None}], s \in SessionIds, d \in DeviceIds \cup {NULL} :
        S[s] # None => SameButDevices(S, [S EXCEPT ![s].deviceKey = d])
  BY <1>1 DEF SameButDevices
<1>3. \A S : SameButDevices(S, S)
  BY DEF SameButDevices
<1>4. \A s \in SessionIds \cup {NULL} : SameButDevices(sessionTokens, WithoutDevice(s))
  BY <1>2, <1>3 DEF WithoutDevice, TypeOK
<1>5. ASSUME NEW S \in [SessionIds -> Session \cup {None}], NEW u \in Uids, NEW d \in DeviceIds,
             NEW s \in SessionIds \cup {NULL}, WriteDevice(u, d, s, S)
      PROVE  SameButDevices(S, sessionTokens')
  BY <1>2, <1>3, <1>5 DEF WriteDevice
<1>6. QED
  BY <1>4, <1>5

(* A callback of a device changes at most devices of sessions.             *)
LEMMA DeviceStepSessions ==
  ASSUME TypeOK, NEW r \in Requests, CreateDevice(r) \/ UpdateDevice(r)
  PROVE  SameButDevices(sessionTokens, sessionTokens')
<1>a. /\ calls[r].uid \in Uids /\ calls[r].id \in DeviceIds
      /\ calls[r].sessionTokenId \in SessionIds \cup {NULL}
  BY CallFields DEF CreateDevice, UpdateDevice
<1>b. UNCHANGED sessionTokens => SameButDevices(sessionTokens, sessionTokens')
  BY DEF SameButDevices
<1>1. CASE CreateDevice(r)
  <2>1. sessionTokens \in [SessionIds -> Session \cup {None}]
    BY DEF TypeOK
  <2>2. \/ UNCHANGED sessionTokens
        \/ WriteDevice(calls[r].uid, calls[r].id, calls[r].sessionTokenId, sessionTokens)
    BY <1>1 DEF CreateDevice
  <2>3. QED
    BY <1>a, <1>b, <2>1, <2>2, DeviceWrites
<1>2. CASE UpdateDevice(r)
  <2> DEFINE u == calls[r].uid
             d == calls[r].id
             old == devices[u][d]
             new == IF calls[r].sessionTokenId = NULL THEN old ELSE calls[r].sessionTokenId
             told == IF new = old THEN sessionTokens ELSE WithoutDevice(old)
  <2>1. CASE old = None
    BY <1>2, <1>b, <2>1 DEF UpdateDevice
  <2>2. CASE old # None
    <3>1. old \in SessionIds \cup {NULL} /\ new \in SessionIds \cup {NULL}
      BY <1>a, <2>2 DEF TypeOK
    <3>2. told \in [SessionIds -> Session \cup {None}] /\ SameButDevices(sessionTokens, told)
      BY <3>1, SessionsType, DeviceWrites DEF TypeOK, SameButDevices
    <3>3. sessionTokens' = told \/ WriteDevice(u, d, new, told)
      BY <1>2, <2>2 DEF UpdateDevice
    <3>4. u \in Uids /\ d \in DeviceIds
      BY <1>a
    <3> HIDE DEF u, d, old, new, told
    <3>5. CASE sessionTokens' = told
      BY <3>2, <3>5
    <3>6. CASE WriteDevice(u, d, new, told)
      <4>1. SameButDevices(told, sessionTokens')
        BY <3>1, <3>2, <3>4, <3>6, DeviceWrites
      <4>2. QED
        BY <3>2, <4>1 DEF SameButDevices
    <3>7. QED
      BY <3>3, <3>5, <3>6
  <2>3. QED
    BY <2>1, <2>2
<1>3. QED
  BY <1>1, <1>2

(* Ids, once issued, come to no second token; an unverified token is new   *)
(* or was unverified with the same tokenVerificationId.                    *)
TokensKept ==
  /\ issued \subseteq issued'
  /\ \A t \in TokenIds : TokenExists(t)' => TokenExists(t) \/ (t \notin issued /\ t \in issued')
  /\ \A t \in TokenIds : unverifiedTokens'[t] # None =>
       /\ TokenExists(t)'
       /\ \/ t \notin issued
          \/ /\ unverifiedTokens[t] # None
             /\ unverifiedTokens'[t].tokenVerificationId = unverifiedTokens[t].tokenVerificationId

(* Functions without promises keep tokens apart.                           *)
LEMMA TokenStepKeeps == IInv /\ TypeOK' /\ TokenStep => TokensKept
<1> SUFFICES ASSUME IInv, TypeOK', TokenStep PROVE TokensKept
  OBVIOUS
<1>a. TypeOK /\ UnverifiedTokensExist
  BY DEF IInv
<1>b. SessionIds \cap KeyFetchIds = {} /\ TokenIds = SessionIds \cup KeyFetchIds
  BY MemAssumption DEF TokenIds
<1>1. ASSUME NEW s \in SessionIds, NEW m \in BOOLEAN, NEW x \in VerificationIds \cup {NULL},
             NEW k \in CodeHashes \cup {NULL}, CreateSessionToken(s, m, x, k)
      PROVE  TokensKept
  <2>1. sessionTokens'[s] # None
    <3>1. [mustVerify |-> m, verificationMethod |-> NULL, deviceKey |-> NULL] \in Session
      BY NewObjects
    <3>2. QED
      BY <1>1, <1>a, <3>1, NewObjects DEF CreateSessionToken, TypeOK
  <2>2. QED
    BY <1>1, <1>a, <1>b, <2>1
    DEF CreateSessionToken, TokensKept, TokenExists, TypeOK, UnverifiedTokensExist
<1>2. ASSUME NEW s \in SessionIds, NEW m \in BOOLEAN, UpdateSessionToken(s, m)
      PROVE  TokensKept
  <2>1. \A q \in SessionIds : sessionTokens'[q] = None <=> sessionTokens[q] = None
    BY <1>2, <1>a, NewObjects DEF UpdateSessionToken, TypeOK
  <2>2. \A t \in TokenIds :
          /\ unverifiedTokens'[t] # None => unverifiedTokens[t] # None
          /\ unverifiedTokens'[t].tokenVerificationId = unverifiedTokens[t].tokenVerificationId
    BY <1>2, <1>a, <1>b DEF UpdateSessionToken, TypeOK, UnverifiedToken
  <2>3. QED
    BY <1>2, <1>a, <1>b, <2>1, <2>2
    DEF UpdateSessionToken, TokensKept, TokenExists, UnverifiedTokensExist
<1>3. ASSUME NEW t \in KeyFetchIds, NEW x \in VerificationIds \cup {NULL},
             CreateKeyFetchToken(t, x)
      PROVE  TokensKept
  BY <1>3, <1>a, <1>b
  DEF CreateKeyFetchToken, TokensKept, TokenExists, TypeOK, UnverifiedTokensExist
<1>4. ASSUME NEW t \in KeyFetchIds, DeleteKeyFetchToken(t)
      PROVE  TokensKept
  BY <1>4, <1>a, <1>b
  DEF DeleteKeyFetchToken, TokensKept, TokenExists, TypeOK, UnverifiedTokensExist
<1>5. ASSUME NEW u \in Uids, NEW x, VerifyTokens(u, x)
      PROVE  TokensKept
  BY <1>5, <1>a
  DEF VerifyTokens, VerifyTokensOf, TokensKept, TokenExists, TypeOK, UnverifiedTokensExist
<1>6. ASSUME NEW u \in Uids, NEW k \in CodeHashes, VerifyTokenCode(u, k)
      PROVE  TokensKept
  BY <1>6, <1>5 DEF VerifyTokenCode
<1>7. ASSUME NEW t \in TokenIds, ExpireCode(t)
      PROVE  TokensKept
  BY <1>7, <1>a
  DEF ExpireCode, TokensKept, TokenExists, TypeOK, UnverifiedTokensExist, UnverifiedToken
<1>8. ASSUME NEW u \in Uids, NEW t \in TokenIds \cup {NULL}, CreateSecurityEvent(u, t)
      PROVE  TokensKept
  BY <1>8, <1>a DEF CreateSecurityEvent, TokensKept, TokenExists, UnverifiedTokensExist
<1>9. QED
  BY <1>1, <1>2, <1>3, <1>4, <1>5, <1>6, <1>7, <1>8 DEF TokenStep

(* So do callbacks.                                                        *)
LEMMA CallbackKeeps ==
  ASSUME IInv, TypeOK', CallbackStep
  PROVE  TokensKept
<1> SUFFICES ASSUME NEW r \in Requests,
                    \/ DeleteSessionDevices(r) \/ DeleteSessionRows(r)
                    \/ VerifyFirst(r) \/ SetMethod(r)
                    \/ CreateDevice(r) \/ UpdateDevice(r) \/ DeleteDevice(r)
                    \/ ResetAccount(r) \/ DeleteAccount(r)
             PROVE  TokensKept
  BY DEF CallbackStep
<1>a. TypeOK /\ UnverifiedTokensExist
  BY DEF IInv
<1>b. SessionIds \cap KeyFetchIds = {} /\ TokenIds = SessionIds \cup KeyFetchIds
  BY MemAssumption DEF TokenIds
<1>1. CASE DeleteSessionDevices(r)
  BY <1>1, <1>a DEF DeleteSessionDevices, TokensKept, TokenExists, UnverifiedTokensExist
<1>2. CASE DeleteSessionRows(r)
  BY <1>2, <1>a, <1>b, CallFields
  DEF DeleteSessionRows, TokensKept, TokenExists, TypeOK, UnverifiedTokensExist
<1>3. CASE VerifyFirst(r)
  BY <1>3, <1>a
  DEF VerifyFirst, VerifyTokensOf, TokensKept, TokenExists, TypeOK, UnverifiedTokensExist
<1>4. CASE SetMethod(r)
  <2>1. \A q \in SessionIds : sessionTokens'[q] = None <=> sessionTokens[q] = None
    BY <1>4, <1>a, CallFields, NewObjects DEF SetMethod, TypeOK
  <2>2. QED
    BY <1>4, <1>a, <2>1 DEF SetMethod, TokensKept, TokenExists, UnverifiedTokensExist
<1>5. CASE CreateDevice(r) \/ UpdateDevice(r)
  <2>1. \A q \in SessionIds : sessionTokens'[q] = None <=> sessionTokens[q] = None
    BY <1>5, <1>a, DeviceStepSessions DEF SameButDevices
  <2>2. QED
    BY <1>5, <1>a, <2>1
    DEF CreateDevice, UpdateDevice, TokensKept, TokenExists, UnverifiedTokensExist
<1>6. CASE DeleteDevice(r)
  BY <1>6, <1>a DEF DeleteDevice, TokensKept, TokenExists, UnverifiedTokensExist
<1>7. CASE ResetAccount(r) \/ DeleteAccount(r)
  <2>1. DeleteTokensOf(calls[r].uid) /\ UNCHANGED issued
    BY <1>7 DEF ResetAccount, DeleteAccount
  <2>2. QED
    BY <2>1, <1>a, <1>b
    DEF DeleteTokensOf, TokensKept, TokenExists, TypeOK, UnverifiedTokensExist
<1>8. QED
  BY <1>1, <1>2, <1>3, <1>4, <1>5, <1>6, <1>7

(* The request whose callback runs.                                        *)
LEMMA CallbackCases ==
  ASSUME CallbackStep
  PROVE  \E r \in Requests :
           \/ DeleteSessionDevices(r) \/ DeleteSessionRows(r)
           \/ VerifyFirst(r) \/ SetMethod(r)
           \/ CreateDevice(r) \/ UpdateDevice(r) \/ DeleteDevice(r)
           \/ ResetAccount(r) \/ DeleteAccount(r)
BY DEF CallbackStep

(* Functions without promises change no accounts, devices or callbacks.    *)
LEMMA TokenStepFrame == TokenStep => UNCHANGED <<accounts, devices, calls>>
BY DEF TokenStep, CreateSessionToken, UpdateSessionToken, CreateKeyFetchToken,
       DeleteKeyFetchToken, VerifyTokens, VerifyTokenCode, ExpireCode, CreateSecurityEvent

(* Every step keeps tokens apart.                                          *)
LEMMA NextKeeps == IInv /\ TypeOK' /\ [Next]_vars => TokensKept
<1> SUFFICES ASSUME IInv, TypeOK', [Next]_vars PROVE TokensKept
  OBVIOUS
<1>1. CASE CallStep \/ UNCHANGED vars
  <2>1. UNCHANGED <<tables, issued>>
    BY <1>1, CallStepCases DEF vars
  <2>2. QED
    BY <2>1 DEF tables, TokensKept, TokenExists, IInv, UnverifiedTokensExist
<1>2. QED
  BY <1>1, TokenStepKeeps, CallbackKeeps DEF Next

(* Every event is a new one, or an old one, verified or not.               *)
EventsKept ==
  \A e \in securityEvents' :
    \/ \E o \in securityEvents : o.uid = e.uid /\ o.tokenId = e.tokenId
    \/ e.tokenId \in issued \cup {NULL}

(* No step makes an event for a token that was not issued.                 *)
LEMMA NextKeepsEvents == IInv /\ [Next]_vars => EventsKept
<1> SUFFICES ASSUME IInv, [Next]_vars PROVE EventsKept
  OBVIOUS
<1>a. TypeOK
  BY DEF IInv
<1>1. ASSUME securityEvents' \subseteq securityEvents PROVE EventsKept
  BY <1>1 DEF EventsKept
<1>2. ASSUME NEW u, NEW x, VerifyTokensOf(u, x) PROVE EventsKept
  BY <1>2, <1>a DEF VerifyTokensOf, EventsKept, TypeOK, SecurityEvent
<1>3. ASSUME NEW u \in Uids, NEW t \in TokenIds \cup {NULL}, CreateSecurityEvent(u, t)
      PROVE  EventsKept
  BY <1>3 DEF CreateSecurityEvent, EventsKept
<1>4. CASE TokenStep
  BY <1>1, <1>2, <1>3, <1>4
  DEF TokenStep, CreateSessionToken, UpdateSessionToken, CreateKeyFetchToken,
      DeleteKeyFetchToken, VerifyTokens, VerifyTokenCode, ExpireCode
<1>5. CASE CallStep \/ UNCHANGED vars
  BY <1>1, <1>5, CallStepCases DEF vars, tables
<1>6. CASE CallbackStep
  BY <1>1, <1>2, <1>6
  DEF CallbackStep, DeleteSessionDevices, DeleteSessionRows, VerifyFirst, SetMethod, CreateDevice,
      UpdateDevice, DeleteDevice, ResetAccount, DeleteAccount
<1>7. QED
  BY <1>4, <1>5, <1>6 DEF Next

(* What a request that waits for a token holds was there before, or it has *)
(* just found the session, or just verified it.                            *)
WaitsKept ==
  \A r \in Requests :
    /\ calls'[r].proc = "verifyFirst" =>
         \/ calls'[r] = calls[r]
         \/ LET s == calls'[r].sessionTokenId
            IN  /\ s \in SessionIds /\ sessionTokens[s] # None /\ UNCHANGED unverifiedTokens
                /\ calls'[r].tokenVerificationId = unverifiedTokens[s].tokenVerificationId
    /\ calls'[r].proc = "setMethod" =>
         \/ calls'[r] = calls[r]
         \/ LET s == calls'[r].sessionTokenId
            IN  /\ s \in SessionIds /\ sessionTokens[s] # None /\ unverifiedTokens'[s] = None
                /\ UNCHANGED unverifiedTokens
         \/ /\ calls[r].proc = "verifyFirst" /\ calls'[r].sessionTokenId = calls[r].sessionTokenId
            /\ VerifyTokensOf(OwnerOf[calls[r].sessionTokenId], calls[r].tokenVerificationId)

(* No step makes a request wait in any other way.                          *)
LEMMA NextKeepsWaits == IInv /\ TypeOK' /\ [Next]_vars => WaitsKept
<1> SUFFICES ASSUME IInv, TypeOK', [Next]_vars PROVE WaitsKept
  OBVIOUS
<1>a. TypeOK
  BY DEF IInv
<1>1. ASSUME UNCHANGED calls PROVE WaitsKept
  BY <1>1 DEF WaitsKept
<1>2. ASSUME NEW r \in Requests, NEW c, Continue(r, c),
             c.proc \notin {"verifyFirst", "setMethod"}
      PROVE  WaitsKept
  BY <1>2, <1>a DEF WaitsKept, Continue, TypeOK
<1>3. \A c \in AccountCall : c.proc \notin {"verifyFirst", "setMethod"}
  BY DEF AccountCall
<1>4. \A s \in SessionIds : DeletionOf(s).proc \notin {"verifyFirst", "setMethod"}
  BY DEF DeletionOf, Idle
<1>5. ASSUME NEW r \in Requests, Done(r) PROVE WaitsKept
  BY <1>2, <1>5 DEF Done, Idle
<1>6. CASE TokenStep \/ UNCHANGED vars
  BY <1>1, <1>6, TokenStepFrame DEF vars
<1>7. CASE CallStep
  <2>1. PICK r \in Requests :
          /\ UNCHANGED <<tables, issued>>
          /\ \/ \E s \in SessionIds : Continue(r, DeletionOf(s))
             \/ \E s \in SessionIds, m \in Methods : VerifyTokensWithMethod(r, s, m)
             \/ \E c \in AccountCall : Continue(r, c)
    BY <1>7, CallStepCases
  <2>2. ASSUME NEW s \in SessionIds, NEW m \in Methods, VerifyTokensWithMethod(r, s, m)
        PROVE  WaitsKept
    BY <2>2, <1>a DEF VerifyTokensWithMethod, WaitsKept, Continue, TypeOK, tables
  <2>3. QED
    BY <1>2, <1>3, <1>4, <2>1, <2>2
<1>8. CASE CallbackStep
  <2>1. PICK r \in Requests :
          \/ DeleteSessionDevices(r) \/ DeleteSessionRows(r)
          \/ VerifyFirst(r) \/ SetMethod(r)
          \/ CreateDevice(r) \/ UpdateDevice(r) \/ DeleteDevice(r)
          \/ ResetAccount(r) \/ DeleteAccount(r)
    BY <1>8, CallbackCases
  <2>2. CASE VerifyFirst(r)
    <3>1. CASE Done(r)
      BY <1>5, <3>1
    <3>2. CASE ~Done(r)
      BY <1>a, <2>2, <3>2 DEF VerifyFirst, WaitsKept, Continue, TypeOK
    <3>3. QED
      BY <3>1, <3>2
  <2>3. CASE DeleteSessionDevices(r)
    BY <1>2, <2>3 DEF DeleteSessionDevices
  <2>4. CASE DeleteDevice(r)
    <3>1. \E c : Continue(r, c) /\ c.proc \notin {"verifyFirst", "setMethod"}
      <4>1. calls[r].uid \in Uids /\ calls[r].id \in DeviceIds
        BY <1>a, <2>4, CallFields DEF DeleteDevice
      <4>2. QED
        BY <1>a, <1>4, <2>4, <4>1 DEF DeleteDevice, TypeOK, Idle
    <3>2. QED
      BY <1>2, <3>1
  <2>5. QED
    BY <1>5, <2>1, <2>2, <2>3, <2>4
    DEF DeleteSessionRows, SetMethod, CreateDevice, UpdateDevice, ResetAccount, DeleteAccount
<1>9. QED
  BY <1>6, <1>7, <1>8 DEF Next

(* Ids in use, in events and in waiting requests stay issued.              *)
LEMMA IdsIssuedStep ==
  ASSUME IInv, TokensKept, EventsKept, WaitsKept
  PROVE  IdsIssued'
BY DEF IInv, IdsIssued, TokensKept, EventsKept, WaitsKept, TokenExists, TypeOK, TokenIds

(* A session that waits for its method stays verified.                     *)
LEMMA VerifiedFirstStep ==
  ASSUME IInv, TypeOK', TokensKept, WaitsKept
  PROVE  VerifiedFirst'
<1> SUFFICES ASSUME NEW r \in Requests
             PROVE  /\ calls'[r].proc = "setMethod" =>
                         unverifiedTokens'[calls'[r].sessionTokenId] = None
                    /\ calls'[r].proc = "verifyFirst" =>
                         \/ unverifiedTokens'[calls'[r].sessionTokenId] = None
                         \/ unverifiedTokens'[calls'[r].sessionTokenId].tokenVerificationId
                              = calls'[r].tokenVerificationId
  BY DEF VerifiedFirst
<1> DEFINE s == calls[r].sessionTokenId
<1>a. TypeOK /\ VerifiedFirst /\ IdsIssued
  BY DEF IInv
<1>1. CASE calls'[r] = calls[r] /\ calls[r].proc \in {"verifyFirst", "setMethod"}
  <2>1. s \in TokenIds /\ s \in issued
    BY <1>a, <1>1, CallFields DEF IdsIssued, TokenIds
  <2>2. QED
    BY <1>a, <1>1, <2>1 DEF VerifiedFirst, TokensKept
<1>2. CASE /\ calls[r].proc = "verifyFirst" /\ calls'[r].sessionTokenId = s
           /\ calls'[r].proc = "setMethod"
           /\ VerifyTokensOf(OwnerOf[s], calls[r].tokenVerificationId)
  <2>1. s \in TokenIds
    BY <1>a, <1>2, CallFields DEF TokenIds
  <2>2. unverifiedTokens[s] # None => s \in WithVerificationId(OwnerOf[s], calls[r].tokenVerificationId)
    BY <1>a, <1>2, <2>1 DEF VerifiedFirst, WithVerificationId
  <2>3. unverifiedTokens'[s] = None
    BY <1>2, <2>1, <2>2 DEF VerifyTokensOf
  <2>4. QED
    BY <1>2, <2>3
<1>3. QED
  BY <1>1, <1>2 DEF WaitsKept

(* Which tokens are verified changes only by verification; methods are set *)
(* by setMethod only.                                                      *)
StatusKept ==
  \A t \in TokenIds : TokenExists(t) /\ TokenExists(t)' =>
    (unverifiedTokens'[t] = None <=> unverifiedTokens[t] = None)

MethodsKept ==
  \A s \in SessionIds : sessionTokens'[s] # None =>
    \/ sessionTokens'[s].verificationMethod = NULL
    \/ /\ sessionTokens[s] # None
       /\ sessionTokens'[s].verificationMethod = sessionTokens[s].verificationMethod
    \/ \E r \in Requests : calls[r].proc = "setMethod" /\ calls[r].sessionTokenId = s

(* Of the functions without promises only verifyTokens changes which tokens*)
(* are verified, and none sets a method.                                   *)
LEMMA TokenStepStatus ==
  ASSUME IInv, TypeOK', TokenStep
  PROVE  /\ MethodsKept
         /\ \/ StatusKept
            \/ \E u \in Uids, x \in VerificationIds : VerifyTokens(u, x)
<1>a. TypeOK
  BY DEF IInv
<1>b. SessionIds \cap KeyFetchIds = {} /\ TokenIds = SessionIds \cup KeyFetchIds
  BY MemAssumption DEF TokenIds
<1>c. IdsIssued /\ UnverifiedTokensExist
  BY DEF IInv
<1>1. ASSUME NEW s \in SessionIds, NEW m \in BOOLEAN, NEW x \in VerificationIds \cup {NULL},
             NEW k \in CodeHashes \cup {NULL}, CreateSessionToken(s, m, x, k)
      PROVE  MethodsKept /\ StatusKept
  BY <1>1, <1>a, <1>b, <1>c
  DEF CreateSessionToken, MethodsKept, StatusKept, TypeOK, TokenExists, IdsIssued
<1>2. ASSUME NEW s \in SessionIds, NEW m \in BOOLEAN, UpdateSessionToken(s, m)
      PROVE  MethodsKept /\ StatusKept
  <2>1. MethodsKept
    BY <1>2, <1>a DEF UpdateSessionToken, MethodsKept, TypeOK, Session
  <2>2. StatusKept
    <3>1. unverifiedTokens[s] # None => [unverifiedTokens[s] EXCEPT !.mustVerify = TRUE] # None
      <4>1. unverifiedTokens[s] # None => unverifiedTokens[s] \in UnverifiedToken
        BY <1>a, <1>b DEF TypeOK
      <4>2. QED
        BY <4>1, NewObjects
    <3>2. CASE UNCHANGED unverifiedTokens
      BY <3>2 DEF StatusKept
    <3>3. CASE /\ unverifiedTokens[s] # None
               /\ unverifiedTokens' = [unverifiedTokens EXCEPT ![s].mustVerify = TRUE]
      BY <1>a, <3>1, <3>3 DEF StatusKept, TypeOK
    <3>4. QED
      BY <1>2, <3>2, <3>3 DEF UpdateSessionToken
  <2>3. QED
    BY <2>1, <2>2
<1>3. ASSUME NEW t \in KeyFetchIds, NEW x \in VerificationIds \cup {NULL},
             CreateKeyFetchToken(t, x)
      PROVE  MethodsKept /\ StatusKept
  BY <1>3, <1>a, <1>b, <1>c
  DEF CreateKeyFetchToken, MethodsKept, StatusKept, TypeOK, TokenExists, IdsIssued
<1>4. ASSUME NEW t \in KeyFetchIds, DeleteKeyFetchToken(t)
      PROVE  MethodsKept /\ StatusKept
  BY <1>4, <1>a, <1>b DEF DeleteKeyFetchToken, MethodsKept, StatusKept, TypeOK, TokenExists
<1>5. ASSUME NEW u, NEW x, VerifyTokens(u, x)
      PROVE  MethodsKept
  BY <1>5 DEF VerifyTokens, MethodsKept
<1>6. ASSUME NEW u \in Uids, NEW k, VerifyTokenCode(u, k)
      PROVE  \E x \in VerificationIds : VerifyTokens(u, x)
  BY <1>6, <1>a DEF VerifyTokenCode, TypeOK, UnverifiedToken
<1>7. ASSUME NEW t \in TokenIds, ExpireCode(t)
      PROVE  MethodsKept /\ StatusKept
  <2>1. \A o \in TokenIds : unverifiedTokens'[o] = None <=> unverifiedTokens[o] = None
    <3>1. unverifiedTokens[t] # None => [unverifiedTokens[t] EXCEPT !.expired = TRUE] # None
      BY <1>7, <1>a, NewObjects DEF TypeOK
    <3>2. QED
      BY <1>7, <1>a, <3>1 DEF ExpireCode, TypeOK
  <2>2. UNCHANGED sessionTokens
    BY <1>7 DEF ExpireCode
  <2>3. QED
    BY <2>1, <2>2 DEF MethodsKept, StatusKept
<1>8. ASSUME NEW u \in Uids, NEW t \in TokenIds \cup {NULL}, CreateSecurityEvent(u, t)
      PROVE  MethodsKept /\ StatusKept
  BY <1>8 DEF CreateSecurityEvent, MethodsKept, StatusKept
<1>9. QED
  BY <1>1, <1>2, <1>3, <1>4, <1>5, <1>6, <1>7, <1>8 DEF TokenStep

(* Of the callbacks only verifyTokensWithMethod's changes which tokens are *)
(* verified and which methods are set.                                     *)
LEMMA CallbackStatus ==
  ASSUME IInv, TypeOK', CallbackStep
  PROVE  /\ MethodsKept
         /\ \/ StatusKept /\ securityEvents' \subseteq securityEvents
            \/ \E u \in Uids, x \in VerificationIds :
                 VerifyTokensOf(u, x) /\ UNCHANGED <<sessionTokens, keyFetchTokens>>
<1>a. TypeOK
  BY DEF IInv
<1>b. SessionIds \cap KeyFetchIds = {} /\ TokenIds = SessionIds \cup KeyFetchIds
  BY MemAssumption DEF TokenIds
<1>c. PICK r \in Requests :
        \/ DeleteSessionDevices(r) \/ DeleteSessionRows(r)
        \/ VerifyFirst(r) \/ SetMethod(r)
        \/ CreateDevice(r) \/ UpdateDevice(r) \/ DeleteDevice(r)
        \/ ResetAccount(r) \/ DeleteAccount(r)
  BY CallbackCases
<1>1. CASE DeleteSessionDevices(r) \/ DeleteDevice(r)
  BY <1>1 DEF DeleteSessionDevices, DeleteDevice, MethodsKept, StatusKept
<1>2. CASE DeleteSessionRows(r)
  BY <1>2, <1>a, <1>b, CallFields
  DEF DeleteSessionRows, MethodsKept, StatusKept, TypeOK, TokenExists
<1>3. CASE VerifyFirst(r)
  <2>1. /\ OwnerOf[calls[r].sessionTokenId] \in Uids
        /\ calls[r].tokenVerificationId \in VerificationIds
    BY <1>3, <1>a, CallFields, MemAssumption DEF VerifyFirst, TokenIds
  <2>2. QED
    BY <1>3, <2>1 DEF VerifyFirst, MethodsKept, StatusKept
<1>4. CASE SetMethod(r)
  <2>1. MethodsKept
    BY <1>4, <1>a, CallFields DEF SetMethod, MethodsKept, TypeOK
  <2>2. StatusKept /\ UNCHANGED securityEvents
    BY <1>4 DEF SetMethod, StatusKept
  <2>3. QED
    BY <2>1, <2>2
<1>5. CASE CreateDevice(r) \/ UpdateDevice(r)
  <2>1. SameButDevices(sessionTokens, sessionTokens')
    BY <1>5, <1>a, DeviceStepSessions
  <2>2. QED
    BY <1>5, <2>1 DEF CreateDevice, UpdateDevice, SameButDevices, MethodsKept, StatusKept
<1>6. CASE ResetAccount(r) \/ DeleteAccount(r)
  <2>1. DeleteTokensOf(calls[r].uid) /\ securityEvents' \subseteq securityEvents
    BY <1>6 DEF ResetAccount, DeleteAccount
  <2>2. QED
    BY <2>1, <1>a, <1>b DEF DeleteTokensOf, MethodsKept, StatusKept, TypeOK, TokenExists
<1>7. QED
  BY <1>c, <1>1, <1>2, <1>3, <1>4, <1>5, <1>6

(* Events say of existing tokens what unverifiedTokens says.               *)
LEMMA EventsStep ==
  ASSUME IInv, TypeOK', [Next]_vars, TokensKept
  PROVE  EventsFollowTokens'
<1>a. TypeOK /\ IdsIssued /\ EventsFollowTokens
  BY DEF IInv
<1>1. ASSUME StatusKept, NEW e \in securityEvents, e.tokenId # NULL, e.uid = OwnerOf[e.tokenId],
             TokenExists(e.tokenId)'
      PROVE  e.verified <=> unverifiedTokens'[e.tokenId] = None
  <2>1. e.tokenId \in TokenIds /\ e.tokenId \in issued
    BY <1>a, <1>1 DEF TypeOK, SecurityEvent, IdsIssued
  <2>2. TokenExists(e.tokenId)
    BY <1>1, <2>1 DEF TokensKept
  <2>3. QED
    BY <1>a, <1>1, <2>1, <2>2 DEF StatusKept, EventsFollowTokens
<1>2. ASSUME StatusKept, securityEvents' \subseteq securityEvents
      PROVE  EventsFollowTokens'
  BY <1>1, <1>2 DEF EventsFollowTokens
<1>3. ASSUME NEW u \in Uids, NEW x, VerifyTokensOf(u, x),
             UNCHANGED <<sessionTokens, keyFetchTokens>>
      PROVE  EventsFollowTokens'
  <2> SUFFICES ASSUME NEW e \in securityEvents', e.tokenId # NULL, e.uid = OwnerOf[e.tokenId],
                      TokenExists(e.tokenId)'
               PROVE  e.verified <=> unverifiedTokens'[e.tokenId] = None
    BY DEF EventsFollowTokens
  <2>1. PICK o \in securityEvents :
          e = IF o.uid = u /\ o.tokenId \in WithVerificationId(u, x)
              THEN [o EXCEPT !.verified = TRUE] ELSE o
    BY <1>3 DEF VerifyTokensOf
  <2>2. /\ o.uid = e.uid /\ o.tokenId = e.tokenId /\ o.tokenId \in TokenIds
        /\ o.uid = u /\ o.tokenId \in WithVerificationId(u, x) => e.verified = TRUE
    BY <1>a, <2>1 DEF TypeOK, SecurityEvent
  <2>3. TokenExists(o.tokenId)
    BY <1>3, <2>2 DEF TokenExists
  <2>4. CASE o.tokenId \in WithVerificationId(u, x)
    <3>1. o.uid = u
      BY <2>2, <2>4 DEF WithVerificationId
    <3>2. QED
      BY <1>3, <2>2, <2>4, <3>1 DEF VerifyTokensOf
  <2>5. CASE o.tokenId \notin WithVerificationId(u, x)
    <3>1. e = o /\ unverifiedTokens'[o.tokenId] = unverifiedTokens[o.tokenId]
      BY <1>3, <2>1, <2>2, <2>5 DEF VerifyTokensOf
    <3>2. QED
      BY <1>a, <2>2, <2>3, <3>1 DEF EventsFollowTokens
  <2>6. QED
    BY <2>4, <2>5
<1>4. ASSUME NEW u \in Uids, NEW t \in TokenIds \cup {NULL}, CreateSecurityEvent(u, t)
      PROVE  EventsFollowTokens'
  <2>1. StatusKept
    BY <1>4 DEF CreateSecurityEvent, StatusKept
  <2>2. PICK n : /\ n = [uid |-> u, tokenId |-> t,
                         verified |-> t = NULL \/ unverifiedTokens[t] = None]
                 /\ securityEvents' = securityEvents \cup {n}
    BY <1>4 DEF CreateSecurityEvent
  <2>3. /\ n.tokenId = t
        /\ n.verified <=> (t = NULL \/ unverifiedTokens[t] = None)
    BY <2>2
  <2>4. n.tokenId # NULL => (n.verified <=> unverifiedTokens'[n.tokenId] = None)
    BY <1>4, <2>3 DEF CreateSecurityEvent
  <2>5. QED
    BY <1>1, <2>1, <2>2, <2>4 DEF EventsFollowTokens
<1>5. CASE TokenStep
  <2>1. CASE \E u \in Uids, t \in TokenIds \cup {NULL} : CreateSecurityEvent(u, t)
    BY <1>4, <2>1
  <2>2. CASE \E u \in Uids, x \in VerificationIds : VerifyTokens(u, x)
    BY <1>3, <2>2 DEF VerifyTokens
  <2>3. CASE /\ ~\E u \in Uids, t \in TokenIds \cup {NULL} : CreateSecurityEvent(u, t)
             /\ ~\E u \in Uids, x \in VerificationIds : VerifyTokens(u, x)
    <3>1. ASSUME NEW u \in Uids, NEW k, VerifyTokenCode(u, k)
          PROVE  \E x \in VerificationIds : VerifyTokens(u, x)
      BY <1>a, <3>1 DEF VerifyTokenCode, TypeOK, UnverifiedToken
    <3>2. UNCHANGED securityEvents
      BY <1>5, <2>3, <3>1
      DEF TokenStep, CreateSessionToken, UpdateSessionToken, CreateKeyFetchToken,
          DeleteKeyFetchToken, ExpireCode
    <3>3. QED
      BY <1>2, <1>5, <2>3, <3>2, TokenStepStatus
  <2>4. QED
    BY <2>1, <2>2, <2>3
<1>6. CASE CallStep \/ UNCHANGED vars
  <2>1. UNCHANGED tables
    BY <1>6, CallStepCases DEF vars
  <2>2. QED
    BY <1>2, <2>1 DEF tables, StatusKept
<1>7. CASE CallbackStep
  BY <1>2, <1>3, <1>7, CallbackStatus
<1>8. QED
  BY <1>5, <1>6, <1>7 DEF Next

(* Methods stay with verified sessions.                                    *)
LEMMA MethodStep ==
  ASSUME IInv, TypeOK', [Next]_vars, TokensKept
  PROVE  MethodOnlyWhenVerified'
<1>a. TypeOK /\ IdsIssued /\ VerifiedFirst /\ MethodOnlyWhenVerified
  BY DEF IInv
<1>1. MethodsKept
  <2>1. CASE CallStep \/ UNCHANGED vars
    <3>1. UNCHANGED tables
      BY <2>1, CallStepCases DEF vars
    <3>2. QED
      BY <3>1 DEF tables, MethodsKept
  <2>2. QED
    BY <2>1, TokenStepStatus, CallbackStatus DEF Next
<1> SUFFICES ASSUME NEW s \in SessionIds, sessionTokens'[s] # None,
                    sessionTokens'[s].verificationMethod # NULL
             PROVE  unverifiedTokens'[s] = None
  BY DEF MethodOnlyWhenVerified
<1>2. s \in TokenIds
  BY DEF TokenIds
<1>3. s \in issued /\ unverifiedTokens[s] = None
  <2>1. CASE /\ sessionTokens[s] # None
             /\ sessionTokens'[s].verificationMethod = sessionTokens[s].verificationMethod
    BY <1>a, <1>2, <2>1 DEF IdsIssued, TokenExists, MethodOnlyWhenVerified
  <2>2. CASE \E r \in Requests : calls[r].proc = "setMethod" /\ calls[r].sessionTokenId = s
    BY <1>a, <2>2 DEF IdsIssued, VerifiedFirst
  <2>3. QED
    BY <1>1, <2>1, <2>2 DEF MethodsKept
<1>4. QED
  BY <1>2, <1>3 DEF TokensKept

(* What an unverified session must is never taken back, and what its       *)
(* session says of it is true of its unverified token as well.             *)
MustKept ==
  \A s \in SessionIds : sessionTokens'[s] # None /\ unverifiedTokens'[s] # None =>
    \/ /\ s \notin issued
       /\ unverifiedTokens'[s].mustVerify = sessionTokens'[s].mustVerify
    \/ /\ sessionTokens[s] # None /\ unverifiedTokens[s] # None
       /\ unverifiedTokens[s].mustVerify = TRUE => unverifiedTokens'[s].mustVerify = TRUE
       /\ \/ sessionTokens'[s].mustVerify = sessionTokens[s].mustVerify
          \/ sessionTokens'[s].mustVerify = FALSE
          \/ unverifiedTokens'[s].mustVerify = TRUE

(* Every step keeps what sessions must.                                    *)
LEMMA NextKeepsMust == IInv /\ TypeOK' /\ [Next]_vars => MustKept
<1> SUFFICES ASSUME IInv, TypeOK', [Next]_vars PROVE MustKept
  OBVIOUS
<1>a. TypeOK /\ UnverifiedTokensExist
  BY DEF IInv
<1>b. SessionIds \cap KeyFetchIds = {} /\ TokenIds = SessionIds \cup KeyFetchIds
  BY MemAssumption DEF TokenIds
<1>d. IdsIssued
  BY DEF IInv
<1>c. ASSUME \A s \in SessionIds :
               sessionTokens'[s] # None /\ unverifiedTokens'[s] # None =>
                 /\ sessionTokens[s] # None /\ unverifiedTokens'[s] = unverifiedTokens[s]
                 /\ sessionTokens'[s].mustVerify = sessionTokens[s].mustVerify
      PROVE  MustKept
  BY <1>c DEF MustKept
<1>1. ASSUME NEW s \in SessionIds, NEW m \in BOOLEAN, NEW x \in VerificationIds \cup {NULL},
             NEW k \in CodeHashes \cup {NULL}, CreateSessionToken(s, m, x, k)
      PROVE  MustKept
  <2>1. /\ s \notin issued
        /\ sessionTokens'[s].mustVerify = m
        /\ \A q \in SessionIds \ {s} : /\ sessionTokens'[q] = sessionTokens[q]
                                       /\ unverifiedTokens'[q] = unverifiedTokens[q]
    BY <1>1, <1>a, <1>b DEF CreateSessionToken, TypeOK
  <2>2. CASE x = NULL
    <3>1. UNCHANGED unverifiedTokens /\ ~TokenExists(s)
      BY <1>1, <1>b, <1>d, <2>2 DEF CreateSessionToken, IdsIssued
    <3>2. unverifiedTokens'[s] = None
      BY <1>a, <1>b, <3>1 DEF UnverifiedTokensExist
    <3>3. QED
      BY <2>1, <3>2 DEF MustKept
  <2>3. CASE x # NULL
    <3>1. unverifiedTokens'[s].mustVerify = m
      BY <1>1, <1>a, <1>b, <2>3 DEF CreateSessionToken, TypeOK
    <3>2. QED
      BY <2>1, <3>1 DEF MustKept
  <2>4. QED
    BY <2>2, <2>3
<1>2. ASSUME NEW s \in SessionIds, NEW m \in BOOLEAN, UpdateSessionToken(s, m)
      PROVE  MustKept
  <2>1. /\ sessionTokens[s] # None /\ sessionTokens'[s].mustVerify = m
        /\ \A q \in SessionIds \ {s} : sessionTokens'[q] = sessionTokens[q]
    BY <1>2, <1>a DEF UpdateSessionToken, TypeOK, Session
  <2>2. /\ \A q \in SessionIds \ {s} : unverifiedTokens'[q] = unverifiedTokens[q]
        /\ unverifiedTokens'[s] # None => unverifiedTokens[s] # None
    BY <1>2, <1>a, <1>b DEF UpdateSessionToken, TypeOK
  <2>3. unverifiedTokens[s] # None =>
          \/ m = FALSE /\ unverifiedTokens'[s] = unverifiedTokens[s]
          \/ unverifiedTokens'[s].mustVerify = TRUE
    BY <1>2, <1>a, <1>b DEF UpdateSessionToken, TypeOK, UnverifiedToken
  <2>4. QED
    BY <2>1, <2>2, <2>3 DEF MustKept
<1>3. ASSUME NEW t \in KeyFetchIds, NEW x \in VerificationIds \cup {NULL},
             CreateKeyFetchToken(t, x)
      PROVE  MustKept
  BY <1>3, <1>a, <1>b, <1>c DEF CreateKeyFetchToken, TypeOK
<1>4. ASSUME NEW t \in KeyFetchIds, DeleteKeyFetchToken(t)
      PROVE  MustKept
  BY <1>4, <1>a, <1>b, <1>c DEF DeleteKeyFetchToken, TypeOK
<1>5. ASSUME NEW u, NEW x, VerifyTokensOf(u, x), SameButDevices(sessionTokens, sessionTokens')
      PROVE  MustKept
  BY <1>5, <1>b, <1>c DEF VerifyTokensOf, SameButDevices
<1>6. ASSUME NEW t \in TokenIds, ExpireCode(t)
      PROVE  MustKept
  <2>1. \A q \in TokenIds :
          unverifiedTokens'[q] # None =>
            /\ unverifiedTokens[q] # None
            /\ unverifiedTokens'[q].mustVerify = unverifiedTokens[q].mustVerify
    BY <1>6, <1>a DEF ExpireCode, TypeOK, UnverifiedToken
  <2>2. QED
    BY <1>6, <1>b, <2>1 DEF ExpireCode, MustKept
<1>7. ASSUME UNCHANGED unverifiedTokens, SameButDevices(sessionTokens, sessionTokens')
      PROVE  MustKept
  BY <1>7, <1>c DEF SameButDevices
<1>8. UNCHANGED sessionTokens => SameButDevices(sessionTokens, sessionTokens')
  BY DEF SameButDevices
<1>9. CASE TokenStep
  BY <1>1, <1>2, <1>3, <1>4, <1>5, <1>6, <1>7, <1>8, <1>9
  DEF TokenStep, VerifyTokens, VerifyTokenCode, CreateSecurityEvent
<1>10. CASE CallStep \/ UNCHANGED vars
  BY <1>7, <1>8, <1>10, CallStepCases DEF vars, tables
<1>11. CASE CallbackStep
  <2>1. PICK r \in Requests :
          \/ DeleteSessionDevices(r) \/ DeleteSessionRows(r)
          \/ VerifyFirst(r) \/ SetMethod(r)
          \/ CreateDevice(r) \/ UpdateDevice(r) \/ DeleteDevice(r)
          \/ ResetAccount(r) \/ DeleteAccount(r)
    BY <1>11, CallbackCases
  <2>2. CASE DeleteSessionDevices(r) \/ DeleteDevice(r) \/ VerifyFirst(r)
    BY <1>5, <1>7, <1>8, <2>2 DEF DeleteSessionDevices, DeleteDevice, VerifyFirst
  <2>3. CASE DeleteSessionRows(r)
    <3>1. \A s \in SessionIds : /\ sessionTokens'[s] \in {None, sessionTokens[s]}
                               /\ unverifiedTokens'[s] \in {None, unverifiedTokens[s]}
      BY <1>a, <1>b, <2>3 DEF DeleteSessionRows, TypeOK
    <3>2. QED
      BY <1>c, <3>1
  <2>4. CASE SetMethod(r)
    <3>1. \A s \in SessionIds : sessionTokens'[s] # None => sessionTokens[s] # None
      BY <1>a, <2>4 DEF SetMethod, TypeOK
    <3>2. \A s \in SessionIds : sessionTokens[s] # None =>
            sessionTokens'[s].mustVerify = sessionTokens[s].mustVerify
      BY <1>a, <2>4 DEF SetMethod, TypeOK, Session
    <3>3. UNCHANGED unverifiedTokens
      BY <2>4 DEF SetMethod
    <3>4. QED
      BY <1>c, <3>1, <3>2, <3>3
  <2>5. CASE CreateDevice(r) \/ UpdateDevice(r)
    BY <1>a, <1>7, <2>5, DeviceStepSessions DEF CreateDevice, UpdateDevice
  <2>6. CASE ResetAccount(r) \/ DeleteAccount(r)
    BY <1>a, <1>b, <1>c, <2>6 DEF ResetAccount, DeleteAccount, DeleteTokensOf, TypeOK
  <2>7. QED
    BY <2>1, <2>2, <2>3, <2>4, <2>5, <2>6
<1>12. QED
  BY <1>9, <1>10, <1>11 DEF Next

(* What a session must stays recorded with its unverified token.           *)
LEMMA MustStep ==
  ASSUME IInv, TypeOK', MustKept
  PROVE  MustVerifyRecorded'
<1>1. MustVerifyRecorded /\ TypeOK
  BY DEF IInv
<1>2. \A s \in SessionIds : /\ sessionTokens[s] # None => sessionTokens[s].mustVerify \in BOOLEAN
                            /\ sessionTokens'[s] # None => sessionTokens'[s].mustVerify \in BOOLEAN
                            /\ unverifiedTokens[s] # None => unverifiedTokens[s].mustVerify \in BOOLEAN
                            /\ unverifiedTokens'[s] # None => unverifiedTokens'[s].mustVerify \in BOOLEAN
  BY <1>1 DEF TypeOK, Session, UnverifiedToken, TokenIds
<1>3. QED
  BY <1>1, <1>2 DEF MustVerifyRecorded, MustKept

(* Devices stay with the sessions of their account.                        *)
LEMMA OwnSessionsStep ==
  ASSUME IInv, TypeOK', [Next]_vars
  PROVE  DevicesOwnSessions'
<1>a. TypeOK /\ DevicesOwnSessions
  BY DEF IInv
<1> DEFINE Own(u, s) == s \in SessionIds => OwnerOf[s] = u
<1>b. NULL \notin SessionIds /\ None \notin SessionIds
  BY MemAssumption DEF TokenIds
<1>1. /\ \A r \in Requests : calls'[r].proc \in {"createDevice", "updateDevice"} =>
           \/ calls'[r] = calls[r]
           \/ Own(calls'[r].uid, calls'[r].sessionTokenId)
      /\ \A u \in Uids, d \in DeviceIds : Own(u, devices'[u][d])
      => DevicesOwnSessions'
  BY <1>a DEF DevicesOwnSessions
<1>2. ASSUME NEW r \in Requests, NEW c, Continue(r, c),
             c.proc \notin {"createDevice", "updateDevice"}
      PROVE  \A q \in Requests : calls'[q].proc \in {"createDevice", "updateDevice"} =>
               calls'[q] = calls[q]
  BY <1>2, <1>a DEF Continue, TypeOK
<1>3. \A r \in Requests : Done(r) =>
        \A q \in Requests : calls'[q].proc \in {"createDevice", "updateDevice"} =>
          calls'[q] = calls[q]
  BY <1>2 DEF Done, Idle
<1>4. \A s \in SessionIds : DeletionOf(s).proc \notin {"createDevice", "updateDevice"}
  BY DEF DeletionOf, Idle
<1>5. \A u \in Uids, d \in DeviceIds : Own(u, devices[u][d])
  BY <1>a DEF DevicesOwnSessions
<1>6. CASE TokenStep \/ UNCHANGED vars
  BY <1>1, <1>5, <1>6, TokenStepFrame DEF vars, tables
<1>7. CASE CallStep
  <2>1. PICK r \in Requests :
          /\ UNCHANGED <<tables, issued>>
          /\ \/ \E s \in SessionIds : Continue(r, DeletionOf(s))
             \/ \E s \in SessionIds, m \in Methods : VerifyTokensWithMethod(r, s, m)
             \/ \E c \in AccountCall :
                  /\ c.proc \in {"createDevice", "updateDevice"} =>
                       c.sessionTokenId \in {NULL} \cup {s \in issued : OwnerOf[s] = c.uid}
                  /\ Continue(r, c)
    BY <1>7, CallStepCases
  <2>2. ASSUME NEW s \in SessionIds, NEW m \in Methods, VerifyTokensWithMethod(r, s, m)
        PROVE  \E c : Continue(r, c) /\ c.proc \notin {"createDevice", "updateDevice"}
    BY <2>2 DEF VerifyTokensWithMethod
  <2>3. ASSUME NEW c \in AccountCall, Continue(r, c),
               c.proc \in {"createDevice", "updateDevice"} =>
                 c.sessionTokenId \in {NULL} \cup {s \in issued : OwnerOf[s] = c.uid}
        PROVE  \A q \in Requests : calls'[q].proc \in {"createDevice", "updateDevice"} =>
                 \/ calls'[q] = calls[q]
                 \/ Own(calls'[q].uid, calls'[q].sessionTokenId)
    BY <1>a, <1>b, <2>3 DEF Continue, TypeOK
  <2>4. \A q \in Requests : calls'[q].proc \in {"createDevice", "updateDevice"} =>
          \/ calls'[q] = calls[q]
          \/ Own(calls'[q].uid, calls'[q].sessionTokenId)
    BY <1>2, <1>4, <2>1, <2>2, <2>3
  <2>5. QED
    BY <1>1, <1>5, <2>1, <2>4 DEF tables
<1>8. CASE CallbackStep
  <2>1. PICK r \in Requests :
          \/ DeleteSessionDevices(r) \/ DeleteSessionRows(r)
          \/ VerifyFirst(r) \/ SetMethod(r)
          \/ CreateDevice(r) \/ UpdateDevice(r) \/ DeleteDevice(r)
          \/ ResetAccount(r) \/ DeleteAccount(r)
    BY <1>8, CallbackCases
  <2>2. CASE DeleteSessionRows(r) \/ VerifyFirst(r) \/ SetMethod(r) \/ DeleteAccount(r)
    <3>1. UNCHANGED devices /\ (Done(r) \/ VerifyFirst(r))
      BY <2>2 DEF DeleteSessionRows, VerifyFirst, SetMethod, DeleteAccount
    <3>2. VerifyFirst(r) => Done(r) \/ \E c : Continue(r, c) /\ c.proc = "setMethod"
      BY DEF VerifyFirst
    <3>3. QED
      BY <1>1, <1>2, <1>3, <1>5, <3>1, <3>2
  <2>3. CASE DeleteSessionDevices(r)
    <3>1. \A u \in Uids, d \in DeviceIds : devices'[u][d] \in {None, devices[u][d]}
      BY <1>a, <2>3 DEF DeleteSessionDevices, TypeOK
    <3>2. QED
      BY <1>1, <1>2, <1>b, <1>5, <2>3, <3>1 DEF DeleteSessionDevices
  <2>4. CASE DeleteDevice(r)
    <3>1. calls[r].uid \in Uids /\ calls[r].id \in DeviceIds
      BY <1>a, <2>4, CallFields DEF DeleteDevice
    <3>2. \A u \in Uids, d \in DeviceIds : devices'[u][d] \in {None, devices[u][d]}
      BY <1>a, <2>4, <3>1 DEF DeleteDevice, TypeOK
    <3>3. \E c : Continue(r, c) /\ c.proc \notin {"createDevice", "updateDevice"}
      BY <1>a, <1>4, <2>4, <3>1 DEF DeleteDevice, TypeOK, Idle
    <3>4. QED
      BY <1>1, <1>2, <1>b, <1>5, <3>2, <3>3
  <2>5. CASE ResetAccount(r)
    <3>1. \A u \in Uids, d \in DeviceIds : devices'[u][d] \in {None, devices[u][d]}
      BY <1>a, <2>5 DEF ResetAccount, TypeOK
    <3>2. QED
      BY <1>1, <1>3, <1>b, <1>5, <2>5, <3>1 DEF ResetAccount
  <2>6. CASE CreateDevice(r) \/ UpdateDevice(r)
    <3> DEFINE u == calls[r].uid
               d == calls[r].id
               s == calls[r].sessionTokenId
    <3>1. u \in Uids /\ d \in DeviceIds /\ Own(u, s)
      <4>1. calls[r].proc \in {"createDevice", "updateDevice"}
        BY <2>6 DEF CreateDevice, UpdateDevice
      <4>2. QED
        BY <1>a, <4>1, CallFields DEF DevicesOwnSessions
    <3>2. Done(r)
      BY <2>6 DEF CreateDevice, UpdateDevice
    <3>3. \/ UNCHANGED devices
          \/ \E S : WriteDevice(u, d, s, S)
          \/ \E S : WriteDevice(u, d, devices[u][d], S)
      BY <2>6 DEF CreateDevice, UpdateDevice
    <3> HIDE DEF u, d, s
    <3>4. \/ UNCHANGED devices
          \/ devices' = [devices EXCEPT ![u][d] = s]
          \/ devices' = [devices EXCEPT ![u][d] = devices[u][d]]
      BY <3>3 DEF WriteDevice
    <3>5. \A v \in Uids, e \in DeviceIds : Own(v, devices'[v][e])
      BY <1>a, <1>5, <3>1, <3>4 DEF TypeOK
    <3>6. QED
      BY <1>1, <1>3, <3>2, <3>5
  <2>7. QED
    BY <2>1, <2>2, <2>3, <2>4, <2>5, <2>6
<1>9. QED
  BY <1>6, <1>7, <1>8 DEF Next

(* A session that is being deleted is until it is deleted.                 *)
LEMMA DeletionGoesOn ==
  ASSUME IInv, TypeOK', [Next]_vars, NEW s \in SessionIds, sessionTokens'[s] # None,
         NEW r \in Requests, BeingDeleted(r, s)
  PROVE  BeingDeleted(r, s)'
<1>a. TypeOK
  BY DEF IInv
<1>b. calls[r].proc \in {"sessionDevices", "sessionRows"} /\ calls[r].sessionTokenId = s
  BY DEF BeingDeleted
<1>1. CASE calls'[r] = calls[r]
  BY <1>1 DEF BeingDeleted
<1>2. CASE calls'[r] # calls[r]
  <2>1. ASSUME NEW q \in Requests, NEW c, Continue(q, c) PROVE q = r
    BY <1>a, <1>2, <2>1 DEF Continue, TypeOK
  <2>2. ~(TokenStep \/ UNCHANGED vars)
    BY <1>2, TokenStepFrame DEF vars
  <2>3. ~CallStep
    <3>1. calls[r] # Idle
      BY <1>b DEF Idle
    <3>2. ASSUME CallStep
          PROVE  \E q \in Requests : \E c : calls[q] = Idle /\ Continue(q, c)
      BY <3>2, CallStepCases DEF VerifyTokensWithMethod
    <3>3. QED
      BY <2>1, <3>1, <3>2
  <2>4. PICK q \in Requests :
          \/ DeleteSessionDevices(q) \/ DeleteSessionRows(q)
          \/ VerifyFirst(q) \/ SetMethod(q)
          \/ CreateDevice(q) \/ UpdateDevice(q) \/ DeleteDevice(q)
          \/ ResetAccount(q) \/ DeleteAccount(q)
    BY <2>2, <2>3, CallbackCases DEF Next
  <2>5. \E c : Continue(q, c)
    BY <2>4
    DEF Done, DeleteSessionDevices, DeleteSessionRows, VerifyFirst, SetMethod, CreateDevice,
        UpdateDevice, DeleteDevice, ResetAccount, DeleteAccount
  <2>6. q = r
    BY <2>1, <2>5
  <2>7. DeleteSessionDevices(r) \/ DeleteSessionRows(r)
    BY <1>b, <2>4, <2>6
    DEF VerifyFirst, SetMethod, CreateDevice, UpdateDevice, DeleteDevice, ResetAccount, DeleteAccount
  <2>8. ~DeleteSessionRows(r)
    BY <1>a, <1>b DEF DeleteSessionRows, TypeOK
  <2>9. QED
    BY <1>a, <1>b, <2>7, <2>8 DEF DeleteSessionDevices, Continue, TypeOK, BeingDeleted
<1>3. QED
  BY <1>1, <1>2

(* What a session's device points back to, or that it is being deleted.    *)
PointsBack(s) ==
  LET u == OwnerOf[s]
  IN  sessionTokens[s] # None /\ sessionTokens[s].deviceKey # NULL /\ u \in accounts =>
        \/ devices[u][sessionTokens[s].deviceKey] = s
        \/ \E r \in Requests : BeingDeleted(r, s)

(* A session that keeps its device points back to it, if the device keeps  *)
(* the session.                                                            *)
LEMMA PointsBackKept ==
  ASSUME IInv, TypeOK', [Next]_vars, NEW s \in SessionIds, OwnerOf[s] \in accounts,
         sessionTokens[s] # None, sessionTokens'[s].deviceKey = sessionTokens[s].deviceKey,
         LET u == OwnerOf[s]
             d == sessionTokens[s].deviceKey
         IN  devices[u][d] = s => devices'[u][d] = s
  PROVE  PointsBack(s)'
<1>1. PointsBack(s)
  BY DEF IInv, DeviceKeysPointBack, PointsBack
<1>2. QED
  BY <1>1, DeletionGoesOn DEF PointsBack

(* createDevice gives a session only a device that no session has.         *)
LEMMA CreateDevicePoints ==
  ASSUME IInv, TypeOK', [Next]_vars, NEW r \in Requests, CreateDevice(r), NEW s \in SessionIds
  PROVE  PointsBack(s)'
<1> DEFINE u == calls[r].uid
           d == calls[r].id
           new == calls[r].sessionTokenId
<1>a. TypeOK /\ DevicesOwnSessions
  BY DEF IInv
<1>b. s # None /\ s # NULL /\ OwnerOf[s] \in Uids
  BY MemAssumption DEF TokenIds
<1>1. u \in Uids /\ d \in DeviceIds /\ (new \in SessionIds => OwnerOf[new] = u)
  BY <1>a, CallFields DEF CreateDevice, DevicesOwnSessions
<1>2. UNCHANGED accounts
  BY DEF CreateDevice
<1>3. SameButDevices(sessionTokens, sessionTokens')
  BY <1>a, DeviceStepSessions
<1>4. \/ UNCHANGED <<devices, sessionTokens>>
      \/ devices[u][d] = None /\ WriteDevice(u, d, new, sessionTokens)
  BY DEF CreateDevice
<1> HIDE DEF u, d, new
<1> SUFFICES ASSUME OwnerOf[s] \in accounts, sessionTokens[s] # None
             PROVE  PointsBack(s)'
  BY <1>2, <1>3 DEF PointsBack, SameButDevices
<1>5. CASE UNCHANGED <<devices, sessionTokens>>
  BY <1>5, PointsBackKept
<1>6. CASE devices[u][d] = None /\ WriteDevice(u, d, new, sessionTokens)
  <2>1. CASE s = new
    <3>1. sessionTokens'[s].deviceKey = d
      BY <1>6, <1>a, <1>b, <2>1 DEF WriteDevice, TypeOK, Session
    <3>2. devices'[OwnerOf[s]][d] = s
      BY <1>1, <1>6, <1>a, <2>1 DEF WriteDevice, TypeOK
    <3>3. QED
      BY <3>1, <3>2 DEF PointsBack
  <2>2. CASE s # new
    <3>1. sessionTokens'[s] = sessionTokens[s]
      BY <1>6, <1>a, <2>2 DEF WriteDevice, TypeOK
    <3>2. \A e : devices[OwnerOf[s]][e] = s => devices'[OwnerOf[s]][e] = s
      BY <1>6, <1>a, <1>b, <1>1 DEF WriteDevice, TypeOK
    <3>3. QED
      BY <3>1, <3>2, PointsBackKept
  <2>3. QED
    BY <2>1, <2>2
<1>7. QED
  BY <1>4, <1>5, <1>6

(* updateDevice tells the session that the device used until then.         *)
LEMMA UpdateDevicePoints ==
  ASSUME IInv, TypeOK', [Next]_vars, NEW r \in Requests, UpdateDevice(r), NEW s \in SessionIds
  PROVE  PointsBack(s)'
<1> DEFINE u == calls[r].uid
           d == calls[r].id
           old == devices[u][d]
           new == IF calls[r].sessionTokenId = NULL THEN old ELSE calls[r].sessionTokenId
           told == IF new = old THEN sessionTokens ELSE WithoutDevice(old)
<1>a. TypeOK /\ DevicesOwnSessions
  BY DEF IInv
<1>b. s # None /\ s # NULL /\ OwnerOf[s] \in Uids
  BY MemAssumption DEF TokenIds
<1>1. /\ u \in Uids /\ d \in DeviceIds
      /\ calls[r].sessionTokenId \in SessionIds =>
           calls[r].sessionTokenId # NULL /\ OwnerOf[calls[r].sessionTokenId] = u
      /\ calls[r].sessionTokenId \in SessionIds \cup {NULL}
  BY <1>a, CallFields, MemAssumption DEF UpdateDevice, DevicesOwnSessions, TokenIds
<1>2. /\ new \in SessionIds => OwnerOf[new] = u
      /\ old \in SessionIds \cup {NULL, None}
      /\ old # None => new \in SessionIds \cup {NULL}
  BY <1>a, <1>1 DEF DevicesOwnSessions, TypeOK
<1>3. UNCHANGED accounts
  BY DEF UpdateDevice
<1>4. SameButDevices(sessionTokens, sessionTokens')
  BY <1>a, DeviceStepSessions
<1>5. \/ UNCHANGED <<devices, sessionTokens>>
      \/ /\ old # None /\ UNCHANGED devices
         /\ sessionTokens' = told
      \/ old # None /\ WriteDevice(u, d, new, told)
  BY DEF UpdateDevice
<1>6. old # None =>
        /\ told \in [SessionIds -> Session \cup {None}]
        /\ told[s] = None <=> sessionTokens[s] = None
        /\ sessionTokens[s] # None =>
             IF s = old /\ new # old THEN told[s].deviceKey = NULL
             ELSE told[s] = sessionTokens[s]
  <2>1. SessionIds \cap {NULL} = {}
    BY MemAssumption DEF TokenIds
  <2>2. \A q \in SessionIds \cup {NULL} :
          /\ WithoutDevice(q) \in [SessionIds -> Session \cup {None}]
          /\ SameButDevices(sessionTokens, WithoutDevice(q))
    BY <1>a, SessionsType, DeviceWrites DEF TypeOK
  <2>3. \A q \in SessionIds \cup {NULL} : sessionTokens[s] # None =>
          IF s = q THEN WithoutDevice(q)[s].deviceKey = NULL
          ELSE WithoutDevice(q)[s] = sessionTokens[s]
    BY <1>a, <1>b DEF WithoutDevice, TypeOK, Session
  <2>4. QED
    BY <1>a, <1>2, <2>2, <2>3 DEF SameButDevices, TypeOK
<1> HIDE DEF u, d, new, told
<1> SUFFICES ASSUME OwnerOf[s] \in accounts, sessionTokens[s] # None
             PROVE  PointsBack(s)'
  BY <1>3, <1>4 DEF PointsBack, SameButDevices
<1>7. CASE UNCHANGED <<devices, sessionTokens>>
  BY <1>7, PointsBackKept
<1>8. CASE /\ old # None /\ UNCHANGED devices
           /\ sessionTokens' = told
  <2>1. CASE told[s] = sessionTokens[s]
    BY <1>8, <2>1, PointsBackKept
  <2>2. CASE told[s].deviceKey = NULL
    BY <1>8, <2>2 DEF PointsBack
  <2>3. QED
    BY <1>6, <1>8, <2>1, <2>2
<1>9. CASE old # None /\ WriteDevice(u, d, new, told)
  <2>1. CASE s = new
    <3>1. sessionTokens'[s].deviceKey = d
      BY <1>6, <1>9, <1>a, <1>b, <2>1 DEF WriteDevice, Session
    <3>2. devices'[OwnerOf[s]][d] = s
      BY <1>1, <1>2, <1>9, <1>a, <2>1 DEF WriteDevice, TypeOK
    <3>3. QED
      BY <3>1, <3>2 DEF PointsBack
  <2>2. CASE s # new
    <3>1. sessionTokens'[s] = told[s]
      BY <1>6, <1>9, <2>2 DEF WriteDevice
    <3>2. CASE s = old
      <4>1. told[s].deviceKey = NULL
        BY <1>6, <1>9, <2>2, <3>2
      <4>2. QED
        BY <3>1, <4>1 DEF PointsBack
    <3>3. CASE s # old
      <4>1. sessionTokens'[s] = sessionTokens[s]
        BY <1>6, <1>9, <3>1, <3>3
      <4>2. \A e : devices[OwnerOf[s]][e] = s => devices'[OwnerOf[s]][e] = s
        BY <1>9, <1>a, <1>b, <1>1, <3>3 DEF WriteDevice, TypeOK
      <4>3. QED
        BY <4>1, <4>2, PointsBackKept
    <3>4. QED
      BY <3>2, <3>3
  <2>3. QED
    BY <2>1, <2>2
<1>10. QED
  BY <1>5, <1>7, <1>8, <1>9

(* Deleting a device starts the deletion of the session it used; deleting  *)
(* devices by session, or by account, does so while the sessions go.       *)
LEMMA DeleteDevicesPoint ==
  ASSUME IInv, TypeOK', [Next]_vars, NEW r \in Requests, NEW s \in SessionIds,
         \/ DeleteSessionDevices(r) \/ DeleteDevice(r)
         \/ ResetAccount(r) \/ DeleteAccount(r)
  PROVE  PointsBack(s)'
<1>a. TypeOK
  BY DEF IInv
<1>b. s # None /\ s # NULL /\ OwnerOf[s] \in Uids /\ s \in TokenIds
  BY MemAssumption DEF TokenIds
<1>1. CASE DeleteSessionDevices(r)
  <2>1. CASE calls[r].sessionTokenId = s
    <3>1. calls'[r] = [proc |-> "sessionRows", sessionTokenId |-> s]
      BY <1>a, <1>1, <2>1 DEF DeleteSessionDevices, Continue, TypeOK
    <3>2. QED
      BY <3>1 DEF PointsBack, BeingDeleted
  <2>2. CASE calls[r].sessionTokenId # s
    <3>1. UNCHANGED <<accounts, sessionTokens>>
      BY <1>1 DEF DeleteSessionDevices
    <3>2. \A u \in Uids, d \in DeviceIds : devices[u][d] = s => devices'[u][d] = s
      BY <1>a, <1>1, <2>2 DEF DeleteSessionDevices, TypeOK
    <3>3. ASSUME sessionTokens[s] # None, sessionTokens[s].deviceKey # NULL
          PROVE  sessionTokens[s].deviceKey \in DeviceIds
      BY <1>a, <3>3 DEF TypeOK, Session
    <3>4. QED
      BY <1>b, <3>1, <3>2, <3>3, PointsBackKept DEF PointsBack
  <2>3. QED
    BY <2>1, <2>2
<1>2. CASE DeleteDevice(r)
  <2> DEFINE u == calls[r].uid
             d == calls[r].id
  <2>1. u \in Uids /\ d \in DeviceIds
    BY <1>a, <1>2, CallFields DEF DeleteDevice
  <2>2. UNCHANGED <<accounts, sessionTokens>>
    BY <1>2 DEF DeleteDevice
  <2>3. devices' = [devices EXCEPT ![u][d] = None]
    BY <1>2 DEF DeleteDevice
  <2>4. devices[u][d] = s => calls'[r] = DeletionOf(s)
    BY <1>a, <1>b, <1>2 DEF DeleteDevice, Continue, TypeOK
  <2> HIDE DEF u, d
  <2> SUFFICES ASSUME OwnerOf[s] \in accounts, sessionTokens[s] # None
               PROVE  PointsBack(s)'
    BY <2>2 DEF PointsBack
  <2>5. CASE devices[u][d] = s
    <3>1. calls'[r] = [proc |-> "sessionDevices", sessionTokenId |-> s]
      BY <2>4, <2>5 DEF DeletionOf
    <3>2. QED
      BY <3>1 DEF PointsBack, BeingDeleted
  <2>6. CASE devices[u][d] # s
    <3>1. \A e : devices[OwnerOf[s]][e] = s => devices'[OwnerOf[s]][e] = s
      BY <1>a, <1>b, <2>1, <2>3, <2>6 DEF TypeOK
    <3>2. QED
      BY <2>2, <3>1, PointsBackKept
  <2>7. QED
    BY <2>5, <2>6
<1>3. CASE ResetAccount(r) \/ DeleteAccount(r)
  <2> DEFINE u == calls[r].uid
  <2>1. /\ sessionTokens'[s] = IF OwnerOf[s] = u THEN None ELSE sessionTokens[s]
        /\ accounts' \subseteq accounts
        /\ OwnerOf[s] # u => devices'[OwnerOf[s]] = devices[OwnerOf[s]]
    BY <1>3, <1>a, <1>b DEF ResetAccount, DeleteAccount, DeleteTokensOf, TypeOK
  <2> HIDE DEF u
  <2>2. QED
    BY <2>1, PointsBackKept DEF PointsBack
<1>4. QED
  BY <1>1, <1>2, <1>3

(* Devices that sessions remember still point back to them.                *)
LEMMA DeviceKeysStep ==
  ASSUME IInv, TypeOK', [Next]_vars
  PROVE  DeviceKeysPointBack'
<1> SUFFICES ASSUME NEW s \in SessionIds
             PROVE  PointsBack(s)'
  BY DEF DeviceKeysPointBack, PointsBack
<1>a. TypeOK
  BY DEF IInv
<1>1. ASSUME UNCHANGED <<accounts, devices>>,
             sessionTokens'[s] # None /\ sessionTokens'[s].deviceKey # NULL =>
               /\ sessionTokens[s] # None
               /\ sessionTokens'[s].deviceKey = sessionTokens[s].deviceKey
      PROVE  PointsBack(s)'
  BY <1>1, PointsBackKept DEF PointsBack
<1>2. CASE TokenStep
  <2>1. sessionTokens'[s] # None /\ sessionTokens'[s].deviceKey # NULL =>
          /\ sessionTokens[s] # None
          /\ sessionTokens'[s].deviceKey = sessionTokens[s].deviceKey
    <3>1. ASSUME NEW q \in SessionIds, NEW m \in BOOLEAN, NEW x \in VerificationIds \cup {NULL},
                 NEW k \in CodeHashes \cup {NULL}, CreateSessionToken(q, m, x, k),
                 sessionTokens'[s] # sessionTokens[s]
          PROVE  sessionTokens'[s].deviceKey = NULL
      BY <1>a, <3>1 DEF CreateSessionToken, TypeOK
    <3>2. ASSUME NEW q \in SessionIds, NEW m \in BOOLEAN, UpdateSessionToken(q, m)
          PROVE  sessionTokens[s] # None =>
                   sessionTokens'[s].deviceKey = sessionTokens[s].deviceKey
      BY <1>a, <3>2 DEF UpdateSessionToken, TypeOK, Session
    <3>3. ASSUME NEW q \in SessionIds, NEW m \in BOOLEAN, UpdateSessionToken(q, m)
          PROVE  sessionTokens[s] = None => sessionTokens'[s] = None
      BY <1>a, <3>3 DEF UpdateSessionToken, TypeOK
    <3>4. UNCHANGED sessionTokens
          \/ (\E q \in SessionIds, m \in BOOLEAN : UpdateSessionToken(q, m))
          \/ (\E q \in SessionIds, m \in BOOLEAN, x \in VerificationIds \cup {NULL},
                 k \in CodeHashes \cup {NULL} : CreateSessionToken(q, m, x, k))
      BY <1>2 DEF TokenStep, CreateKeyFetchToken, DeleteKeyFetchToken, VerifyTokens,
                  VerifyTokenCode, ExpireCode, CreateSecurityEvent
    <3>5. QED
      BY <3>1, <3>2, <3>3, <3>4
  <2>2. QED
    BY <1>1, <1>2, <2>1, TokenStepFrame
<1>3. CASE CallStep \/ UNCHANGED vars
  BY <1>1, <1>3, CallStepCases DEF vars, tables
<1>4. CASE CallbackStep
  <2>1. PICK r \in Requests :
          \/ DeleteSessionDevices(r) \/ DeleteSessionRows(r)
          \/ VerifyFirst(r) \/ SetMethod(r)
          \/ CreateDevice(r) \/ UpdateDevice(r) \/ DeleteDevice(r)
          \/ ResetAccount(r) \/ DeleteAccount(r)
    BY <1>4, CallbackCases
  <2>2. CASE DeleteSessionRows(r) \/ VerifyFirst(r)
    BY <1>a, <1>1, <2>2 DEF DeleteSessionRows, VerifyFirst, TypeOK
  <2>3. CASE SetMethod(r)
    <3>1. sessionTokens'[s] # None => sessionTokens[s] # None
      BY <1>a, <2>3 DEF SetMethod, TypeOK
    <3>2. sessionTokens[s] # None => sessionTokens'[s].deviceKey = sessionTokens[s].deviceKey
      BY <1>a, <2>3 DEF SetMethod, TypeOK, Session
    <3>3. QED
      BY <1>1, <2>3, <3>1, <3>2 DEF SetMethod
  <2>4. QED
    BY <2>1, <2>2, <2>3, CreateDevicePoints, UpdateDevicePoints, DeleteDevicesPoint
<1>5. QED
  BY <1>2, <1>3, <1>4 DEF Next

(* Nothing is there at first.                                              *)
LEMMA InitInv == Init => IInv
<1> SUFFICES ASSUME Init PROVE IInv
  OBVIOUS
<1>1. \A t \in TokenIds : unverifiedTokens[t] = None /\ ~TokenExists(t)
  BY DEF Init, TokenExists
<1>2. \A u \in Uids, d \in DeviceIds : devices[u][d] \notin SessionIds
  BY MemAssumption DEF Init, TokenIds
<1>3. \A r \in Requests : calls[r].proc = "idle"
  BY DEF Init, Idle
<1>4. securityEvents = {} /\ \A s \in SessionIds : sessionTokens[s] = None
  BY DEF Init
<1>5. QED
  BY <1>1, <1>2, <1>3, <1>4, InitType
  DEF IInv, IdsIssued, UnverifiedTokensExist, DevicesOwnSessions, VerifiedFirst,
      MustVerifyRecorded, EventsFollowTokens, MethodOnlyWhenVerified, DeviceKeysPointBack

(* Every step keeps the invariant.                                         *)
LEMMA NextInv == IInv /\ [Next]_vars => IInv'
<1> SUFFICES ASSUME IInv, [Next]_vars PROVE IInv'
  OBVIOUS
<1>1. TypeOK'
  <2>1. TypeOK
    BY DEF IInv
  <2>2. CASE UNCHANGED vars
    BY <2>1, <2>2 DEF TypeOK, vars, tables
  <2>3. QED
    BY <2>1, <2>2, TokenStepType, CallStepType, CallbackStepType DEF Next
<1>2. TokensKept /\ EventsKept /\ WaitsKept /\ MustKept
  BY <1>1, NextKeeps, NextKeepsEvents, NextKeepsWaits, NextKeepsMust
<1>3. IdsIssued' /\ VerifiedFirst' /\ MustVerifyRecorded'
  BY <1>1, <1>2, IdsIssuedStep, VerifiedFirstStep, MustStep
<1>4. UnverifiedTokensExist'
  BY <1>2 DEF UnverifiedTokensExist, TokensKept
<1>5. DevicesOwnSessions' /\ DeviceKeysPointBack'
  BY <1>1, OwnSessionsStep, DeviceKeysStep
<1>6. EventsFollowTokens' /\ MethodOnlyWhenVerified'
  BY <1>1, <1>2, EventsStep, MethodStep
<1>7. QED
  BY <1>1, <1>3, <1>4, <1>5, <1>6 DEF IInv

(* The invariant holds in every order of requests and callbacks.           *)
THEOREM InductiveInvariant == Spec => []IInv
BY InitInv, NextInv, PTL DEF Spec

(* An event says of its token what unverifiedTokens says.                  *)
THEOREM EventsAlwaysFollow == Spec => []EventsFollowTokens
<1>1. IInv => EventsFollowTokens
  BY DEF IInv
<1>2. QED
  BY <1>1, InductiveInvariant, PTL

(* Only verified sessions record a verificationMethod.                     *)
THEOREM MethodAlwaysVerified == Spec => []MethodOnlyWhenVerified
<1>1. IInv => MethodOnlyWhenVerified
  BY DEF IInv
<1>2. QED
  BY <1>1, InductiveInvariant, PTL

(* The device that a session remembers uses that session.                  *)
THEOREM DeviceKeysAlwaysPointBack == Spec => []DeviceKeysPointBack
<1>1. IInv => DeviceKeysPointBack
  BY DEF IInv
<1>2. QED
  BY <1>1, InductiveInvariant, PTL

(* sessionToken() does not take back that a session must be verified.      *)
THEOREM MustVerifyAlwaysKept == Spec => MustVerifyKept
<1> DEFINE Kept ==
             \A s \in SessionIds :
               /\ sessionTokens[s] # None /\ unverifiedTokens[s] # None /\ MustVerify(s)
               /\ sessionTokens'[s] # None /\ unverifiedTokens'[s] # None
               => MustVerify(s)'
<1>1. IInv /\ IInv' /\ [Next]_vars => Kept
  <2> SUFFICES ASSUME IInv, IInv', [Next]_vars, NEW s \in SessionIds,
                      sessionTokens[s] # None, unverifiedTokens[s] # None, MustVerify(s),
                      sessionTokens'[s] # None, unverifiedTokens'[s] # None
               PROVE  MustVerify(s)'
    OBVIOUS
  <2>1. MustKept
    BY NextKeepsMust DEF IInv
  <2>2. /\ unverifiedTokens[s].mustVerify \in BOOLEAN
        /\ unverifiedTokens'[s].mustVerify \in BOOLEAN
    BY DEF IInv, TypeOK, UnverifiedToken, TokenIds
  <2>3. unverifiedTokens[s].mustVerify = TRUE
    BY <2>2 DEF IInv, MustVerifyRecorded, MustVerify
  <2>4. s \in issued
    BY DEF IInv, IdsIssued, TokenExists, TokenIds
  <2>5. unverifiedTokens'[s].mustVerify = TRUE
    BY <2>1, <2>3, <2>4 DEF MustKept
  <2>6. QED
    BY <2>5 DEF MustVerify
<1>2. IInv /\ IInv' /\ [Next]_vars => [Kept]_vars
  BY <1>1
<1>3. QED
  BY <1>2, InductiveInvariant, PTL DEF Spec, MustVerifyKept

-----------------------------------------------------------------------------
(* The refinement.                                                         *)

(* The status of a token, before and after a step.                         *)
LEMMA StatusValues ==
  /\ StatusOf = [t \in TokenIds |-> StatusOf[t]]
  /\ StatusOf' = [t \in TokenIds |-> StatusOf'[t]]
  /\ \A t \in TokenIds :
       /\ StatusOf[t] = IF ~TokenExists(t) THEN "absent"
                        ELSE IF unverifiedTokens[t] # None THEN "unverified" ELSE "verified"
       /\ StatusOf'[t] = IF ~TokenExists(t)' THEN "absent"
                         ELSE IF unverifiedTokens'[t] # None THEN "unverified" ELSE "verified"
BY DEF StatusOf

(* A step that leaves tokens what they are is a stutter.                   *)
LEMMA StatusSame ==
  ASSUME \A t \in TokenIds : /\ TokenExists(t)' <=> TokenExists(t)
                             /\ unverifiedTokens'[t] = None <=> unverifiedTokens[t] = None
  PROVE  StatusOf' = StatusOf
BY DEF StatusOf

(* A token that was not there before is issued.                            *)
LEMMA IssueMaps ==
  ASSUME NEW t \in TokenIds, ~TokenExists(t), TokenExists(t)',
         \A o \in TokenIds \ {t} : /\ TokenExists(o)' <=> TokenExists(o)
                                   /\ unverifiedTokens'[o] = unverifiedTokens[o]
  PROVE  Lifecycle!Next
<1> DEFINE st == IF unverifiedTokens'[t] # None THEN "unverified" ELSE "verified"
<1>1. StatusOf[t] = "absent" /\ StatusOf'[t] = st
  BY StatusValues
<1>2. \A o \in TokenIds \ {t} : StatusOf'[o] = StatusOf[o]
  BY StatusValues
<1>3. StatusOf' = [StatusOf EXCEPT ![t] = st]
  BY <1>1, <1>2, StatusValues
<1>4. Lifecycle!Issue(t, st) /\ st \in {Lifecycle!Unverified, Lifecycle!Verified}
  BY <1>1, <1>3 DEF Lifecycle!Issue, Lifecycle!Absent, Lifecycle!Unverified, Lifecycle!Verified
<1>5. QED
  BY <1>4 DEF Lifecycle!Next

(* The tokens that are verified together are of one account.               *)
LEMMA VerifyMaps ==
  ASSUME IInv, NEW u \in Uids, NEW x, VerifyTokensOf(u, x),
         \A t \in TokenIds : TokenExists(t)' <=> TokenExists(t)
  PROVE  Lifecycle!Next
<1> DEFINE T == WithVerificationId(u, x)
<1>1. \A t \in T : t \in TokenIds /\ OwnerOf[t] = u /\ unverifiedTokens[t] # None
  BY DEF WithVerificationId
<1>2. \A t \in TokenIds : unverifiedTokens'[t] = IF t \in T THEN None ELSE unverifiedTokens[t]
  BY DEF VerifyTokensOf
<1> HIDE DEF T
<1>3. \A t \in T : StatusOf[t] = "unverified" /\ StatusOf'[t] = "verified"
  BY <1>1, <1>2, StatusValues DEF IInv, UnverifiedTokensExist
<1>4. \A t \in TokenIds \ T : StatusOf'[t] = StatusOf[t]
  BY <1>2, StatusValues
<1>5. StatusOf' = [t \in TokenIds |-> IF t \in T THEN "verified" ELSE StatusOf[t]]
  BY <1>3, <1>4, StatusValues
<1>6. Lifecycle!Verify(u, T) /\ T \in SUBSET TokenIds
  BY <1>1, <1>3, <1>5 DEF Lifecycle!Verify, Lifecycle!Unverified, Lifecycle!Verified
<1>7. QED
  BY <1>6 DEF Lifecycle!Next

(* Tokens of one account that go away are revoked.                         *)
LEMMA RevokeMaps ==
  ASSUME NEW u \in Uids, NEW T \in SUBSET TokenIds,
         \A t \in T : OwnerOf[t] = u /\ ~TokenExists(t)',
         \A t \in TokenIds \ T : /\ TokenExists(t)' <=> TokenExists(t)
                                 /\ unverifiedTokens'[t] = unverifiedTokens[t]
  PROVE  Lifecycle!Next
<1>1. \A t \in T : StatusOf'[t] = "absent"
  BY StatusValues
<1>2. \A t \in TokenIds \ T : StatusOf'[t] = StatusOf[t]
  BY StatusValues
<1>3. StatusOf' = [t \in TokenIds |-> IF t \in T THEN "absent" ELSE StatusOf[t]]
  BY <1>1, <1>2, StatusValues
<1>4. QED
  BY <1>3 DEF Lifecycle!Next, Lifecycle!Revoke, Lifecycle!Absent

(* Functions without promises map to steps of the lifecycle ...            *)
LEMMA TokenStepMaps ==
  ASSUME IInv, TypeOK', TokenStep
  PROVE  Lifecycle!Next \/ StatusOf' = StatusOf
<1>a. TypeOK /\ IdsIssued
  BY DEF IInv
<1>b. /\ SessionIds \cap KeyFetchIds = {} /\ TokenIds = SessionIds \cup KeyFetchIds
      /\ OwnerOf \in [TokenIds -> Uids]
  BY MemAssumption DEF TokenIds
<1>1. ASSUME NEW s \in SessionIds, NEW m \in BOOLEAN, NEW x \in VerificationIds \cup {NULL},
             NEW k \in CodeHashes \cup {NULL}, CreateSessionToken(s, m, x, k)
      PROVE  Lifecycle!Next
  <2>1. sessionTokens'[s] # None
    <3>1. [mustVerify |-> m, verificationMethod |-> NULL, deviceKey |-> NULL] \in Session
      BY NewObjects
    <3>2. QED
      BY <1>1, <1>a, <3>1, NewObjects DEF CreateSessionToken, TypeOK
  <2>2. s \in TokenIds /\ ~TokenExists(s) /\ TokenExists(s)'
    BY <1>1, <1>a, <1>b, <2>1 DEF CreateSessionToken, TokenExists, IdsIssued
  <2>3. \A o \in TokenIds \ {s} : /\ TokenExists(o)' <=> TokenExists(o)
                                 /\ unverifiedTokens'[o] = unverifiedTokens[o]
    BY <1>1, <1>a DEF CreateSessionToken, TokenExists, TypeOK
  <2>4. QED
    BY <2>2, <2>3, IssueMaps
<1>2. ASSUME NEW t \in KeyFetchIds, NEW x \in VerificationIds \cup {NULL},
             CreateKeyFetchToken(t, x)
      PROVE  Lifecycle!Next
  <2>1. t \in TokenIds /\ ~TokenExists(t) /\ TokenExists(t)'
    BY <1>2, <1>a, <1>b DEF CreateKeyFetchToken, TokenExists, IdsIssued
  <2>2. \A o \in TokenIds \ {t} : /\ TokenExists(o)' <=> TokenExists(o)
                                 /\ unverifiedTokens'[o] = unverifiedTokens[o]
    BY <1>2, <1>a DEF CreateKeyFetchToken, TokenExists, TypeOK
  <2>3. QED
    BY <2>1, <2>2, IssueMaps
<1>3. ASSUME NEW t \in KeyFetchIds, DeleteKeyFetchToken(t)
      PROVE  Lifecycle!Next
  <2>1. {t} \in SUBSET TokenIds /\ OwnerOf[t] \in Uids /\ ~TokenExists(t)'
    BY <1>3, <1>b DEF DeleteKeyFetchToken, TokenExists
  <2>2. \A o \in TokenIds \ {t} : /\ TokenExists(o)' <=> TokenExists(o)
                                 /\ unverifiedTokens'[o] = unverifiedTokens[o]
    BY <1>3, <1>a DEF DeleteKeyFetchToken, TokenExists, TypeOK
  <2>3. QED
    BY <2>1, <2>2, RevokeMaps
<1>4. ASSUME NEW u \in Uids, NEW x, VerifyTokens(u, x)
      PROVE  Lifecycle!Next
  BY <1>4, VerifyMaps DEF VerifyTokens, TokenExists
<1>5. ASSUME UNCHANGED keyFetchTokens,
             \A s \in SessionIds : sessionTokens'[s] = None <=> sessionTokens[s] = None,
             \A t \in TokenIds : unverifiedTokens'[t] = None <=> unverifiedTokens[t] = None
      PROVE  StatusOf' = StatusOf
  BY <1>5, StatusSame DEF TokenExists
<1>6. ASSUME NEW s \in SessionIds, NEW m \in BOOLEAN, UpdateSessionToken(s, m)
      PROVE  StatusOf' = StatusOf
  <2>1. \A q \in SessionIds : sessionTokens'[q] = None <=> sessionTokens[q] = None
    BY <1>6, <1>a, NewObjects DEF UpdateSessionToken, TypeOK
  <2>2. unverifiedTokens[s] # None => [unverifiedTokens[s] EXCEPT !.mustVerify = TRUE] # None
    <3>1. unverifiedTokens[s] \in UnverifiedToken \cup {None}
      BY <1>a, <1>b DEF TypeOK
    <3>2. QED
      BY <3>1, NewObjects
  <2>3. \A t \in TokenIds : unverifiedTokens'[t] = None <=> unverifiedTokens[t] = None
    BY <1>6, <1>a, <2>2 DEF UpdateSessionToken, TypeOK
  <2>4. QED
    BY <1>5, <1>6, <2>1, <2>3 DEF UpdateSessionToken
<1>7. ASSUME NEW t \in TokenIds, ExpireCode(t)
      PROVE  StatusOf' = StatusOf
  <2>1. \A o \in TokenIds : unverifiedTokens'[o] = None <=> unverifiedTokens[o] = None
    <3>1. unverifiedTokens[t] # None => [unverifiedTokens[t] EXCEPT !.expired = TRUE] # None
      BY <1>7, <1>a, NewObjects DEF TypeOK
    <3>2. QED
      BY <1>7, <1>a, <3>1 DEF ExpireCode, TypeOK
  <2>2. QED
    BY <1>5, <1>7, <2>1 DEF ExpireCode
<1>8. QED
  BY <1>1, <1>2, <1>3, <1>4, <1>5, <1>6, <1>7
  DEF TokenStep, VerifyTokenCode, CreateSecurityEvent

(* ... and so do callbacks.                                                *)
LEMMA CallbackMaps ==
  ASSUME IInv, TypeOK', CallbackStep
  PROVE  Lifecycle!Next \/ StatusOf' = StatusOf
<1>a. TypeOK
  BY DEF IInv
<1>b. /\ SessionIds \cap KeyFetchIds = {} /\ TokenIds = SessionIds \cup KeyFetchIds
      /\ OwnerOf \in [TokenIds -> Uids]
  BY MemAssumption DEF TokenIds
<1>c. PICK r \in Requests :
        \/ DeleteSessionDevices(r) \/ DeleteSessionRows(r)
        \/ VerifyFirst(r) \/ SetMethod(r)
        \/ CreateDevice(r) \/ UpdateDevice(r) \/ DeleteDevice(r)
        \/ ResetAccount(r) \/ DeleteAccount(r)
  BY CallbackCases
<1>1. ASSUME UNCHANGED <<keyFetchTokens, unverifiedTokens>>,
             \A s \in SessionIds : sessionTokens'[s] = None <=> sessionTokens[s] = None
      PROVE  StatusOf' = StatusOf
  BY <1>1, StatusSame DEF TokenExists
<1>2. CASE DeleteSessionDevices(r) \/ DeleteDevice(r)
  BY <1>1, <1>2 DEF DeleteSessionDevices, DeleteDevice
<1>3. CASE CreateDevice(r) \/ UpdateDevice(r)
  <2>1. \A s \in SessionIds : sessionTokens'[s] = None <=> sessionTokens[s] = None
    BY <1>a, <1>3, DeviceStepSessions DEF SameButDevices
  <2>2. QED
    BY <1>1, <1>3, <2>1 DEF CreateDevice, UpdateDevice
<1>4. CASE SetMethod(r)
  BY <1>a, <1>1, <1>4, CallFields, NewObjects DEF SetMethod, TypeOK
<1>5. CASE VerifyFirst(r)
  <2>1. OwnerOf[calls[r].sessionTokenId] \in Uids
    BY <1>5, <1>a, <1>b, CallFields DEF VerifyFirst
  <2>2. \A t \in TokenIds : TokenExists(t)' <=> TokenExists(t)
    BY <1>5 DEF VerifyFirst, TokenExists
  <2>3. QED
    BY <1>1, <1>5, <2>1, <2>2, VerifyMaps DEF VerifyFirst
<1>6. CASE DeleteSessionRows(r)
  <2>1. PICK s \in SessionIds : s = calls[r].sessionTokenId
    BY <1>6, <1>a, CallFields DEF DeleteSessionRows
  <2>2. ~TokenExists(s)' /\ OwnerOf[s] \in Uids /\ {s} \in SUBSET TokenIds
    <3>1. sessionTokens'[s] = None
      BY <1>6, <1>a, <2>1 DEF DeleteSessionRows, TypeOK
    <3>2. s \notin keyFetchTokens' /\ s \in TokenIds
      BY <1>6, <1>a, <1>b, <2>1 DEF DeleteSessionRows, TypeOK
    <3>3. QED
      BY <1>b, <3>1, <3>2 DEF TokenExists
  <2>3. \A t \in TokenIds \ {s} : /\ TokenExists(t)' <=> TokenExists(t)
                                 /\ unverifiedTokens'[t] = unverifiedTokens[t]
    BY <1>6, <1>a, <2>1 DEF DeleteSessionRows, TokenExists, TypeOK
  <2>4. \A t \in {s} : OwnerOf[t] = OwnerOf[s] /\ ~TokenExists(t)'
    BY <2>2
  <2>5. QED
    BY <2>2, <2>3, <2>4, RevokeMaps
<1>7. CASE ResetAccount(r) \/ DeleteAccount(r)
  <2> DEFINE u == calls[r].uid
             T == {t \in TokenIds : OwnerOf[t] = u}
  <2>1. u \in Uids /\ DeleteTokensOf(u)
    BY <1>7, <1>a, CallFields DEF ResetAccount, DeleteAccount
  <2> HIDE DEF u
  <2>2. \A t \in T : OwnerOf[t] = u /\ ~TokenExists(t)'
    BY <1>b, <2>1 DEF DeleteTokensOf, TokenExists
  <2>3. \A t \in TokenIds \ T : /\ TokenExists(t)' <=> TokenExists(t)
                               /\ unverifiedTokens'[t] = unverifiedTokens[t]
    BY <1>a, <2>1 DEF DeleteTokensOf, TokenExists, TypeOK
  <2>4. QED
    BY <2>1, <2>2, <2>3, RevokeMaps
<1>8. QED
  BY <1>c, <1>2, <1>3, <1>4, <1>5, <1>6, <1>7

(* The in-memory store implements TokenLifecycle: see LifecycleSpec.       *)
THEOREM MemImplementsLifecycle == Spec => LifecycleSpec
<1>1. Init => Lifecycle!Init
  BY DEF Init, Lifecycle!Init, Lifecycle!Absent, StatusOf, TokenExists
<1>2. IInv /\ IInv' /\ [Next]_vars => [Lifecycle!Next]_StatusOf
  <2> SUFFICES ASSUME IInv, IInv', [Next]_vars PROVE Lifecycle!Next \/ StatusOf' = StatusOf
    OBVIOUS
  <2>1. TypeOK'
    BY DEF IInv
  <2>2. CASE CallStep \/ UNCHANGED vars
    <3>1. UNCHANGED tables
      BY <2>2, CallStepCases DEF vars
    <3>2. QED
      BY <3>1, StatusSame DEF tables, TokenExists
  <2>3. QED
    BY <2>1, <2>2, TokenStepMaps, CallbackMaps DEF Next
<1>3. QED
  BY <1>1, <1>2, InductiveInvariant, PTL DEF Spec, LifecycleSpec, Lifecycle!Spec

(* A step of the lifecycle never takes a verification back, and verifies   *)
(* tokens of one account only.                                             *)
LEMMA LifecycleKeeps ==
  ASSUME [Lifecycle!Next]_StatusOf
  PROVE  /\ \A t \in TokenIds :
              StatusOf[t] = Lifecycle!Verified => StatusOf'[t] # Lifecycle!Unverified
         /\ \A s, t \in TokenIds :
              /\ StatusOf[s] = Lifecycle!Unverified /\ StatusOf'[s] = Lifecycle!Verified
              /\ StatusOf[t] = Lifecycle!Unverified /\ StatusOf'[t] = Lifecycle!Verified
              => OwnerOf[s] = OwnerOf[t]
<1> USE DEF Lifecycle!Absent, Lifecycle!Unverified, Lifecycle!Verified
<1>2. StatusOf = [t \in TokenIds |-> StatusOf[t]] BY DEF StatusOf
<1> HIDE DEF StatusOf
<1>3. CASE UNCHANGED StatusOf BY <1>3
<1>4. ASSUME NEW t \in TokenIds, NEW st \in {"unverified", "verified"}, Lifecycle!Issue(t, st)
      PROVE  \A s \in TokenIds : s # t => StatusOf'[s] = StatusOf[s]
  BY <1>2, <1>4 DEF Lifecycle!Issue
<1>5. CASE \E t \in TokenIds, st \in {"unverified", "verified"} : Lifecycle!Issue(t, st)
  BY <1>4, <1>5 DEF Lifecycle!Issue
<1>6. CASE \E u \in Uids, T \in SUBSET TokenIds : Lifecycle!Verify(u, T)
  BY <1>6 DEF Lifecycle!Verify
<1>7. CASE \E u \in Uids, T \in SUBSET TokenIds : Lifecycle!Revoke(u, T)
  BY <1>7 DEF Lifecycle!Revoke
<1>8. CASE \E T \in SUBSET SessionIds : Lifecycle!Expire(T)
  BY <1>8 DEF Lifecycle!Expire
<1> QED BY <1>3, <1>5, <1>6, <1>7, <1>8 DEF Lifecycle!Next

(* So in the in-memory store a token that is verified stays verified while *)
(* it lives, in whatever order callbacks run, ...                          *)
THEOREM VerifiedStaysVerified == Spec => Lifecycle!VerifiedForGood
<1>1. [Lifecycle!Next]_StatusOf =>
        [\A t \in TokenIds :
           StatusOf[t] = Lifecycle!Verified => StatusOf'[t] # Lifecycle!Unverified]_StatusOf
  BY LifecycleKeeps
<1> QED BY <1>1, MemImplementsLifecycle, PTL DEF LifecycleSpec, Lifecycle!Spec, Lifecycle!VerifiedForGood

(* ... and no step verifies tokens of two accounts, although callers of two*)
(* accounts may choose the same tokenVerificationId.                       *)
THEOREM VerifiedWithinAccount == Spec => Lifecycle!VerifiedByAccount
<1>1. [Lifecycle!Next]_StatusOf =>
        [\A s, t \in TokenIds :
           /\ StatusOf[s] = Lifecycle!Unverified /\ StatusOf'[s] = Lifecycle!Verified
           /\ StatusOf[t] = Lifecycle!Unverified /\ StatusOf'[t] = Lifecycle!Verified
           => OwnerOf[s] = OwnerOf[t]]_StatusOf
  BY LifecycleKeeps
<1> QED BY <1>1, MemImplementsLifecycle, PTL DEF LifecycleSpec, Lifecycle!Spec, Lifecycle!VerifiedByAccount
=============================================================================
