------------------------------ MODULE MemTokens ------------------------------
(***************************************************************************)
(* Sessions, key-fetch tokens, devices and security events of the          *)
(* in-memory store, lib/db/mem.js.                                         *)
(*                                                                         *)
(* One process runs every request, so a function without promises is one   *)
(* step.  A callback of a promise runs in a later turn of the event loop:  *)
(* what a function remembers until then is in calls, and any other request *)
(* or callback may run before it.  An account found by getAccountByUid is  *)
(* an object that its callback keeps even if the account is deleted in     *)
(* between.                                                                *)
(***************************************************************************)
EXTENDS Naturals, FiniteSets

CONSTANTS
  Uids,              \* accounts
  SessionIds,        \* session token ids
  KeyFetchIds,       \* key-fetch token ids
  OwnerOf,           \* the account an id was minted for
  VerificationIds,   \* values of tokenVerificationId
  CodeHashes,        \* values of tokenVerificationCodeHash
  Methods,           \* values of verificationMethod
  DeviceIds,         \* device ids
  Requests,          \* concurrent requests that wait for a callback
  MaxEvents,         \* bound on the distinct security events
  NULL,              \* null
  None               \* "undefined": no such property

TokenIds == SessionIds \cup KeyFetchIds

(* A session or an unverified token has the uid of its id's owner.         *)
Session ==
  [mustVerify : BOOLEAN, verificationMethod : Methods \cup {NULL},
   deviceKey : DeviceIds \cup {NULL}]

(* expired: tokenVerificationCodeExpiresAt is in the past.                 *)
UnverifiedToken ==
  [tokenVerificationId : VerificationIds, mustVerify : BOOLEAN,
   codeHash : CodeHashes \cup {NULL}, expired : BOOLEAN]

SecurityEvent == [uid : Uids, tokenId : TokenIds \cup {NULL}, verified : BOOLEAN]

(* What a waiting callback holds.                                          *)
Idle == [proc |-> "idle"]
AccountCall ==
  [proc : {"createDevice", "updateDevice"}, uid : Uids, id : DeviceIds,
   sessionTokenId : SessionIds \cup {NULL}]
    \cup [proc : {"deleteDevice"}, uid : Uids, id : DeviceIds]
    \cup [proc : {"resetAccount", "deleteAccount"}, uid : Uids]
TokenCall ==
  [proc : {"sessionDevices", "sessionRows"}, sessionTokenId : SessionIds]
    \cup [proc : {"verifyFirst"}, sessionTokenId : SessionIds, method : Methods,
          tokenVerificationId : VerificationIds]
    \cup [proc : {"setMethod"}, sessionTokenId : SessionIds, method : Methods]

ASSUME MemAssumption ==
  /\ SessionIds \cap KeyFetchIds = {}
  /\ OwnerOf \in [TokenIds -> Uids]
  /\ NULL # None
  /\ {NULL, None} \cap (TokenIds \cup DeviceIds \cup Methods \cup CodeHashes) = {}
  /\ None \notin Session \cup UnverifiedToken

VARIABLES
  accounts,          \* keys of the object accounts
  devices,           \* [Uids -> [DeviceIds -> sessionTokenId, NULL, or None]]
  sessionTokens,     \* [SessionIds -> object or None]
  keyFetchTokens,    \* keys of the object keyFetchTokens
  unverifiedTokens,  \* [TokenIds -> object or None]
  securityEvents,    \* a set of events: equal ones are not told apart
  issued,            \* ids used so far: they are random, so none is used twice (history)
  calls              \* [Requests -> what the request's callback holds]

tables == <<accounts, devices, sessionTokens, keyFetchTokens, unverifiedTokens, securityEvents>>
vars == <<tables, issued, calls>>

TypeOK ==
  /\ accounts \subseteq Uids
  /\ devices \in [Uids -> [DeviceIds -> SessionIds \cup {NULL, None}]]
  /\ sessionTokens \in [SessionIds -> Session \cup {None}]
  /\ keyFetchTokens \subseteq KeyFetchIds
  /\ unverifiedTokens \in [TokenIds -> UnverifiedToken \cup {None}]
  /\ securityEvents \subseteq SecurityEvent
  /\ issued \subseteq TokenIds
  /\ calls \in [Requests -> {Idle} \cup AccountCall \cup TokenCall]

Init ==
  /\ accounts = Uids
  /\ devices = [u \in Uids |-> [d \in DeviceIds |-> None]]
  /\ sessionTokens = [s \in SessionIds |-> None]
  /\ keyFetchTokens = {}
  /\ unverifiedTokens = [t \in TokenIds |-> None]
  /\ securityEvents = {}
  /\ issued = {}
  /\ calls = [r \in Requests |-> Idle]

Continue(r, c) == calls' = [calls EXCEPT ![r] = c]
Done(r) == Continue(r, Idle)

-----------------------------------------------------------------------------
(* Functions without promises.                                             *)

(* createSessionToken: x is the tokenVerificationId, NULL for a session    *)
(* that needs no verification.  Nothing asks whether the account exists.   *)
CreateSessionToken(s, m, x, k) ==
  /\ s \notin issued
  /\ x = NULL => k = NULL
  /\ sessionTokens' = [sessionTokens EXCEPT
       ![s] = [mustVerify |-> m, verificationMethod |-> NULL, deviceKey |-> NULL]]
  /\ unverifiedTokens' = IF x = NULL THEN unverifiedTokens ELSE
       [unverifiedTokens EXCEPT
         ![s] = [tokenVerificationId |-> x, mustVerify |-> m, codeHash |-> k, expired |-> FALSE]]
  /\ issued' = issued \cup {s}
  /\ UNCHANGED <<accounts, devices, keyFetchTokens, securityEvents, calls>>

(* createKeyFetchToken                                                     *)
CreateKeyFetchToken(t, x) ==
  /\ t \notin issued
  /\ keyFetchTokens' = keyFetchTokens \cup {t}
  /\ unverifiedTokens' = IF x = NULL THEN unverifiedTokens ELSE
       [unverifiedTokens EXCEPT
         ![t] = [tokenVerificationId |-> x, mustVerify |-> FALSE, codeHash |-> NULL,
                 expired |-> FALSE]]
  /\ issued' = issued \cup {t}
  /\ UNCHANGED <<accounts, devices, sessionTokens, securityEvents, calls>>

DeleteKeyFetchToken(t) ==
  /\ unverifiedTokens' = [unverifiedTokens EXCEPT ![t] = None]
  /\ keyFetchTokens' = keyFetchTokens \ {t}
  /\ UNCHANGED <<accounts, devices, sessionTokens, securityEvents, issued, calls>>

(* Faulty: the unverified token is not told.                               *)
UpdateSessionToken_OneTable(s, m) ==
  /\ sessionTokens[s] # None
  /\ sessionTokens' = [sessionTokens EXCEPT ![s].mustVerify = m]
  /\ UNCHANGED <<accounts, devices, keyFetchTokens, unverifiedTokens, securityEvents, issued, calls>>

(* Faulty: an unverified token is made where there is none.                *)
UpdateSessionToken_NoGuard(s, m) ==
  /\ sessionTokens[s] # None
  /\ sessionTokens' = [sessionTokens EXCEPT ![s].mustVerify = m]
  /\ \E x \in VerificationIds :
       unverifiedTokens' = IF m
         THEN [unverifiedTokens EXCEPT ![s] =
                [tokenVerificationId |-> x, mustVerify |-> TRUE, codeHash |-> NULL,
                 expired |-> FALSE]]
         ELSE unverifiedTokens
  /\ UNCHANGED <<accounts, devices, keyFetchTokens, securityEvents, issued, calls>>

(* updateSessionToken with a mustVerify: Object.assign writes it to the    *)
(* session whatever it is, the unverified token only ever gets true.       *)
UpdateSessionToken(s, m) ==
  /\ sessionTokens[s] # None
  /\ sessionTokens' = [sessionTokens EXCEPT ![s].mustVerify = m]
  /\ unverifiedTokens' = IF m /\ unverifiedTokens[s] # None
                         THEN [unverifiedTokens EXCEPT ![s].mustVerify = TRUE]
                         ELSE unverifiedTokens
  /\ UNCHANGED <<accounts, devices, keyFetchTokens, securityEvents, issued, calls>>

(* The unverified tokens of account u with this tokenVerificationId.       *)
WithVerificationId(u, x) ==
  {t \in TokenIds : /\ unverifiedTokens[t] # None
                    /\ unverifiedTokens[t].tokenVerificationId = x
                    /\ OwnerOf[t] = u}

(* The reduce of verifyTokens: the unverified tokens with this             *)
(* tokenVerificationId go, and the account's events of each are verified.  *)
VerifyTokensOf(u, x) ==
  LET T == WithVerificationId(u, x)
  IN  /\ T # {}
      /\ unverifiedTokens' = [t \in TokenIds |-> IF t \in T THEN None ELSE unverifiedTokens[t]]
      /\ securityEvents' = {IF e.uid = u /\ e.tokenId \in T THEN [e EXCEPT !.verified = TRUE]
                            ELSE e : e \in securityEvents}

(* verifyTokens; notFound, which changes nothing, when there is no token.  *)
VerifyTokens(u, x) ==
  /\ VerifyTokensOf(u, x)
  /\ UNCHANGED <<accounts, devices, sessionTokens, keyFetchTokens, issued, calls>>

(* verifyTokenCode: the token with this code may be of another account, it *)
(* is the first of the object's keys, which this leaves open.  Its         *)
(* tokenVerificationId is then verified for the account of the request.    *)
VerifyTokenCode(u, k) ==
  \E t \in TokenIds :
    /\ unverifiedTokens[t] # None
    /\ unverifiedTokens[t].codeHash = k
    /\ ~unverifiedTokens[t].expired
    /\ VerifyTokens(u, unverifiedTokens[t].tokenVerificationId)

(* Time passes a tokenVerificationCodeExpiresAt.                           *)
ExpireCode(t) ==
  /\ unverifiedTokens[t] # None
  /\ unverifiedTokens[t].codeHash # NULL
  /\ unverifiedTokens' = [unverifiedTokens EXCEPT ![t].expired = TRUE]
  /\ UNCHANGED <<accounts, devices, sessionTokens, keyFetchTokens, securityEvents, issued, calls>>

(* createSecurityEvent, for a token that was issued or for none.           *)
CreateSecurityEvent(u, t) ==
  /\ t \in issued \cup {NULL}
  /\ LET e == [uid |-> u, tokenId |-> t,
               verified |-> t = NULL \/ unverifiedTokens[t] = None]
     IN  /\ Cardinality(securityEvents \cup {e}) <= MaxEvents
         /\ securityEvents' = securityEvents \cup {e}
  /\ UNCHANGED <<accounts, devices, sessionTokens, keyFetchTokens, unverifiedTokens, issued, calls>>

-----------------------------------------------------------------------------
(* Deleting a session: deleteSessionToken.  The session is looked up when  *)
(* the function is called and its account one turn later; here both are    *)
(* one step, because an account deleted in that turn takes the session     *)
(* with it and leaves the later turns nothing to do.                       *)

BeingDeleted(r, s) ==
  calls[r].proc \in {"sessionDevices", "sessionRows"} /\ calls[r].sessionTokenId = s

(* What is left to do for session s: nothing if its account is gone; its   *)
(* devices first if the session is there; then the rows.                   *)
DeletionOf(s) ==
  IF sessionTokens[s] = None THEN [proc |-> "sessionRows", sessionTokenId |-> s]
  ELSE IF OwnerOf[s] \in accounts THEN [proc |-> "sessionDevices", sessionTokenId |-> s]
  ELSE Idle

DeleteSessionToken(r, s) ==
  /\ calls[r] = Idle
  /\ Continue(r, DeletionOf(s))
  /\ UNCHANGED <<tables, issued>>

(* Faulty: the unverified token goes first, in the callback that deletes   *)
(* the devices.                                                            *)
DeleteSessionDevices_Unverified(r) ==
  /\ calls[r].proc = "sessionDevices"
  /\ LET s == calls[r].sessionTokenId
         u == OwnerOf[s]
     IN  /\ devices' = [devices EXCEPT ![u] =
              [d \in DeviceIds |-> IF devices[u][d] = s THEN None ELSE devices[u][d]]]
         /\ unverifiedTokens' = [unverifiedTokens EXCEPT ![s] = None]
         /\ Continue(r, [proc |-> "sessionRows", sessionTokenId |-> s])
  /\ UNCHANGED <<accounts, sessionTokens, keyFetchTokens, securityEvents, issued>>

DeleteSessionDevices(r) ==
  /\ calls[r].proc = "sessionDevices"
  /\ LET s == calls[r].sessionTokenId
         u == OwnerOf[s]
     IN  /\ devices' = [devices EXCEPT ![u] =
              [d \in DeviceIds |-> IF devices[u][d] = s THEN None ELSE devices[u][d]]]
         /\ Continue(r, [proc |-> "sessionRows", sessionTokenId |-> s])
  /\ UNCHANGED <<accounts, sessionTokens, keyFetchTokens, unverifiedTokens, securityEvents, issued>>

DeleteSessionRows(r) ==
  /\ calls[r].proc = "sessionRows"
  /\ unverifiedTokens' = [unverifiedTokens EXCEPT ![calls[r].sessionTokenId] = None]
  /\ sessionTokens' = [sessionTokens EXCEPT ![calls[r].sessionTokenId] = None]
  /\ Done(r)
  /\ UNCHANGED <<accounts, devices, keyFetchTokens, securityEvents, issued>>

-----------------------------------------------------------------------------
(* Verifying a session with a method: verifyTokensWithMethod.              *)

(* Faulty: the session is not verified first.                              *)
VerifyTokensWithMethod_MethodOnly(r, s, m) ==
  /\ calls[r] = Idle
  /\ sessionTokens[s] # None
  /\ OwnerOf[s] \in accounts
  /\ Continue(r, [proc |-> "setMethod", sessionTokenId |-> s, method |-> m])
  /\ UNCHANGED <<tables, issued>>

(* sessionToken() finds the session, and its account, or throws.           *)
VerifyTokensWithMethod(r, s, m) ==
  /\ calls[r] = Idle
  /\ sessionTokens[s] # None
  /\ OwnerOf[s] \in accounts
  /\ Continue(r,
       IF unverifiedTokens[s] = None
       THEN [proc |-> "setMethod", sessionTokenId |-> s, method |-> m]
       ELSE [proc |-> "verifyFirst", sessionTokenId |-> s, method |-> m,
             tokenVerificationId |-> unverifiedTokens[s].tokenVerificationId])
  /\ UNCHANGED <<tables, issued>>

(* The tokenVerificationId that was read is verified, or is not there any  *)
(* more: the request fails.                                                *)
VerifyFirst(r) ==
  /\ calls[r].proc = "verifyFirst"
  /\ LET u == OwnerOf[calls[r].sessionTokenId]
         x == calls[r].tokenVerificationId
     IN  \/ /\ VerifyTokensOf(u, x)
            /\ Continue(r, [proc |-> "setMethod", method |-> calls[r].method,
                            sessionTokenId |-> calls[r].sessionTokenId])
         \/ /\ WithVerificationId(u, x) = {}
            /\ Done(r)
            /\ UNCHANGED <<unverifiedTokens, securityEvents>>
  /\ UNCHANGED <<accounts, devices, sessionTokens, keyFetchTokens, issued>>

(* A TypeError if the session is gone.                                     *)
SetMethod(r) ==
  /\ calls[r].proc = "setMethod"
  /\ LET s == calls[r].sessionTokenId
     IN  sessionTokens' = IF sessionTokens[s] = None THEN sessionTokens ELSE
           [sessionTokens EXCEPT ![s].verificationMethod = calls[r].method]
  /\ Done(r)
  /\ UNCHANGED <<accounts, devices, keyFetchTokens, unverifiedTokens, securityEvents, issued>>

-----------------------------------------------------------------------------
(* Callbacks of getAccountByUid.                                           *)

(* getAccountByUid: without an account the request fails.                  *)
AccountFound(r, c) ==
  /\ calls[r] = Idle
  /\ c.uid \in accounts
  /\ Continue(r, c)
  /\ UNCHANGED <<tables, issued>>

(* Another device uses the session: updateDeviceRecord throws duplicate.   *)
SessionTaken(s, d, sessions) ==
  s # NULL /\ sessions[s] # None /\ sessions[s].deviceKey \notin {NULL, d}

(* The rest of updateDeviceRecord: the session, if there is one, remembers *)
(* its device.                                                             *)
WriteDevice(u, d, s, sessions) ==
  /\ devices' = [devices EXCEPT ![u][d] = s]
  /\ sessionTokens' = IF s = NULL \/ sessions[s] = None THEN sessions
                      ELSE [sessions EXCEPT ![s].deviceKey = d]

CreateDevice(r) ==
  /\ calls[r].proc = "createDevice"
  /\ LET u == calls[r].uid
         d == calls[r].id
         s == calls[r].sessionTokenId
     IN  IF devices[u][d] # None \/ SessionTaken(s, d, sessionTokens)
         THEN UNCHANGED <<devices, sessionTokens>>
         ELSE WriteDevice(u, d, s, sessionTokens)
  /\ Done(r)
  /\ UNCHANGED <<accounts, keyFetchTokens, unverifiedTokens, securityEvents, issued>>

(* The sessions after session s was told that device d no longer uses it.  *)
WithoutDevice(s) ==
  IF s = NULL \/ sessionTokens[s] = None THEN sessionTokens
  ELSE [sessionTokens EXCEPT ![s].deviceKey = NULL]

(* Faulty: the session that the device used is not told.                   *)
UpdateDevice_KeepOld(r) ==
  /\ calls[r].proc = "updateDevice"
  /\ LET u == calls[r].uid
         d == calls[r].id
         old == devices[u][d]
         new == IF calls[r].sessionTokenId = NULL THEN old ELSE calls[r].sessionTokenId
     IN  IF old = None \/ SessionTaken(new, d, sessionTokens)
         THEN UNCHANGED <<devices, sessionTokens>>
         ELSE WriteDevice(u, d, new, sessionTokens)
  /\ Done(r)
  /\ UNCHANGED <<accounts, keyFetchTokens, unverifiedTokens, securityEvents, issued>>

(* The session that the device used so far is told before it is known      *)
(* whether the device can have the new one.                                *)
UpdateDevice(r) ==
  /\ calls[r].proc = "updateDevice"
  /\ LET u == calls[r].uid
         d == calls[r].id
         old == devices[u][d]
         new == IF calls[r].sessionTokenId = NULL THEN old ELSE calls[r].sessionTokenId
         told == IF new = old THEN sessionTokens ELSE WithoutDevice(old)
     IN  IF old = None THEN UNCHANGED <<devices, sessionTokens>>
         ELSE IF SessionTaken(new, d, told)
         THEN sessionTokens' = told /\ UNCHANGED devices
         ELSE WriteDevice(u, d, new, told)
  /\ Done(r)
  /\ UNCHANGED <<accounts, keyFetchTokens, unverifiedTokens, securityEvents, issued>>

(* The device is deleted, then its session as by deleteSessionToken; for a *)
(* device without session that is a TypeError.                             *)
DeleteDevice(r) ==
  /\ calls[r].proc = "deleteDevice"
  /\ LET u == calls[r].uid
         d == calls[r].id
         s == devices[u][d]
     IN  /\ devices' = [devices EXCEPT ![u][d] = None]
         /\ Continue(r, IF s \in {NULL, None} THEN Idle ELSE DeletionOf(s))
  /\ UNCHANGED <<accounts, sessionTokens, keyFetchTokens, unverifiedTokens, securityEvents, issued>>

(* deleteByUid on the three collections of tokens.                         *)
DeleteTokensOf(u) ==
  /\ sessionTokens' = [s \in SessionIds |-> IF OwnerOf[s] = u THEN None ELSE sessionTokens[s]]
  /\ keyFetchTokens' = {t \in keyFetchTokens : OwnerOf[t] # u}
  /\ unverifiedTokens' = [t \in TokenIds |-> IF OwnerOf[t] = u THEN None ELSE unverifiedTokens[t]]

ResetAccount(r) ==
  /\ calls[r].proc = "resetAccount"
  /\ DeleteTokensOf(calls[r].uid)
  /\ devices' = [devices EXCEPT ![calls[r].uid] = [d \in DeviceIds |-> None]]
  /\ Done(r)
  /\ UNCHANGED <<accounts, securityEvents, issued>>

(* The account's object, with its devices, stays for the callbacks that    *)
(* have it.                                                                *)
DeleteAccount(r) ==
  /\ calls[r].proc = "deleteAccount"
  /\ DeleteTokensOf(calls[r].uid)
  /\ accounts' = accounts \ {calls[r].uid}
  /\ securityEvents' = {e \in securityEvents : e.uid # calls[r].uid}
  /\ Done(r)
  /\ UNCHANGED <<devices, issued>>

-----------------------------------------------------------------------------
TokenStep ==
  \/ \E s \in SessionIds, m \in BOOLEAN, x \in VerificationIds \cup {NULL},
        k \in CodeHashes \cup {NULL} : CreateSessionToken(s, m, x, k)
  \/ \E s \in SessionIds, m \in BOOLEAN : UpdateSessionToken(s, m)
  \/ \E t \in KeyFetchIds, x \in VerificationIds \cup {NULL} : CreateKeyFetchToken(t, x)
  \/ \E t \in KeyFetchIds : DeleteKeyFetchToken(t)
  \/ \E u \in Uids, x \in VerificationIds : VerifyTokens(u, x)
  \/ \E u \in Uids, k \in CodeHashes : VerifyTokenCode(u, k)
  \/ \E t \in TokenIds : ExpireCode(t)
  \/ \E u \in Uids, t \in TokenIds \cup {NULL} : CreateSecurityEvent(u, t)

(* An assumption on the callers, as in SessionTokens: the session that a   *)
(* request gives for a device is, or was, one of the account's.            *)
CallStep ==
  \/ \E r \in Requests, s \in SessionIds : DeleteSessionToken(r, s)
  \/ \E r \in Requests, s \in SessionIds, m \in Methods : VerifyTokensWithMethod(r, s, m)
  \/ \E r \in Requests :
       \E c \in {a \in AccountCall : a.proc \in {"createDevice", "updateDevice"} =>
                   a.sessionTokenId \in {NULL} \cup {s \in issued : OwnerOf[s] = a.uid}} :
         AccountFound(r, c)

CallbackStep ==
  \E r \in Requests :
    \/ DeleteSessionDevices(r) \/ DeleteSessionRows(r)
    \/ VerifyFirst(r) \/ SetMethod(r)
    \/ CreateDevice(r) \/ UpdateDevice(r) \/ DeleteDevice(r)
    \/ ResetAccount(r) \/ DeleteAccount(r)

Next == TokenStep \/ CallStep \/ CallbackStep

Spec == Init /\ [][Next]_vars

-----------------------------------------------------------------------------
(* Properties.                                                             *)

TokenExists(t) ==
  t \in keyFetchTokens \/ (t \in SessionIds /\ sessionTokens[t] # None)

(* An account's event says of its token what unverifiedTokens says of it,  *)
(* for as long as the token exists: mem.js keeps no tokenVerificationId in *)
(* the event and finds it through the token's id when that is verified.    *)
EventsFollowTokens ==
  \A e \in securityEvents :
    e.tokenId # NULL /\ e.uid = OwnerOf[e.tokenId] /\ TokenExists(e.tokenId) =>
      (e.verified <=> unverifiedTokens[e.tokenId] = None)

(* A session that records how it was verified is verified, although        *)
(* verifyTokensWithMethod reads, verifies and writes in three turns.       *)
MethodOnlyWhenVerified ==
  \A s \in SessionIds :
    sessionTokens[s] # None /\ sessionTokens[s].verificationMethod # NULL =>
      unverifiedTokens[s] = None

(* The mustVerify that sessionToken() answers.                             *)
MustVerify(s) ==
  \/ sessionTokens[s].mustVerify
  \/ unverifiedTokens[s] # None /\ unverifiedTokens[s].mustVerify

(* While a session is unverified, sessionToken() never takes back that it  *)
(* must be verified, although an update can reset the session's own flag.  *)
MustVerifyKept ==
  [][\A s \in SessionIds :
       /\ sessionTokens[s] # None /\ unverifiedTokens[s] # None /\ MustVerify(s)
       /\ sessionTokens'[s] # None /\ unverifiedTokens'[s] # None
       => MustVerify(s)']_vars

(* The device that a session remembers uses that session, unless the       *)
(* session is being deleted.  updateDevice relies on it to tell which      *)
(* sessions are taken.                                                     *)
DeviceKeysPointBack ==
  \A s \in SessionIds :
    LET u == OwnerOf[s]
    IN  sessionTokens[s] # None /\ sessionTokens[s].deviceKey # NULL /\ u \in accounts =>
          \/ devices[u][sessionTokens[s].deviceKey] = s
          \/ \E r \in Requests : BeingDeleted(r, s)

(* An id that is in use, or was, will not be used for another token.       *)
IdsIssued ==
  /\ \A t \in TokenIds : TokenExists(t) => t \in issued
  /\ \A e \in securityEvents : e.tokenId \in issued \cup {NULL}
  /\ \A r \in Requests : calls[r].proc \in {"verifyFirst", "setMethod"} =>
       calls[r].sessionTokenId \in issued

(* No unverified token outlives its session or key-fetch token.            *)
UnverifiedTokensExist ==
  \A t \in TokenIds : unverifiedTokens[t] # None => TokenExists(t)

(* A device uses a session of its own account.                             *)
DevicesOwnSessions ==
  /\ \A u \in Uids, d \in DeviceIds : devices[u][d] \in SessionIds => OwnerOf[devices[u][d]] = u
  /\ \A r \in Requests : calls[r].proc \in {"createDevice", "updateDevice"} =>
       (calls[r].sessionTokenId \in SessionIds => OwnerOf[calls[r].sessionTokenId] = calls[r].uid)

(* A session that waits for its method is verified, one that waits to be   *)
(* verified will be by the tokenVerificationId that was read.              *)
VerifiedFirst ==
  \A r \in Requests :
    /\ calls[r].proc = "setMethod" => unverifiedTokens[calls[r].sessionTokenId] = None
    /\ calls[r].proc = "verifyFirst" =>
         \/ unverifiedTokens[calls[r].sessionTokenId] = None
         \/ unverifiedTokens[calls[r].sessionTokenId].tokenVerificationId
              = calls[r].tokenVerificationId

(* What a session must is recorded with its unverified token, too.         *)
MustVerifyRecorded ==
  \A s \in SessionIds :
    sessionTokens[s] # None /\ unverifiedTokens[s] # None /\ sessionTokens[s].mustVerify =>
      unverifiedTokens[s].mustVerify

(* Inductive.                                                              *)
IInv ==
  /\ TypeOK
  /\ IdsIssued
  /\ UnverifiedTokensExist
  /\ DevicesOwnSessions
  /\ VerifiedFirst
  /\ MustVerifyRecorded
  /\ EventsFollowTokens
  /\ MethodOnlyWhenVerified
  /\ DeviceKeysPointBack

StatusOf ==
  [t \in TokenIds |-> IF ~TokenExists(t) THEN "absent"
                      ELSE IF unverifiedTokens[t] # None THEN "unverified" ELSE "verified"]

Lifecycle == INSTANCE TokenLifecycle WITH status <- StatusOf

(* The in-memory store, too, implements the token lifecycle: tokens are    *)
(* verified and revoked within one account, and none that was verified is  *)
(* unverified later, in any order of the callbacks.                        *)
LifecycleSpec == Lifecycle!Spec
=============================================================================
