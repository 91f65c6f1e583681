---------------------------- MODULE SessionTokens ----------------------------
(***************************************************************************)
(* The tables sessionTokens, keyFetchTokens, unverifiedTokens, devices and *)
(* securityEvents, and the stored procedures of lib/db/schema that         *)
(* lib/db/postgres.js calls on them.                                       *)
(*                                                                         *)
(* A START TRANSACTION ... COMMIT block whose reads all lock is one step.  *)
(* A procedure that runs several statements outside a transaction, or that *)
(* reads without locking before it writes, is several steps of the         *)
(* connection that runs it, and other connections run in between.  Rows of *)
(* other tables that these procedures also touch belong to other modules.  *)
(***************************************************************************)
EXTENDS Naturals, FiniteSets

CONSTANTS
  Uids,              \* accounts
  SessionIds,        \* session token ids
  KeyFetchIds,       \* key-fetch token ids
  OwnerOf,           \* the account an id was minted for: ids are 32 random bytes
  VerificationIds,   \* values of tokenVerificationId
  CodeHashes,        \* values of tokenVerificationCodeHash
  Methods,           \* values of sessionTokens.verificationMethod
  DeviceIds,         \* values of devices.id
  Connections,       \* database connections that run the multi-step procedures
  MaxEvents,         \* bound on the distinct rows of securityEvents
  NULL,              \* SQL's NULL
  None               \* "no such row"

TokenIds == SessionIds \cup KeyFetchIds

(* A row of sessionTokens, without the columns that only describe the user *)
(* agent.  verificationMethod stands for verificationMethod and verifiedAt,*)
(* which are always written together.                                      *)
Session == [uid : Uids, mustVerify : BOOLEAN, verificationMethod : Methods \cup {NULL}]

(* A row of unverifiedTokens.  expired: tokenVerificationCodeExpiresAt is  *)
(* in the past.                                                            *)
UnverifiedToken ==
  [uid : Uids, tokenVerificationId : VerificationIds, mustVerify : BOOLEAN,
   codeHash : CodeHashes \cup {NULL}, expired : BOOLEAN]

SecurityEvent ==
  [uid : Uids, tokenVerificationId : VerificationIds \cup {NULL}, verified : BOOLEAN]

(* What a connection remembers between two statements of one procedure.    *)
Idle == [proc |-> "idle"]
Call ==
  {Idle}
    \cup [proc : {"verifyToken"}, uid : Uids, tokenVerificationId : VerificationIds]
    \cup [proc : {"verifyTokenCode"}, uid : Uids, tokenVerificationId : VerificationIds]
    \cup [proc : {"createSecurityEvent"}, uid : Uids,
          tokenVerificationId : VerificationIds \cup {NULL}]
    \cup [proc : {"deleteDevice"}, uid : Uids, id : DeviceIds,
          sessionTokenId : SessionIds \cup {NULL, None}]

ASSUME TokensAssumption ==
  /\ SessionIds \cap KeyFetchIds = {}
  /\ OwnerOf \in [TokenIds -> Uids]
  /\ NULL # None
  /\ {NULL, None} \cap (SessionIds \cup KeyFetchIds \cup Uids) = {}
  /\ {NULL, None} \cap (VerificationIds \cup CodeHashes \cup Methods) = {}
  /\ None \notin Session \cup UnverifiedToken

VARIABLES
  sessionTokens,     \* [SessionIds -> row or None]
  keyFetchTokens,    \* [KeyFetchIds -> the row's uid or None]
  unverifiedTokens,  \* [TokenIds -> row or None]
  devices,           \* [Uids -> [DeviceIds -> the row's sessionTokenId, NULL, or None]]
  securityEvents,    \* a set of rows: equal rows are not told apart
  calls              \* [Connections -> Call]

vars == <<sessionTokens, keyFetchTokens, unverifiedTokens, devices, securityEvents, calls>>

TypeOK ==
  /\ sessionTokens \in [SessionIds -> Session \cup {None}]
  /\ keyFetchTokens \in [KeyFetchIds -> Uids \cup {None}]
  /\ unverifiedTokens \in [TokenIds -> UnverifiedToken \cup {None}]
  /\ devices \in [Uids -> [DeviceIds -> SessionIds \cup {NULL, None}]]
  /\ securityEvents \subseteq SecurityEvent
  /\ calls \in [Connections -> Call]

Init ==
  /\ sessionTokens = [s \in SessionIds |-> None]
  /\ keyFetchTokens = [t \in KeyFetchIds |-> None]
  /\ unverifiedTokens = [t \in TokenIds |-> None]
  /\ devices = [u \in Uids |-> [d \in DeviceIds |-> None]]
  /\ securityEvents = {}
  /\ calls = [c \in Connections |-> Idle]

-----------------------------------------------------------------------------
(* Statements that several procedures share.                               *)

(* The unique indexes of unverifiedTokens: tokenId, and (codeHash, uid) in *)
(* which NULL never clashes.                                               *)
CanInsertUnverified(t, u, k) ==
  /\ unverifiedTokens[t] = None
  /\ k # NULL => \A o \in TokenIds :
       unverifiedTokens[o] # None =>
         ~(unverifiedTokens[o].uid = u /\ unverifiedTokens[o].codeHash = k)

(* Faulty: without "AND uid = uidArg".                                     *)
HasVerificationId_AnyAccount(t, u, x) ==
  /\ unverifiedTokens[t] # None
  /\ unverifiedTokens[t].tokenVerificationId = x

HasVerificationId(t, u, x) ==
  /\ unverifiedTokens[t] # None
  /\ unverifiedTokens[t].uid = u
  /\ unverifiedTokens[t].tokenVerificationId = x

(* DELETE FROM unverifiedTokens WHERE tokenVerificationId = x AND uid = u  *)
UnverifiedWithout(u, x) ==
  [t \in TokenIds |-> IF HasVerificationId(t, u, x) THEN None ELSE unverifiedTokens[t]]

(* UPDATE securityEvents SET verified = true WHERE tokenVerificationId = x *)
(* AND uid = u                                                             *)
EventsVerified(u, x) ==
  {IF e.uid = u /\ e.tokenVerificationId = x THEN [e EXCEPT !.verified = TRUE] ELSE e :
     e \in securityEvents}

(* DELETE FROM unverifiedTokens WHERE tokenId IN T                         *)
UnverifiedWithoutTokens(T) ==
  [t \in TokenIds |-> IF t \in T THEN None ELSE unverifiedTokens[t]]

SessionsOf(u) == {s \in SessionIds : sessionTokens[s] # None /\ sessionTokens[s].uid = u}

UsesSession(u, d, s) == devices[u][d] = s

-----------------------------------------------------------------------------
(* Session tokens and key-fetch tokens.                                    *)

(* Faulty: REPLACE INTO where the procedure has INSERT INTO.               *)
CreateSessionToken_Replace(s, m, x, k) ==
  /\ sessionTokens' = [sessionTokens EXCEPT
       ![s] = [uid |-> OwnerOf[s], mustVerify |-> m, verificationMethod |-> NULL]]
  /\ unverifiedTokens' = [unverifiedTokens EXCEPT
       ![s] = IF x = NULL THEN None
              ELSE [uid |-> OwnerOf[s], tokenVerificationId |-> x, mustVerify |-> m,
                    codeHash |-> k, expired |-> FALSE]]
  /\ UNCHANGED <<keyFetchTokens, devices, securityEvents, calls>>

(* createSessionToken_9.  x is the tokenVerificationId, NULL for a session *)
(* that needs no verification; k the hash of the tokenVerificationCode.    *)
(* A duplicate key in either INSERT rolls both back.                       *)
CreateSessionToken(s, m, x, k) ==
  /\ sessionTokens[s] = None
  /\ sessionTokens' = [sessionTokens EXCEPT
       ![s] = [uid |-> OwnerOf[s], mustVerify |-> m, verificationMethod |-> NULL]]
  /\ \/ /\ x = NULL /\ k = NULL
        /\ UNCHANGED unverifiedTokens
     \/ /\ x # NULL
        /\ CanInsertUnverified(s, OwnerOf[s], k)
        /\ unverifiedTokens' = [unverifiedTokens EXCEPT
             ![s] = [uid |-> OwnerOf[s], tokenVerificationId |-> x, mustVerify |-> m,
                     codeHash |-> k, expired |-> FALSE]]
  /\ UNCHANGED <<keyFetchTokens, devices, securityEvents, calls>>

(* Faulty: mustVerify is written to unverifiedTokens only, as it was before *)
(* the column was added to sessionTokens.                                  *)
UpdateSessionToken_OneTable(s) ==
  /\ unverifiedTokens' = [unverifiedTokens EXCEPT
       ![s] = IF @ = None THEN None ELSE [@ EXCEPT !.mustVerify = TRUE]]
  /\ UNCHANGED <<sessionTokens, keyFetchTokens, devices, securityEvents, calls>>

(* Faulty: without "IF mustVerifyArg" the argument is written as it is.    *)
UpdateSessionToken_NoIf(s) ==
  \E m \in BOOLEAN :
    /\ sessionTokens' = [sessionTokens EXCEPT
         ![s] = IF @ = None THEN None ELSE [@ EXCEPT !.mustVerify = m]]
    /\ unverifiedTokens' = [unverifiedTokens EXCEPT
         ![s] = IF @ = None THEN None ELSE [@ EXCEPT !.mustVerify = m]]
    /\ UNCHANGED <<keyFetchTokens, devices, securityEvents, calls>>

(* updateSessionToken_3 with mustVerifyArg true; without it the procedure  *)
(* writes only columns that are not modelled.                              *)
UpdateSessionToken(s) ==
  /\ sessionTokens' = [sessionTokens EXCEPT
       ![s] = IF @ = None THEN None ELSE [@ EXCEPT !.mustVerify = TRUE]]
  /\ unverifiedTokens' = [unverifiedTokens EXCEPT
       ![s] = IF @ = None THEN None ELSE [@ EXCEPT !.mustVerify = TRUE]]
  /\ UNCHANGED <<keyFetchTokens, devices, securityEvents, calls>>

(* Faulty: the session's row is deleted before the devices are looked up   *)
(* through it.                                                             *)
DeleteSessionToken_SessionFirst(s) ==
  /\ sessionTokens' = [sessionTokens EXCEPT ![s] = None]
  /\ unverifiedTokens' = UnverifiedWithoutTokens({s})
  /\ UNCHANGED <<keyFetchTokens, devices, securityEvents, calls>>

(* deleteSessionToken_3: the devices of the session are found through the  *)
(* uid of its row, before that row is deleted.                             *)
DeleteSessionToken(s) ==
  /\ devices' = [u \in Uids |-> [d \in DeviceIds |->
       IF s \in SessionsOf(u) /\ UsesSession(u, d, s) THEN None ELSE devices[u][d]]]
  /\ sessionTokens' = [sessionTokens EXCEPT ![s] = None]
  /\ unverifiedTokens' = UnverifiedWithoutTokens({s})
  /\ UNCHANGED <<keyFetchTokens, securityEvents, calls>>

(* createKeyFetchToken_2: mustVerify keeps the column's default, TRUE.     *)
CreateKeyFetchToken(t, x) ==
  /\ keyFetchTokens[t] = None
  /\ keyFetchTokens' = [keyFetchTokens EXCEPT ![t] = OwnerOf[t]]
  /\ \/ x = NULL /\ UNCHANGED unverifiedTokens
     \/ /\ x # NULL
        /\ CanInsertUnverified(t, OwnerOf[t], NULL)
        /\ unverifiedTokens' = [unverifiedTokens EXCEPT
             ![t] = [uid |-> OwnerOf[t], tokenVerificationId |-> x, mustVerify |-> TRUE,
                     codeHash |-> NULL, expired |-> FALSE]]
  /\ UNCHANGED <<sessionTokens, devices, securityEvents, calls>>

(* deleteKeyFetchToken_2                                                   *)
DeleteKeyFetchToken(t) ==
  /\ keyFetchTokens' = [keyFetchTokens EXCEPT ![t] = None]
  /\ unverifiedTokens' = UnverifiedWithoutTokens({t})
  /\ UNCHANGED <<sessionTokens, devices, securityEvents, calls>>

-----------------------------------------------------------------------------
(* Verification.                                                           *)

(* verifyToken_3, called on its own: first statement.                      *)
VerifyTokenEvents(c, u, x) ==
  /\ calls[c] = Idle
  /\ securityEvents' = EventsVerified(u, x)
  /\ calls' = [calls EXCEPT
       ![c] = [proc |-> "verifyToken", uid |-> u, tokenVerificationId |-> x]]
  /\ UNCHANGED <<sessionTokens, keyFetchTokens, unverifiedTokens, devices>>

(* verifyToken_3: second statement.                                        *)
VerifyTokenRows(c) ==
  /\ calls[c].proc = "verifyToken"
  /\ unverifiedTokens' = UnverifiedWithout(calls[c].uid, calls[c].tokenVerificationId)
  /\ calls' = [calls EXCEPT ![c] = Idle]
  /\ UNCHANGED <<sessionTokens, keyFetchTokens, devices, securityEvents>>

(* verifyTokenCode_1, before its transaction: finds the tokenVerificationId*)
(* of a code that has not expired.  An expired or unknown code ends the    *)
(* call with an error and changes nothing.                                 *)
VerifyTokenCodeLookup(c, u, k) ==
  /\ calls[c] = Idle
  /\ \E t \in TokenIds :
       /\ unverifiedTokens[t] # None
       /\ unverifiedTokens[t].uid = u
       /\ unverifiedTokens[t].codeHash = k
       /\ ~unverifiedTokens[t].expired
       /\ calls' = [calls EXCEPT
            ![c] = [proc |-> "verifyTokenCode", uid |-> u,
                    tokenVerificationId |-> unverifiedTokens[t].tokenVerificationId]]
  /\ UNCHANGED <<sessionTokens, keyFetchTokens, unverifiedTokens, devices, securityEvents>>

(* Faulty: only the token whose code was given is verified, not the others *)
(* with its tokenVerificationId.                                           *)
VerifyTokenCodeCommit_OneToken(c) ==
  /\ calls[c].proc = "verifyTokenCode"
  /\ securityEvents' = EventsVerified(calls[c].uid, calls[c].tokenVerificationId)
  /\ unverifiedTokens' = [t \in TokenIds |->
       IF /\ HasVerificationId(t, calls[c].uid, calls[c].tokenVerificationId)
          /\ unverifiedTokens[t].codeHash # NULL
       THEN None ELSE unverifiedTokens[t]]
  /\ calls' = [calls EXCEPT ![c] = Idle]
  /\ UNCHANGED <<sessionTokens, keyFetchTokens, devices>>

(* verifyTokenCode_1, its transaction.                                     *)
VerifyTokenCodeCommit(c) ==
  /\ calls[c].proc = "verifyTokenCode"
  /\ securityEvents' = EventsVerified(calls[c].uid, calls[c].tokenVerificationId)
  /\ unverifiedTokens' = UnverifiedWithout(calls[c].uid, calls[c].tokenVerificationId)
  /\ calls' = [calls EXCEPT ![c] = Idle]
  /\ UNCHANGED <<sessionTokens, keyFetchTokens, devices>>

(* Faulty: the method is recorded and the tokens are not verified.         *)
VerifyTokensWithMethod_NoVerify(s, m) ==
  /\ sessionTokens' = [sessionTokens EXCEPT
       ![s] = IF @ = None THEN None ELSE [@ EXCEPT !.verificationMethod = m]]
  /\ UNCHANGED <<keyFetchTokens, unverifiedTokens, devices, securityEvents, calls>>

(* verifyTokensWithMethod_2: one transaction, verifyToken_3 included; a    *)
(* session with no unverified row makes that call a no-op.                 *)
VerifyTokensWithMethod(s, m) ==
  /\ sessionTokens' = [sessionTokens EXCEPT
       ![s] = IF @ = None THEN None ELSE [@ EXCEPT !.verificationMethod = m]]
  /\ LET row == unverifiedTokens[s]
     IN  IF row = None
         THEN UNCHANGED <<unverifiedTokens, securityEvents>>
         ELSE /\ securityEvents' = EventsVerified(row.uid, row.tokenVerificationId)
              /\ unverifiedTokens' = UnverifiedWithout(row.uid, row.tokenVerificationId)
  /\ UNCHANGED <<keyFetchTokens, devices, calls>>

(* Time passes the tokenVerificationCodeExpiresAt of a row.                *)
ExpireCode(t) ==
  /\ unverifiedTokens[t] # None
  /\ unverifiedTokens[t].codeHash # NULL
  /\ unverifiedTokens' = [unverifiedTokens EXCEPT ![t].expired = TRUE]
  /\ UNCHANGED <<sessionTokens, keyFetchTokens, devices, securityEvents, calls>>

-----------------------------------------------------------------------------
(* Security events.                                                        *)

(* createSecurityEvent_3: the lookup of the token's tokenVerificationId ...*)
SecurityEventLookup(c, u, t) ==
  /\ calls[c] = Idle
  /\ calls' = [calls EXCEPT
       ![c] = [proc |-> "createSecurityEvent", uid |-> u,
               tokenVerificationId |->
                 IF unverifiedTokens[t] # None /\ unverifiedTokens[t].uid = u
                 THEN unverifiedTokens[t].tokenVerificationId ELSE NULL]]
  /\ UNCHANGED <<sessionTokens, keyFetchTokens, unverifiedTokens, devices, securityEvents>>

(* ... and the INSERT of an event that is verified when there was none.    *)
SecurityEventInsert(c) ==
  /\ calls[c].proc = "createSecurityEvent"
  /\ LET x == calls[c].tokenVerificationId
         e == [uid |-> calls[c].uid, tokenVerificationId |-> x, verified |-> (x = NULL)]
     IN  /\ Cardinality(securityEvents \cup {e}) <= MaxEvents
         /\ securityEvents' = securityEvents \cup {e}
  /\ calls' = [calls EXCEPT ![c] = Idle]
  /\ UNCHANGED <<sessionTokens, keyFetchTokens, unverifiedTokens, devices>>

-----------------------------------------------------------------------------
(* Devices.                                                                *)

(* The unique index (uid, sessionTokenId), in which NULL never clashes.    *)
SessionFree(u, d, s) ==
  s # NULL => \A o \in DeviceIds \ {d} : ~UsesSession(u, o, s)

(* createDevice_4.  There is no foreign key to sessionTokens: the session  *)
(* need not exist, or no longer.                                           *)
CreateDevice(u, d, s) ==
  /\ devices[u][d] = None
  /\ SessionFree(u, d, s)
  /\ devices' = [devices EXCEPT ![u][d] = s]
  /\ UNCHANGED <<sessionTokens, keyFetchTokens, unverifiedTokens, securityEvents, calls>>

(* updateDevice_5 with a sessionTokenId; COALESCE keeps the old one when   *)
(* there is none, and the other columns are not modelled.                  *)
UpdateDevice(u, d, s) ==
  /\ devices[u][d] # None
  /\ SessionFree(u, d, s)
  /\ devices' = [devices EXCEPT ![u][d] = s]
  /\ UNCHANGED <<sessionTokens, keyFetchTokens, unverifiedTokens, securityEvents, calls>>

(* deleteDevice_3: the SELECT whose row is the answer ...                  *)
DeleteDeviceSelect(c, u, d) ==
  /\ calls[c] = Idle
  /\ calls' = [calls EXCEPT
       ![c] = [proc |-> "deleteDevice", uid |-> u, id |-> d, sessionTokenId |-> devices[u][d]]]
  /\ UNCHANGED <<sessionTokens, keyFetchTokens, unverifiedTokens, devices, securityEvents>>

(* ... and the multi-table DELETE: the device, its session if that exists, *)
(* and the unverified row of that session.                                 *)
DeleteDeviceRows(c) ==
  /\ calls[c].proc = "deleteDevice"
  /\ LET u == calls[c].uid
         d == calls[c].id
         gone == {s \in SessionIds : UsesSession(u, d, s) /\ sessionTokens[s] # None}
     IN  /\ devices' = [devices EXCEPT ![u][d] = None]
         /\ sessionTokens' = [s \in SessionIds |->
              IF s \in gone THEN None ELSE sessionTokens[s]]
         /\ unverifiedTokens' = UnverifiedWithoutTokens(gone)
  /\ calls' = [calls EXCEPT ![c] = Idle]
  /\ UNCHANGED <<keyFetchTokens, securityEvents>>

-----------------------------------------------------------------------------
(* Accounts, pruning, failures.                                            *)

(* What resetAccount_9 and deleteAccount_15 both delete.                   *)
DeleteTokensOf(u) ==
  /\ sessionTokens' = [s \in SessionIds |->
       IF s \in SessionsOf(u) THEN None ELSE sessionTokens[s]]
  /\ keyFetchTokens' = [t \in KeyFetchIds |->
       IF keyFetchTokens[t] = u THEN None ELSE keyFetchTokens[t]]
  /\ devices' = [devices EXCEPT ![u] = [d \in DeviceIds |-> None]]
  /\ unverifiedTokens' = [t \in TokenIds |->
       IF unverifiedTokens[t] # None /\ unverifiedTokens[t].uid = u
       THEN None ELSE unverifiedTokens[t]]
  /\ UNCHANGED calls

(* resetAccount_9: the account's security events stay.                     *)
ResetAccount(u) == DeleteTokensOf(u) /\ UNCHANGED securityEvents

(* deleteAccount_15                                                        *)
DeleteAccount(u) ==
  /\ DeleteTokensOf(u)
  /\ securityEvents' = {e \in securityEvents : e.uid # u}

(* Faulty: DELETE st, where the procedure has DELETE st, ut.               *)
PruneSessionTokens_SessionsOnly(T) ==
  /\ \A s \in T :
       /\ sessionTokens[s] # None
       /\ \A d \in DeviceIds : ~UsesSession(sessionTokens[s].uid, d, s)
  /\ sessionTokens' = [s \in SessionIds |-> IF s \in T THEN None ELSE sessionTokens[s]]
  /\ UNCHANGED <<keyFetchTokens, unverifiedTokens, devices, securityEvents, calls>>

(* prune_7, step 3.  Which session tokens are in the time window is left   *)
(* open; the ones that a device of their account uses are kept.            *)
PruneSessionTokens(T) ==
  /\ \A s \in T :
       /\ sessionTokens[s] # None
       /\ \A d \in DeviceIds : ~UsesSession(sessionTokens[s].uid, d, s)
  /\ sessionTokens' = [s \in SessionIds |-> IF s \in T THEN None ELSE sessionTokens[s]]
  /\ unverifiedTokens' = UnverifiedWithoutTokens(T)
  /\ UNCHANGED <<keyFetchTokens, devices, securityEvents, calls>>

(* The connection, or the server that holds it, dies between two           *)
(* statements: the rest of the procedure never runs.                       *)
ConnectionLost(c) ==
  /\ calls[c] # Idle
  /\ calls' = [calls EXCEPT ![c] = Idle]
  /\ UNCHANGED <<sessionTokens, keyFetchTokens, unverifiedTokens, devices, securityEvents>>

-----------------------------------------------------------------------------
TokenStep ==
  \/ \E s \in SessionIds, m \in BOOLEAN, x \in VerificationIds \cup {NULL},
        k \in CodeHashes \cup {NULL} : CreateSessionToken(s, m, x, k)
  \/ \E s \in SessionIds : UpdateSessionToken(s) \/ DeleteSessionToken(s)
  \/ \E t \in KeyFetchIds, x \in VerificationIds \cup {NULL} : CreateKeyFetchToken(t, x)
  \/ \E t \in KeyFetchIds : DeleteKeyFetchToken(t)

VerifyStep ==
  \/ \E c \in Connections, u \in Uids, x \in VerificationIds : VerifyTokenEvents(c, u, x)
  \/ \E c \in Connections, u \in Uids, k \in CodeHashes : VerifyTokenCodeLookup(c, u, k)
  \/ \E c \in Connections : VerifyTokenRows(c) \/ VerifyTokenCodeCommit(c)
  \/ \E s \in SessionIds, m \in Methods : VerifyTokensWithMethod(s, m)
  \/ \E t \in TokenIds : ExpireCode(t)

EventStep ==
  \/ \E c \in Connections, u \in Uids, t \in TokenIds : SecurityEventLookup(c, u, t)
  \/ \E c \in Connections : SecurityEventInsert(c)

(* An assumption on the callers: the session that a request gives for a    *)
(* device is one of the account's.  createDevice_4 and updateDevice_5 do   *)
(* not ask whose it is.                                                    *)
DeviceStep ==
  \/ \E u \in Uids, d \in DeviceIds : \E s \in {o \in SessionIds : OwnerOf[o] = u} :
        CreateDevice(u, d, s) \/ UpdateDevice(u, d, s)
  \/ \E u \in Uids, d \in DeviceIds : CreateDevice(u, d, NULL)
  \/ \E c \in Connections, u \in Uids, d \in DeviceIds : DeleteDeviceSelect(c, u, d)
  \/ \E c \in Connections : DeleteDeviceRows(c)

AccountStep ==
  \/ \E u \in Uids : ResetAccount(u) \/ DeleteAccount(u)
  \/ \E T \in SUBSET SessionIds : PruneSessionTokens(T)
  \/ \E c \in Connections : ConnectionLost(c)

Next == TokenStep \/ VerifyStep \/ EventStep \/ DeviceStep \/ AccountStep

Spec == Init /\ [][Next]_vars

-----------------------------------------------------------------------------
(* Properties.                                                             *)

(* Every row of the two token tables belongs to the account its id was     *)
(* minted for.                                                             *)
TokensOwned ==
  /\ \A s \in SessionIds : sessionTokens[s] # None => sessionTokens[s].uid = OwnerOf[s]
  /\ \A t \in KeyFetchIds : keyFetchTokens[t] # None => keyFetchTokens[t] = OwnerOf[t]

TokenExists(t) ==
  \/ t \in SessionIds /\ sessionTokens[t] # None
  \/ t \in KeyFetchIds /\ keyFetchTokens[t] # None

(* No row of unverifiedTokens outlives its session or key-fetch token, and *)
(* none carries another account's uid: every procedure that deletes tokens *)
(* deletes exactly the right rows here, although nothing but the           *)
(* procedures ties the tables together.                                    *)
UnverifiedRowsOwned ==
  \A t \in TokenIds : unverifiedTokens[t] # None =>
    TokenExists(t) /\ unverifiedTokens[t].uid = OwnerOf[t]

(* mustVerify is kept twice, in sessionTokens and in unverifiedTokens, and *)
(* sessionWithDevice_16 reads whichever it finds: the two never disagree.  *)
MustVerifyAgrees ==
  \A s \in SessionIds : unverifiedTokens[s] # None =>
    sessionTokens[s].mustVerify = unverifiedTokens[s].mustVerify

(* A session that records how and when it was verified is verified.        *)
MethodOnlyWhenVerified ==
  \A s \in SessionIds :
    sessionTokens[s] # None /\ sessionTokens[s].verificationMethod # NULL =>
      unverifiedTokens[s] = None

(* A device uses a session of its own account, and shares it with no other *)
(* device.                                                                 *)
DevicesOwnSessions ==
  \A u \in Uids : \A d \in DeviceIds : devices[u][d] \in SessionIds =>
    /\ OwnerOf[devices[u][d]] = u
    /\ \A o \in DeviceIds \ {d} : devices[u][o] # devices[u][d]

IInv ==
  /\ TypeOK
  /\ TokensOwned
  /\ UnverifiedRowsOwned
  /\ MustVerifyAgrees
  /\ MethodOnlyWhenVerified
  /\ DevicesOwnSessions

(* mustVerify may go from false to true while a token lives, never back    *)
(* (the comment in updateSessionToken_3).                                  *)
MustVerifyNeverDropped ==
  [][/\ \A s \in SessionIds : sessionTokens[s] # None /\ sessionTokens'[s] # None =>
           (sessionTokens[s].mustVerify => sessionTokens'[s].mustVerify)
     /\ \A t \in TokenIds : unverifiedTokens[t] # None /\ unverifiedTokens'[t] # None =>
           (unverifiedTokens[t].mustVerify => unverifiedTokens'[t].mustVerify)]_vars

(* Whatever deletes a session (its own deletion, the deletion of a device, *)
(* a reset, an account deletion, pruning) leaves no device that uses it.   *)
SessionTakesItsDevices ==
  [][\A s \in SessionIds : sessionTokens[s] # None /\ sessionTokens'[s] = None =>
       \A u \in Uids : \A d \in DeviceIds : devices'[u][d] # s]_vars

(* A step that marks the events of a tokenVerificationId verified also     *)
(* verifies its tokens, or is the first statement of a verifyToken_3 that  *)
(* has yet to do it.                                                       *)
EventsVerifiedWithTokens ==
  [][\A e \in securityEvents' \ securityEvents :
       e.verified /\ e.tokenVerificationId # NULL =>
         \/ \A t \in TokenIds : ~HasVerificationId(t, e.uid, e.tokenVerificationId)'
         \/ \E c \in Connections :
              calls'[c] = [proc |-> "verifyToken", uid |-> e.uid,
                           tokenVerificationId |-> e.tokenVerificationId]]_vars

(* The rows of account u.                                                  *)
RowsOf(u) ==
  [sessionTokens |-> [s \in {o \in SessionIds : OwnerOf[o] = u} |-> sessionTokens[s]],
   keyFetchTokens |-> [t \in {o \in KeyFetchIds : OwnerOf[o] = u} |-> keyFetchTokens[t]],
   unverifiedTokens |-> [t \in {o \in TokenIds : OwnerOf[o] = u} |-> unverifiedTokens[t]],
   devices |-> devices[u],
   securityEvents |-> {e \in securityEvents : e.uid = u}]

(* But for pruning, a step changes rows of one account only.               *)
OneAccountPerStep ==
  [][\/ \E T \in SUBSET SessionIds : PruneSessionTokens(T)
     \/ \E u \in Uids : \A v \in Uids \ {u} : RowsOf(v)' = RowsOf(v)]_vars

(* A token is unverified while unverifiedTokens has a row for it.          *)
StatusOf ==
  [t \in TokenIds |-> IF ~TokenExists(t) THEN "absent"
                      ELSE IF unverifiedTokens[t] # None THEN "unverified" ELSE "verified"]

Lifecycle == INSTANCE TokenLifecycle WITH status <- StatusOf

(* The tables implement the token lifecycle: no token is ever verified by  *)
(* the deletion of something else, or verified and later unverified.       *)
LifecycleSpec == Lifecycle!Spec
=============================================================================
