-------------------------------- MODULE Prune --------------------------------
(***************************************************************************)
(* Pruning: the timer of lib/db/postgres.js and the procedure prune_7, next*)
(* to the requests that create, use and delete sessions meanwhile.         *)
(*                                                                         *)
(* prune_7 works under a named lock, on whichever of the pooled connections*)
(* its server got.  After old rows of five other tables (see Accounts and  *)
(* AccountCodes) it deletes, in a transaction, the sessions in a window of *)
(* createdAt that no device uses, and remembers where the window ended.    *)
(* Its exit handler rolls back but does not release the lock: a connection *)
(* that goes back to the pool after an error still has it.                 *)
(*                                                                         *)
(* The DELETE of the transaction locks the sessions it removes and the     *)
(* places in devices it looked at (REPEATABLE READ, the database's         *)
(* default), until COMMIT.  Rows of unverifiedTokens go with their session *)
(* (see SessionTokens) and are left out.                                   *)
(***************************************************************************)
EXTENDS Integers, FiniteSets

CONSTANTS
  Sessions,     \* ids of session tokens
  Connections,  \* pooled connections, of all servers
  MaxAge,       \* pruneTokensMaxAge
  Limit,        \* LIMIT 10000
  Burst,        \* bound: sessions that are created in one millisecond
  MaxTime,      \* bound of the clock
  MaxLosses,    \* bound: how often a connection is lost
  LocksNest,    \* GET_LOCK counts when a connection repeats it (from MySQL 5.7; not in 5.6)
  None

(* pruneTokens refuses to run when pruneTokensMaxAge is not set or zero.   *)
ASSUME PruneAssumption ==
  /\ MaxAge \in Nat \ {0}
  /\ Limit \in Nat
  /\ LocksNest \in BOOLEAN
  /\ None \notin Connections

(* What a window needs to get past one value of createdAt.                 *)
ASSUME BurstAssumption == Burst \in Nat /\ Burst < Limit

VARIABLES
  now,          \* the time
  sessions,     \* the rows of sessionTokens
  createdAt,    \* their column createdAt, kept when they are gone (history); 0: never created
  inUse,        \* sessions that a row of devices names
  prunedUntil,  \* sessionTokensPrunedUntil in dbMetadata
  lock,         \* the connection that has 'fxa-auth-server.prune-lock', or None
  leaked,       \* its holder has it once more, from a run that failed
  calls,        \* [Connections -> Call]
  kept,         \* sessions that a window passed while a device used them (history)
  losses        \* connections lost so far

clientVars == <<sessions, createdAt, inUse>>
lockVars == <<lock, leaked>>
vars == <<now, clientVars, prunedUntil, lockVars, calls, kept, losses>>

Idle == [at |-> "idle"]

(* olderThan is the parameter of prune_7, from and until are @pruneFrom and*)
(* @pruneUntil.  doomed are the sessions that the transaction has deleted, *)
(* spared those it left for a device.                                      *)
Call ==
  {Idle} \cup
  [at : {"asked", "window", "sweep", "commit"},
   olderThan : Int, from : Nat, until : Nat,
   doomed : SUBSET Sessions, spared : SUBSET Sessions]

TypeOK ==
  /\ now \in Nat \ {0}
  /\ sessions \subseteq Sessions
  /\ createdAt \in [Sessions -> Nat]
  /\ inUse \subseteq Sessions
  /\ prunedUntil \in Nat
  /\ lock \in Connections \cup {None}
  /\ leaked \in BOOLEAN
  /\ calls \in [Connections -> Call]
  /\ kept \subseteq Sessions
  /\ losses \in Nat

Init ==
  /\ now = 1
  /\ sessions = {} /\ inUse = {} /\ kept = {}
  /\ createdAt = [s \in Sessions |-> 0]
  /\ prunedUntil = 0
  /\ lock = None /\ leaked = FALSE
  /\ calls = [c \in Connections |-> Idle]
  /\ losses = 0

Doomed(s) == \E c \in Connections : calls[c] # Idle /\ s \in calls[c].doomed

-----------------------------------------------------------------------------
(* Time passes, and clients make requests.                                 *)
Tick ==
  /\ now < MaxTime
  /\ now' = now + 1
  /\ UNCHANGED <<clientVars, prunedUntil, lockVars, calls, kept, losses>>

(* createdAt is the time of the request, which the caller takes.           *)
CreateSession(s) ==
  /\ createdAt[s] = 0
  /\ Cardinality({r \in Sessions : createdAt[r] = now}) < Burst
  /\ createdAt' = [createdAt EXCEPT ![s] = now]
  /\ sessions' = sessions \cup {s}
  /\ UNCHANGED <<now, inUse, prunedUntil, lockVars, calls, kept, losses>>

(* deleteSessionToken, and deleteDevice: with the device that uses it.     *)
DeleteSession(s) ==
  /\ s \in sessions
  /\ ~Doomed(s)
  /\ sessions' = sessions \ {s}
  /\ inUse' = inUse \ {s}
  /\ UNCHANGED <<now, createdAt, prunedUntil, lockVars, calls, kept, losses>>

(* createDevice and updateDevice: a device uses the session.  No foreign   *)
(* key asks whether it still exists.                                       *)
UseSession(s) ==
  /\ createdAt[s] # 0
  /\ ~Doomed(s)
  /\ inUse' = inUse \cup {s}
  /\ UNCHANGED <<now, sessions, createdAt, prunedUntil, lockVars, calls, kept, losses>>

(* updateDevice: the device that used it uses another one.                 *)
LeaveSession(s) ==
  /\ s \in inUse
  /\ inUse' = inUse \ {s}
  /\ UNCHANGED <<now, sessions, createdAt, prunedUntil, lockVars, calls, kept, losses>>

-----------------------------------------------------------------------------
(* The timer fires and a server has got a connection: it asks for what is  *)
(* older than MaxAge by its clock.  It sets the timer again whatever comes *)
(* of it, so that it may fire before prune_7 has ended.                    *)
PruneTokens(c) ==
  /\ calls[c] = Idle
  /\ calls' = [calls EXCEPT ![c] =
       [at |-> "asked", olderThan |-> now - MaxAge, from |-> 0, until |-> 0,
        doomed |-> {}, spared |-> {}]]
  /\ UNCHANGED <<now, clientVars, prunedUntil, lockVars, kept, losses>>

(* Faulty: what GET_LOCK returns is not looked at.                         *)
GetLock_Unchecked(c) ==
  /\ calls[c].at = "asked"
  /\ lock' = c
  /\ calls' = [calls EXCEPT ![c].at = "window"]
  /\ UNCHANGED <<now, clientVars, prunedUntil, leaked, kept, losses>>

(* GET_LOCK succeeds when no other connection has the lock.  The five      *)
(* DELETEs by age come next.                                               *)
GetLock(c) ==
  /\ calls[c].at = "asked"
  /\ lock \in {None, c}
  /\ lock' = c
  /\ calls' = [calls EXCEPT ![c].at = "window"]
  /\ UNCHANGED <<now, clientVars, prunedUntil, leaked, kept, losses>>

(* It has waited three seconds: prune_7 ends without having done anything. *)
GetLockTimesOut(c) ==
  /\ calls[c].at = "asked"
  /\ lock \notin {None, c}
  /\ calls' = [calls EXCEPT ![c] = Idle]
  /\ UNCHANGED <<now, clientVars, prunedUntil, lockVars, kept, losses>>

(* The Limit oldest of some sessions: ORDER BY createdAt LIMIT 10000.      *)
(* Which of two sessions of one age comes first is open.                   *)
Oldest(S) ==
  {B \in SUBSET S :
     /\ IF Cardinality(S) <= Limit THEN B = S ELSE Cardinality(B) = Limit
     /\ \A r \in B, s \in S \ B : createdAt[r] <= createdAt[s]}

Candidates(c) ==
  {s \in sessions : createdAt[s] >= prunedUntil /\ createdAt[s] < calls[c].olderThan}

(* RELEASE_LOCK undoes one GET_LOCK.                                       *)
Released(c) ==
  /\ calls' = [calls EXCEPT ![c] = Idle]
  /\ lock' = IF leaked THEN c ELSE None

(* START TRANSACTION and the two SELECTs find nothing left to do.          *)
NothingToPrune(c) ==
  /\ calls[c].at = "window"
  /\ Candidates(c) = {}
  /\ Released(c)
  /\ UNCHANGED <<now, clientVars, prunedUntil, leaked, kept, losses>>

(* Faulty: MIN for MAX.                                                    *)
FindWindow_Min(c) ==
  /\ calls[c].at = "window"
  /\ \E B \in Oldest(Candidates(c)) : \E last \in B :
       /\ \A s \in B : createdAt[s] >= createdAt[last]
       /\ calls' = [calls EXCEPT ![c].at = "sweep", ![c].from = prunedUntil,
                                 ![c].until = createdAt[last]]
  /\ UNCHANGED <<now, clientVars, prunedUntil, lockVars, kept, losses>>

(* The two SELECTs, which read one snapshot, find where the last run got to*)
(* and the last createdAt of the next Limit sessions.                      *)
FindWindow(c) ==
  /\ calls[c].at = "window"
  /\ \E B \in Oldest(Candidates(c)) : \E last \in B :
       /\ \A s \in B : createdAt[s] <= createdAt[last]
       /\ calls' = [calls EXCEPT ![c].at = "sweep", ![c].from = prunedUntil,
                                 ![c].until = createdAt[last]]
  /\ UNCHANGED <<now, clientVars, prunedUntil, lockVars, kept, losses>>

(* Faulty: < @pruneUntil.                                                  *)
InWindow_Open(call, s) == call.from < createdAt[s] /\ createdAt[s] < call.until

InWindow(call, s) == call.from < createdAt[s] /\ createdAt[s] <= call.until

(* Faulty: without "AND NOT EXISTS (SELECT sessionTokenId FROM devices".   *)
Sweep_Devices(c) ==
  /\ calls[c].at = "sweep"
  /\ calls' = [calls EXCEPT ![c].at = "commit",
                            ![c].doomed = {s \in sessions : InWindow(calls[c], s)}]
  /\ UNCHANGED <<now, clientVars, prunedUntil, lockVars, kept, losses>>

(* The DELETE of the sessions in the window that no device uses.           *)
Sweep(c) ==
  LET reached == {s \in sessions : InWindow(calls[c], s)} IN
  /\ calls[c].at = "sweep"
  /\ calls' = [calls EXCEPT ![c].at = "commit", ![c].doomed = reached \ inUse,
                            ![c].spared = reached \cap inUse]
  /\ UNCHANGED <<now, clientVars, prunedUntil, lockVars, kept, losses>>

(* The UPDATE of dbMetadata, COMMIT and RELEASE_LOCK.                      *)
CommitWindow(c) ==
  /\ calls[c].at = "commit"
  /\ sessions' = sessions \ calls[c].doomed
  /\ kept' = kept \cup calls[c].spared
  /\ prunedUntil' = calls[c].until
  /\ Released(c)
  /\ UNCHANGED <<now, createdAt, inUse, leaked, losses>>

(* A statement fails, with a lock error perhaps: the exit handler rolls    *)
(* back, nothing tries again, and the connection keeps the lock.           *)
StatementFails(c) ==
  /\ calls[c].at \in {"window", "sweep", "commit"}
  /\ calls' = [calls EXCEPT ![c] = Idle]
  /\ leaked' = LocksNest
  /\ UNCHANGED <<now, clientVars, prunedUntil, lock, kept, losses>>

(* A connection is lost, at work or not (or its server stops).  The        *)
(* database rolls back, and releases what locks the connection had.        *)
ConnectionLost(c) ==
  /\ losses < MaxLosses
  /\ calls[c] # Idle \/ lock = c
  /\ losses' = losses + 1
  /\ calls' = [calls EXCEPT ![c] = Idle]
  /\ lock' = IF lock = c THEN None ELSE lock
  /\ leaked' = (leaked /\ lock # c)
  /\ UNCHANGED <<now, clientVars, prunedUntil, kept>>

-----------------------------------------------------------------------------
ClientStep ==
  \E s \in Sessions : CreateSession(s) \/ DeleteSession(s) \/ UseSession(s) \/ LeaveSession(s)

Timer == \E c \in Connections : PruneTokens(c)

Statement(c) ==
  \/ GetLock(c) \/ GetLockTimesOut(c)
  \/ NothingToPrune(c) \/ FindWindow(c) \/ Sweep(c) \/ CommitWindow(c)

Next ==
  \/ Tick \/ ClientStep \/ Timer
  \/ \E c \in Connections : Statement(c) \/ StatementFails(c) \/ ConnectionLost(c)

Spec == Init /\ [][Next]_vars

(* The timer is set again after each run, and the database carries out what*)
(* it is sent, or fails it.                                                *)
FairSpec == Spec /\ WF_vars(Timer) /\ \A c \in Connections : WF_vars(Statement(c))

-----------------------------------------------------------------------------
(* prunedUntil lets runs skip what earlier ones have seen, so it must never*)
(* pass a session that should still go.  Every session up to it was in use *)
(* by a device when its window was swept: in spite of LIMIT, of windows    *)
(* that end within a millisecond's sessions, and of runs that fail or stop *)
(* at any statement.  (It may have lost that device since, and is then     *)
(* never pruned.)                                                          *)
NothingSkipped ==
  \A s \in sessions : createdAt[s] <= prunedUntil => s \in kept

(* The sessions that pruning removes are older than MaxAge and, at that    *)
(* moment, used by no device, although devices change during a run.        *)
OnlyOldAndUnused ==
  [][prunedUntil' # prunedUntil =>
       \A s \in sessions \ sessions' : createdAt[s] < now - MaxAge /\ s \notin inUse]_vars

(* The window never moves back: runs of several servers follow each other, *)
(* whichever of them fail or lose their connection.                        *)
WindowMovesOn == [][prunedUntil' >= prunedUntil]_vars

(* LIMIT does not hold a run up at one createdAt: unless nothing old is    *)
(* left beyond prunedUntil, a window that was found ends beyond it,        *)
(* although it is looked for from prunedUntil on (>=) and is full of       *)
(* sessions that an earlier run has kept for their devices.                *)
WindowAdvances ==
  \A c \in Connections : calls[c] # Idle /\ calls[c].at \in {"sweep", "commit"} =>
    \/ calls[c].until > prunedUntil
    \/ \A s \in sessions : createdAt[s] <= prunedUntil \/ createdAt[s] >= calls[c].olderThan

(* Between its runs a connection still has the lock.                       *)
LockLeft == lock # None /\ calls[lock] = Idle

(* Every session that is old enough goes, unless it was kept for a device, *)
(* or a failed run has left its lock with an idle connection.              *)
OldSessionsGo ==
  \A s \in Sessions :
    s \in sessions /\ createdAt[s] + MaxAge < now ~>
      s \notin sessions \/ s \in kept \/ LockLeft

(* What a run of prune_7 relies on from one statement to the next.         *)
RunOK(c) ==
  LET call == calls[c] IN
  calls[c] # Idle =>
    /\ call.olderThan <= now - MaxAge
    /\ call.at # "asked" => lock = c
    /\ call.at \in {"sweep", "commit"} =>
         call.from = prunedUntil /\ prunedUntil <= call.until /\ call.until < call.olderThan
    /\ call.at # "commit" => call.doomed = {}
    /\ call.at = "commit" =>
         /\ call.doomed \cap inUse = {}
         /\ \A s \in call.doomed : InWindow(call, s)
         /\ \A s \in sessions : InWindow(call, s) => s \in call.doomed \cup call.spared

(* What WindowAdvances relies on: at most Burst sessions are of one time.  *)
SameTime(s) == {r \in Sessions : createdAt[r] = createdAt[s]}

Spread ==
  /\ \A s \in Sessions : createdAt[s] <= now
  /\ \A s \in sessions : createdAt[s] # 0
  /\ \A s \in Sessions : createdAt[s] # 0 =>
       IsFiniteSet(SameTime(s)) /\ Cardinality(SameTime(s)) <= Burst

IInv == TypeOK /\ prunedUntil < now /\ NothingSkipped /\ \A c \in Connections : RunOK(c)
=============================================================================
