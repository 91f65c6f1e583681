---------------------------- MODULE Prune_proofs ----------------------------
(***************************************************************************)
(* Proofs about Prune, for any number of sessions, connections and servers,*)
(* any ages and whether or not the named lock nests.  The lock is what the *)
(* argument rests on: a run that is past GET_LOCK is the only one, so that *)
(* the window it has found starts where prunedUntil still is.              *)
(***************************************************************************)
EXTENDS Prune, FiniteSetTheorems, TLAPS

(* The fields of a call that is under way.                                 *)
LEMMA CallFields ==
  ASSUME TypeOK, NEW c \in Connections
  PROVE  /\ calls[c] \in Call
         /\ calls[c] # Idle =>
              /\ calls[c].at \in {"asked", "window", "sweep", "commit"}
              /\ calls[c].olderThan \in Int /\ calls[c].from \in Nat /\ calls[c].until \in Nat
              /\ calls[c].doomed \in SUBSET Sessions /\ calls[c].spared \in SUBSET Sessions
         /\ calls[c].at \in {"asked", "window", "sweep", "commit"} => calls[c] # Idle
BY DEF TypeOK, Call, Idle

(* What FindWindow chooses is a session it could see.                      *)
LEMMA WindowEnd ==
  ASSUME TypeOK, NEW c \in Connections, NEW B \in Oldest(Candidates(c)), NEW last \in B
  PROVE  /\ last \in sessions
         /\ createdAt[last] \in Nat
         /\ prunedUntil <= createdAt[last]
         /\ createdAt[last] < calls[c].olderThan
BY DEF TypeOK, Oldest, Candidates

(* The type invariant is inductive by itself.                              *)
LEMMA TypeStep == ASSUME TypeOK, [Next]_vars PROVE TypeOK'
<1> USE PruneAssumption DEF TypeOK, clientVars, lockVars
<1>1. CASE UNCHANGED vars BY <1>1 DEF vars
<1>2. CASE Tick BY <1>2 DEF Tick
<1>3. CASE ClientStep
  BY <1>3 DEF ClientStep, CreateSession, DeleteSession, UseSession, LeaveSession
<1>4. ASSUME NEW c \in Connections, PruneTokens(c) PROVE TypeOK'
  BY <1>4 DEF PruneTokens, Call
<1>5. ASSUME NEW c \in Connections, GetLock(c) PROVE TypeOK'
  <2>1. [calls[c] EXCEPT !.at = "window"] \in Call BY <1>5, CallFields DEF GetLock, Call, Idle
  <2> QED BY <1>5, <2>1 DEF GetLock
<1>6. ASSUME NEW c \in Connections, GetLockTimesOut(c) PROVE TypeOK'
  BY <1>6 DEF GetLockTimesOut, Call
<1>7. ASSUME NEW c \in Connections, NothingToPrune(c) PROVE TypeOK'
  BY <1>7 DEF NothingToPrune, Released, Call
<1>8. ASSUME NEW c \in Connections, FindWindow(c) PROVE TypeOK'
  <2>1. PICK B \in Oldest(Candidates(c)) : \E last \in B :
          calls' = [calls EXCEPT ![c].at = "sweep", ![c].from = prunedUntil,
                                 ![c].until = createdAt[last]]
    BY <1>8 DEF FindWindow
  <2>2. PICK last \in B :
          calls' = [calls EXCEPT ![c].at = "sweep", ![c].from = prunedUntil,
                                 ![c].until = createdAt[last]]
    BY <2>1
  <2>3. createdAt[last] \in Nat BY WindowEnd
  <2>4. [calls[c] EXCEPT !.at = "sweep", !.from = prunedUntil, !.until = createdAt[last]] \in Call
    BY <1>8, <2>3, CallFields DEF FindWindow, Call, Idle
  <2>5. calls' \in [Connections -> Call] BY <2>2, <2>4
  <2>6. UNCHANGED <<now, clientVars, prunedUntil, lockVars, kept, losses>> BY <1>8 DEF FindWindow
  <2> QED BY <2>5, <2>6
<1>9. ASSUME NEW c \in Connections, Sweep(c) PROVE TypeOK'
  <2> DEFINE reached == {s \in sessions : InWindow(calls[c], s)}
  <2>1. [calls[c] EXCEPT !.at = "commit", !.doomed = reached \ inUse,
                         !.spared = reached \cap inUse] \in Call
    BY <1>9, CallFields DEF Sweep, Call, Idle
  <2> QED BY <1>9, <2>1 DEF Sweep
<1>10. ASSUME NEW c \in Connections, CommitWindow(c) PROVE TypeOK'
  BY <1>10, CallFields DEF CommitWindow, Released, Call
<1>11. ASSUME NEW c \in Connections, StatementFails(c) PROVE TypeOK'
  BY <1>11 DEF StatementFails, Call
<1>12. ASSUME NEW c \in Connections, ConnectionLost(c) PROVE TypeOK'
  BY <1>12 DEF ConnectionLost, Call
<1> QED
  BY <1>1, <1>2, <1>3, <1>4, <1>5, <1>6, <1>7, <1>8, <1>9, <1>10, <1>11, <1>12
  DEF Next, Timer, Statement

(* Only one run at a time is past GET_LOCK.                                *)
LEMMA OneRun ==
  ASSUME IInv, NEW c \in Connections, NEW d \in Connections,
         calls[c].at \in {"window", "sweep", "commit"}, d # c, calls[d] # Idle
  PROVE  calls[d].at = "asked"
BY CallFields DEF IInv, RunOK, Idle

(* A run that has only asked for the lock relies on the clock alone.       *)
LEMMA AskedRun ==
  ASSUME NEW c \in Connections, calls[c] # Idle, calls[c].at = "asked",
         calls[c].olderThan <= now - MaxAge, calls[c].doomed = {}
  PROVE  RunOK(c)
BY DEF RunOK

(* The runs of the connections other than c, which work with no window     *)
(* while c's does, are not disturbed by what c does.                       *)
LEMMA OtherRuns ==
  ASSUME IInv, NEW c \in Connections, calls[c].at \in {"window", "sweep", "commit"},
         now' = now, \A d \in Connections \ {c} : calls'[d] = calls[d]
  PROVE  \A d \in Connections \ {c} : RunOK(d)'
<1> SUFFICES ASSUME NEW d \in Connections \ {c}, calls[d] # Idle PROVE RunOK(d)'
  BY DEF RunOK
<1>1. calls[d].at = "asked" BY OneRun
<1>2. calls[d].olderThan <= now - MaxAge /\ calls[d].doomed = {} BY <1>1 DEF IInv, RunOK
<1> QED BY <1>1, <1>2 DEF RunOK

(* A request neither touches a session that a run has deleted nor adds one *)
(* to a window: what is created now is younger than any window.            *)
LEMMA ClientKeeps == ASSUME IInv, ClientStep PROVE IInv'
<1> USE PruneAssumption DEF IInv, TypeOK, clientVars, lockVars
<1>0. TypeOK' BY TypeStep DEF Next
<1>1. UNCHANGED <<now, prunedUntil, lock, leaked, calls, kept, losses>>
  BY DEF ClientStep, CreateSession, DeleteSession, UseSession, LeaveSession
<1>2. \A s \in sessions' :
        (createdAt'[s] = createdAt[s] /\ s \in sessions) \/ createdAt'[s] = now
  BY DEF ClientStep, CreateSession, DeleteSession, UseSession, LeaveSession
<1>3. NothingSkipped' BY <1>1, <1>2 DEF NothingSkipped
<1>4. ASSUME NEW c \in Connections PROVE RunOK(c)'
  <2> SUFFICES ASSUME calls[c] # Idle PROVE RunOK(c)' BY <1>1 DEF RunOK
  <2>1. RunOK(c) BY DEF IInv
  <2>2. CASE calls[c].at # "commit" BY <1>1, <2>1, <2>2 DEF RunOK
  <2>3. CASE calls[c].at = "commit"
    <3> DEFINE call == calls[c]
    <3>1. \A s \in call.doomed : InWindow(call, s) /\ s \notin inUse BY <2>1, <2>3 DEF RunOK
    <3>2. call.until < now BY <2>1, <2>3, CallFields DEF RunOK
    <3>3. \A s \in call.doomed : createdAt[s] # 0 BY <3>1, CallFields DEF InWindow
    <3>4. call.doomed \cap inUse' = {}
      BY <3>1 DEF ClientStep, CreateSession, DeleteSession, UseSession, LeaveSession, Doomed
    <3>5. \A s \in call.doomed : createdAt'[s] = createdAt[s]
      BY <3>3, CallFields DEF ClientStep, CreateSession, DeleteSession, UseSession, LeaveSession
    <3>6. \A s \in sessions' :
            call.from < createdAt'[s] /\ createdAt'[s] <= call.until =>
              s \in call.doomed \cup call.spared
      BY <1>2, <2>1, <2>3, <3>2, CallFields DEF RunOK, InWindow
    <3> QED BY <1>1, <2>1, <2>3, <3>1, <3>4, <3>5, <3>6 DEF RunOK, InWindow
  <2> QED BY <2>2, <2>3
<1> QED BY <1>0, <1>1, <1>3, <1>4

(* Every step keeps the invariant: one step per action.                    *)
LEMMA Step == ASSUME IInv, [Next]_vars PROVE IInv'
<1> USE PruneAssumption DEF IInv, clientVars, lockVars
<1>0. TypeOK /\ TypeOK' BY TypeStep
<1>1. CASE UNCHANGED vars
  BY <1>0, <1>1 DEF vars, NothingSkipped, RunOK, InWindow
<1>2. CASE Tick
  <2>1. now' = now + 1 /\ UNCHANGED <<sessions, createdAt, inUse, prunedUntil, lock, calls, kept>>
    BY <1>2 DEF Tick
  <2>2. ASSUME NEW c \in Connections PROVE RunOK(c)'
    BY <1>0, <2>1, CallFields DEF RunOK, InWindow, TypeOK
  <2> QED BY <1>0, <2>1, <2>2 DEF NothingSkipped, TypeOK
<1>3. CASE ClientStep BY <1>3, ClientKeeps
<1>4. ASSUME NEW c \in Connections, PruneTokens(c) PROVE IInv'
  <2> DEFINE new == [at |-> "asked", olderThan |-> now - MaxAge, from |-> 0, until |-> 0,
                     doomed |-> {}, spared |-> {}]
  <2>1. UNCHANGED <<now, sessions, createdAt, inUse, prunedUntil, lock, kept>>
        /\ calls'[c] = new /\ \A d \in Connections \ {c} : calls'[d] = calls[d]
    BY <1>0, <1>4 DEF PruneTokens, TypeOK
  <2>2. RunOK(c)' BY <1>0, <2>1 DEF RunOK, TypeOK
  <2>3. ASSUME NEW d \in Connections \ {c} PROVE RunOK(d)' BY <2>1 DEF RunOK, InWindow
  <2> QED BY <1>0, <2>1, <2>2, <2>3 DEF NothingSkipped
<1>5. ASSUME NEW c \in Connections, GetLock(c) PROVE IInv'
  <2>1. /\ UNCHANGED <<now, sessions, createdAt, inUse, prunedUntil, kept>>
        /\ lock' = c /\ lock \in {None, c} /\ calls[c].at = "asked"
        /\ calls'[c] = [calls[c] EXCEPT !.at = "window"]
        /\ \A d \in Connections \ {c} : calls'[d] = calls[d]
    BY <1>0, <1>5 DEF GetLock, TypeOK
  <2>2. /\ calls'[c].at = "window" /\ calls'[c].olderThan = calls[c].olderThan
        /\ calls'[c].doomed = calls[c].doomed
    BY <1>0, <2>1, CallFields DEF Call, Idle
  <2>3. RunOK(c)' BY <2>1, <2>2, CallFields, <1>0 DEF RunOK, Idle
  <2>4. ASSUME NEW d \in Connections \ {c} PROVE RunOK(d)' BY <2>1 DEF RunOK, InWindow
  <2> QED BY <1>0, <2>1, <2>3, <2>4 DEF NothingSkipped
<1>6. ASSUME NEW c \in Connections, GetLockTimesOut(c) PROVE IInv'
  <2>1. /\ UNCHANGED <<now, sessions, createdAt, inUse, prunedUntil, lock, kept>>
        /\ calls'[c] = Idle /\ \A d \in Connections \ {c} : calls'[d] = calls[d]
    BY <1>0, <1>6 DEF GetLockTimesOut, TypeOK
  <2>2. ASSUME NEW d \in Connections PROVE RunOK(d)' BY <2>1 DEF RunOK, InWindow
  <2> QED BY <1>0, <2>1, <2>2 DEF NothingSkipped
<1>7. ASSUME NEW c \in Connections, NothingToPrune(c) PROVE IInv'
  <2>1. /\ UNCHANGED <<now, sessions, createdAt, prunedUntil, kept>> /\ calls[c].at = "window"
        /\ calls'[c] = Idle /\ \A d \in Connections \ {c} : calls'[d] = calls[d]
    BY <1>0, <1>7 DEF NothingToPrune, Released, TypeOK
  <2>2. ASSUME NEW d \in Connections PROVE RunOK(d)' BY <2>1, OtherRuns DEF RunOK
  <2> QED BY <1>0, <2>1, <2>2 DEF NothingSkipped
<1>8. ASSUME NEW c \in Connections, FindWindow(c) PROVE IInv'
  <2>0. PICK B \in Oldest(Candidates(c)) : \E last \in B :
          calls' = [calls EXCEPT ![c].at = "sweep", ![c].from = prunedUntil,
                                 ![c].until = createdAt[last]]
    BY <1>8 DEF FindWindow
  <2>1. PICK last \in B :
          calls' = [calls EXCEPT ![c].at = "sweep", ![c].from = prunedUntil,
                                 ![c].until = createdAt[last]]
    BY <2>0
  <2>2. /\ UNCHANGED <<now, sessions, createdAt, inUse, prunedUntil, lock, kept>>
        /\ calls[c].at = "window" /\ calls[c] # Idle
        /\ \A d \in Connections \ {c} : calls'[d] = calls[d]
    BY <1>0, <1>8, <2>1, CallFields DEF FindWindow, TypeOK
  <2>3. /\ calls'[c].at = "sweep" /\ calls'[c].from = prunedUntil
        /\ calls'[c].until = createdAt[last] /\ calls'[c].olderThan = calls[c].olderThan
        /\ calls'[c].doomed = calls[c].doomed
    BY <1>0, <2>1, <2>2, CallFields DEF TypeOK, Call, Idle
  <2>4. RunOK(c)' BY <1>0, <2>2, <2>3, WindowEnd DEF RunOK
  <2>5. \A d \in Connections \ {c} : RunOK(d)' BY <2>2, OtherRuns
  <2> QED BY <1>0, <2>2, <2>4, <2>5 DEF NothingSkipped
<1>9. ASSUME NEW c \in Connections, Sweep(c) PROVE IInv'
  <2> DEFINE reached == {s \in sessions : InWindow(calls[c], s)}
  <2>1. /\ UNCHANGED <<now, sessions, createdAt, inUse, prunedUntil, lock, kept>>
        /\ calls[c].at = "sweep" /\ calls[c] # Idle
        /\ calls' = [calls EXCEPT ![c].at = "commit", ![c].doomed = reached \ inUse,
                                  ![c].spared = reached \cap inUse]
        /\ \A d \in Connections \ {c} : calls'[d] = calls[d]
    BY <1>0, <1>9, CallFields DEF Sweep, TypeOK
  <2> HIDE DEF reached
  <2>2. /\ calls'[c].at = "commit" /\ calls'[c].from = calls[c].from
        /\ calls'[c].until = calls[c].until /\ calls'[c].olderThan = calls[c].olderThan
        /\ calls'[c].doomed = reached \ inUse /\ calls'[c].spared = reached \cap inUse
    BY <1>0, <2>1, CallFields DEF TypeOK, Call, Idle
  <2>3. RunOK(c)' BY <1>0, <2>1, <2>2 DEF RunOK, InWindow, reached
  <2>4. \A d \in Connections \ {c} : RunOK(d)' BY <2>1, OtherRuns
  <2> QED BY <1>0, <2>1, <2>3, <2>4 DEF NothingSkipped
<1>10. ASSUME NEW c \in Connections, CommitWindow(c) PROVE IInv'
  <2>1. /\ UNCHANGED <<now, createdAt, inUse>> /\ calls[c].at = "commit" /\ calls[c] # Idle
        /\ sessions' = sessions \ calls[c].doomed /\ kept' = kept \cup calls[c].spared
        /\ prunedUntil' = calls[c].until
        /\ calls'[c] = Idle /\ \A d \in Connections \ {c} : calls'[d] = calls[d]
    BY <1>0, <1>10, CallFields DEF CommitWindow, Released, TypeOK
  <2>2. \A d \in Connections : RunOK(d)' BY <2>1, OtherRuns DEF RunOK
  <2>3. prunedUntil' < now' BY <1>0, <2>1, CallFields DEF RunOK, TypeOK
  <2>4. NothingSkipped'
    <3> SUFFICES ASSUME NEW s \in sessions', createdAt[s] <= calls[c].until PROVE s \in kept'
      BY <2>1 DEF NothingSkipped
    <3>1. CASE createdAt[s] <= prunedUntil BY <2>1, <3>1 DEF NothingSkipped
    <3>2. CASE createdAt[s] > prunedUntil
      <4>1. InWindow(calls[c], s) BY <1>0, <2>1, <3>2 DEF RunOK, InWindow, TypeOK
      <4> QED BY <2>1, <4>1 DEF RunOK
    <3> QED BY <1>0, <2>1, <3>1, <3>2 DEF TypeOK
  <2> QED BY <1>0, <2>2, <2>3, <2>4
<1>11. ASSUME NEW c \in Connections, StatementFails(c) PROVE IInv'
  <2>1. /\ UNCHANGED <<now, sessions, createdAt, inUse, prunedUntil, lock, kept>>
        /\ calls'[c] = Idle /\ \A d \in Connections \ {c} : calls'[d] = calls[d]
    BY <1>0, <1>11 DEF StatementFails, TypeOK
  <2>2. ASSUME NEW d \in Connections PROVE RunOK(d)' BY <2>1 DEF RunOK, InWindow
  <2> QED BY <1>0, <2>1, <2>2 DEF NothingSkipped
<1>12. ASSUME NEW c \in Connections, ConnectionLost(c) PROVE IInv'
  <2>1. /\ UNCHANGED <<now, sessions, createdAt, inUse, prunedUntil, kept>>
        /\ lock' = IF lock = c THEN None ELSE lock
        /\ calls'[c] = Idle /\ \A d \in Connections \ {c} : calls'[d] = calls[d]
    BY <1>0, <1>12 DEF ConnectionLost, TypeOK
  <2>2. ASSUME NEW d \in Connections PROVE RunOK(d)' BY <2>1 DEF RunOK, InWindow
  <2> QED BY <1>0, <2>1, <2>2 DEF NothingSkipped
<1> QED
  BY <1>1, <1>2, <1>3, <1>4, <1>5, <1>6, <1>7, <1>8, <1>9, <1>10, <1>11, <1>12
  DEF Next, Timer, Statement

(* The invariant holds in every reachable state.                           *)
LEMMA Inductive == Spec => []IInv
<1>1. ASSUME Init PROVE IInv
  <2>1. TypeOK
    <3>1. Idle \in Call BY DEF Call
    <3>2. calls \in [Connections -> Call] BY <1>1, <3>1 DEF Init
    <3>3. createdAt \in [Sessions -> Nat] BY <1>1 DEF Init
    <3>4. leaked \in BOOLEAN BY <1>1, Zenon DEF Init
    <3>5. now \in Nat \ {0} /\ prunedUntil \in Nat /\ losses \in Nat BY <1>1 DEF Init
    <3>6. lock \in Connections \cup {None} BY <1>1 DEF Init
    <3>7. sessions \subseteq Sessions /\ inUse \subseteq Sessions /\ kept \subseteq Sessions
      BY <1>1 DEF Init
    <3> QED BY <3>2, <3>3, <3>4, <3>5, <3>6, <3>7 DEF TypeOK
  <2>2. \A c \in Connections : RunOK(c) BY <1>1 DEF Init, RunOK
  <2> QED BY <1>1, <2>1, <2>2 DEF Init, IInv, NothingSkipped
<1> QED BY <1>1, Step, PTL DEF Spec

(* The rows, the lock and the runs in flight always have their types.      *)
THEOREM TypeCorrect == Spec => []TypeOK
BY Inductive, PTL DEF IInv

(* For any number of sessions, servers and connections, and wherever runs  *)
(* fail: prunedUntil passes no session but those a device used.            *)
THEOREM NoSessionSkipped == Spec => []NothingSkipped
BY Inductive, PTL DEF IInv

(* Each step moves prunedUntil forward or leaves it, and with it go only   *)
(* sessions that are old and that no device uses.                          *)
LEMMA CommitStep ==
  ASSUME IInv, [Next]_vars
  PROVE  /\ prunedUntil' >= prunedUntil
         /\ prunedUntil' # prunedUntil =>
              \A s \in sessions \ sessions' : createdAt[s] < now - MaxAge /\ s \notin inUse
<1> USE DEF IInv, TypeOK
<1>1. CASE \E c \in Connections : CommitWindow(c)
  <2>1. PICK c \in Connections : CommitWindow(c) BY <1>1
  <2>2. /\ calls[c].at = "commit" /\ calls[c] # Idle /\ prunedUntil' = calls[c].until
        /\ sessions' = sessions \ calls[c].doomed
    BY <2>1, CallFields DEF CommitWindow
  <2>3. prunedUntil <= calls[c].until /\ calls[c].until < now - MaxAge
    BY <2>2, CallFields, PruneAssumption DEF RunOK
  <2>4. \A s \in calls[c].doomed : createdAt[s] <= calls[c].until /\ s \notin inUse
    BY <2>2 DEF RunOK, InWindow
  <2>5. ASSUME NEW s \in sessions \ sessions' PROVE createdAt[s] < now - MaxAge /\ s \notin inUse
    <3>1. createdAt[s] <= calls[c].until /\ s \notin inUse BY <2>2, <2>4
    <3>2. createdAt[s] \in Nat /\ calls[c].until \in Nat BY <2>2, CallFields
    <3> QED BY <2>3, <3>1, <3>2, PruneAssumption
  <2> QED BY <2>2, <2>3, <2>5
<1>2. CASE ~\E c \in Connections : CommitWindow(c)
  <2>1. prunedUntil' = prunedUntil
    BY <1>2 DEF Next, vars, clientVars, Tick, ClientStep, CreateSession, DeleteSession, UseSession,
       LeaveSession, Timer, PruneTokens, Statement, GetLock, GetLockTimesOut, NothingToPrune,
       FindWindow, Sweep, StatementFails, ConnectionLost
  <2> QED BY <2>1
<1> QED BY <1>1, <1>2

(* The window never moves back.                                            *)
THEOREM TheWindowMovesOn == Spec => WindowMovesOn
<1>1. IInv /\ [Next]_vars => [prunedUntil' >= prunedUntil]_vars BY CommitStep
<1> QED BY <1>1, Inductive, PTL DEF Spec, WindowMovesOn

(* What pruning removes is older than MaxAge and used by no device, at the *)
(* moment it is removed and not only when its run began.                   *)
THEOREM OnlyOldAndUnusedGo == Spec => OnlyOldAndUnused
<1>1. IInv /\ [Next]_vars =>
        [prunedUntil' # prunedUntil =>
           \A s \in sessions \ sessions' : createdAt[s] < now - MaxAge /\ s \notin inUse]_vars
  BY CommitStep
<1> QED BY <1>1, Inductive, PTL DEF Spec, OnlyOldAndUnused

-----------------------------------------------------------------------------
(* A session is created among fewer than Burst of the same time.           *)
LEMMA CreateSpreads == ASSUME IInv, Spread, NEW s \in Sessions, CreateSession(s) PROVE Spread'
<1> USE DEF IInv, TypeOK
<1> DEFINE old == {r \in Sessions : createdAt[r] = now}
<1>1. /\ createdAt[s] = 0 /\ Cardinality(old) < Burst /\ now' = now
      /\ createdAt'[s] = now /\ \A r \in Sessions \ {s} : createdAt'[r] = createdAt[r]
      /\ sessions' = sessions \cup {s}
  BY DEF CreateSession
<1>2. IsFiniteSet(old)
  <2>1. CASE old = {} BY <2>1, FS_EmptySet
  <2>2. CASE old # {}
    <3>1. PICK r \in Sessions : createdAt[r] = now BY <2>2
    <3>2. SameTime(r) = old BY <3>1 DEF SameTime
    <3> QED BY <3>1, <3>2 DEF Spread
  <2> QED BY <2>1, <2>2
<1>3. s \notin old BY <1>1
<1> HIDE DEF old
<1>4. IsFiniteSet(old \cup {s}) /\ Cardinality(old \cup {s}) <= Burst
  <2>1. IsFiniteSet(old \cup {s}) /\ Cardinality(old \cup {s}) = Cardinality(old) + 1
    BY <1>2, <1>3, FS_AddElement
  <2>2. Cardinality(old) \in Nat BY <1>2, FS_CardinalityType
  <2> QED BY <1>1, <2>1, <2>2, BurstAssumption
<1>5. ASSUME NEW q \in Sessions, createdAt'[q] # 0
      PROVE  IsFiniteSet(SameTime(q)') /\ Cardinality(SameTime(q)') <= Burst
  <2>1. CASE createdAt'[q] = now
    <3>1. SameTime(q)' = old \cup {s} BY <1>1, <2>1 DEF SameTime, old
    <3> QED BY <1>4, <3>1
  <2>2. CASE createdAt'[q] # now
    <3>1. q # s /\ createdAt'[q] = createdAt[q] BY <1>1, <2>2
    <3>2. SameTime(q)' = SameTime(q) BY <1>1, <1>5, <2>2, <3>1 DEF SameTime
    <3> QED BY <1>5, <3>1, <3>2 DEF Spread
  <2> QED BY <2>1, <2>2
<1> QED BY <1>1, <1>5 DEF Spread

LEMMA SpreadStep == ASSUME IInv, Spread, [Next]_vars PROVE Spread'
<1>1. CASE \E s \in Sessions : CreateSession(s) BY <1>1, CreateSpreads
<1>2. CASE ~\E s \in Sessions : CreateSession(s)
  <2>1. createdAt' = createdAt /\ sessions' \subseteq sessions /\ (now' = now \/ now' = now + 1)
    BY <1>2 DEF Next, vars, clientVars, Tick, ClientStep, DeleteSession, UseSession, LeaveSession,
       Timer, PruneTokens, Statement, GetLock, GetLockTimesOut, NothingToPrune, FindWindow, Sweep,
       CommitWindow, StatementFails, ConnectionLost
  <2>2. \A s \in Sessions : createdAt[s] <= now' BY <2>1 DEF IInv, TypeOK, Spread
  <2>3. \A s \in Sessions : SameTime(s)' = SameTime(s) BY <2>1 DEF SameTime
  <2> QED BY <2>1, <2>2, <2>3 DEF Spread
<1> QED BY <1>1, <1>2

(* A window ends beyond prunedUntil, or nothing old is there: when LIMIT   *)
(* cuts the candidates, those it leaves are more than share one createdAt. *)
LEMMA FindWindowAdvances ==
  ASSUME IInv, Spread, NEW c \in Connections, calls[c] # Idle, NEW B \in Oldest(Candidates(c)),
         NEW last \in B, \A s \in B : createdAt[s] <= createdAt[last]
  PROVE  \/ createdAt[last] > prunedUntil
         \/ \A s \in sessions : createdAt[s] <= prunedUntil \/ createdAt[s] >= calls[c].olderThan
<1> USE DEF IInv, TypeOK
<1>1. createdAt[last] \in Nat /\ prunedUntil \in Nat /\ calls[c].olderThan \in Int
      /\ last \in sessions /\ last \in Sessions
  BY WindowEnd, CallFields
<1>2. SUFFICES ASSUME createdAt[last] <= prunedUntil,
                      NEW s \in sessions, createdAt[s] > prunedUntil,
                      createdAt[s] < calls[c].olderThan
               PROVE  FALSE
  BY <1>1
<1>3. s \in Candidates(c) /\ s \notin B BY <1>1, <1>2 DEF Candidates
<1>4. Cardinality(B) = Limit BY <1>3 DEF Oldest
<1>5. B \subseteq SameTime(last)
  <2> SUFFICES ASSUME NEW r \in B PROVE r \in SameTime(last) OBVIOUS
  <2>1. r \in sessions /\ createdAt[r] \in Nat /\ prunedUntil <= createdAt[r] BY WindowEnd
  <2>2. createdAt[r] <= createdAt[last] OBVIOUS
  <2>3. createdAt[r] = createdAt[last] BY <1>1, <1>2, <2>1, <2>2
  <2> QED BY <2>1, <2>3 DEF SameTime
<1>6. IsFiniteSet(SameTime(last)) /\ Cardinality(SameTime(last)) <= Burst BY <1>1 DEF Spread
<1>7. IsFiniteSet(B) /\ Cardinality(B) <= Cardinality(SameTime(last))
  BY <1>5, <1>6, FS_Subset
<1>8. Cardinality(B) \in Nat /\ Cardinality(SameTime(last)) \in Nat
  BY <1>6, <1>7, FS_CardinalityType
<1> QED BY <1>4, <1>6, <1>7, <1>8, BurstAssumption, PruneAssumption

(* Nothing old is created while a run is on its way, and only the run that *)
(* has the lock moves prunedUntil.                                         *)
LEMMA AdvancesStep ==
  ASSUME IInv, Spread, WindowAdvances, [Next]_vars
  PROVE  WindowAdvances'
<1> USE DEF IInv, TypeOK
<1>a. IInv' BY Step
<1>1. SUFFICES ASSUME NEW c \in Connections, calls'[c] # Idle, calls'[c].at \in {"sweep", "commit"}
               PROVE  \/ calls'[c].until > prunedUntil'
                      \/ \A s \in sessions' :
                           createdAt'[s] <= prunedUntil' \/ createdAt'[s] >= calls'[c].olderThan
  BY DEF WindowAdvances
<1>2. \A s \in sessions' : (s \in sessions /\ createdAt'[s] = createdAt[s]) \/ createdAt'[s] = now'
  BY DEF Next, vars, clientVars, Tick, ClientStep, CreateSession, DeleteSession, UseSession,
     LeaveSession, Timer, PruneTokens, Statement, GetLock, GetLockTimesOut, NothingToPrune,
     FindWindow, Sweep, CommitWindow, StatementFails, ConnectionLost
<1>3. calls'[c].olderThan \in Int /\ calls'[c].olderThan < now'
  <2>1. calls'[c] \in Call BY <1>a
  <2>2. calls'[c].olderThan \in Int BY <1>1, <2>1 DEF Call
  <2>3. calls'[c].olderThan <= now' - MaxAge BY <1>a, <1>1 DEF RunOK
  <2> QED BY <1>a, <2>2, <2>3, PruneAssumption
<1>4. CASE FindWindow(c)
  <2>1. PICK B \in Oldest(Candidates(c)) : \E last \in B :
          /\ \A s \in B : createdAt[s] <= createdAt[last]
          /\ calls' = [calls EXCEPT ![c].at = "sweep", ![c].from = prunedUntil,
                                    ![c].until = createdAt[last]]
    BY <1>4 DEF FindWindow
  <2>2. PICK last \in B :
          /\ \A s \in B : createdAt[s] <= createdAt[last]
          /\ calls' = [calls EXCEPT ![c].at = "sweep", ![c].from = prunedUntil,
                                    ![c].until = createdAt[last]]
    BY <2>1
  <2>3. UNCHANGED <<sessions, createdAt, prunedUntil>> /\ calls[c] # Idle
    BY <1>4, CallFields DEF FindWindow, clientVars
  <2>4. calls'[c].until = createdAt[last] /\ calls'[c].olderThan = calls[c].olderThan
    BY <2>2, <2>3, CallFields DEF Call, Idle
  <2>5. \/ createdAt[last] > prunedUntil
        \/ \A s \in sessions : createdAt[s] <= prunedUntil \/ createdAt[s] >= calls[c].olderThan
    BY <2>2, <2>3, FindWindowAdvances
  <2> QED BY <2>3, <2>4, <2>5
<1>5. CASE ~FindWindow(c)
  <2>1. ASSUME NEW d \in Connections, d # c,
               PruneTokens(d) \/ Statement(d) \/ StatementFails(d) \/ ConnectionLost(d)
        PROVE  calls'[c] = calls[c]
    BY <2>1 DEF PruneTokens, Statement, GetLock, GetLockTimesOut, NothingToPrune, FindWindow, Sweep,
       CommitWindow, Released, StatementFails, ConnectionLost
  <2>2. ~(PruneTokens(c) \/ GetLock(c) \/ GetLockTimesOut(c) \/ NothingToPrune(c)
          \/ CommitWindow(c) \/ StatementFails(c) \/ ConnectionLost(c))
    <3>1. calls'[c].at # "asked" /\ calls'[c].at # "window" BY <1>1
    <3>2. ~PruneTokens(c) BY <3>1 DEF PruneTokens
    <3>3. ~GetLock(c) BY <3>1, CallFields DEF GetLock, Call, Idle
    <3>4. ~GetLockTimesOut(c) /\ ~NothingToPrune(c) /\ ~CommitWindow(c)
          /\ ~StatementFails(c) /\ ~ConnectionLost(c)
      BY <1>1 DEF GetLockTimesOut, NothingToPrune, CommitWindow, Released, StatementFails,
         ConnectionLost
    <3> QED BY <3>2, <3>3, <3>4
  <2>3. /\ calls[c].at \in {"sweep", "commit"} /\ calls[c] # Idle
        /\ calls'[c].until = calls[c].until /\ calls'[c].olderThan = calls[c].olderThan
    <3>1. CASE Sweep(c)
      <4>1. calls[c].at = "sweep" /\ calls[c] # Idle BY <3>1, CallFields DEF Sweep
      <4>2. calls[c].until = calls'[c].until /\ calls[c].olderThan = calls'[c].olderThan
        BY <3>1, <4>1, CallFields DEF Sweep, Call, Idle
      <4> QED BY <4>1, <4>2
    <3>2. CASE ~Sweep(c)
      <4>1. calls'[c] = calls[c]
        <5>1. CASE UNCHANGED calls BY <5>1
        <5>2. CASE calls' # calls
          <6>1. \E d \in Connections :
                  PruneTokens(d) \/ Statement(d) \/ StatementFails(d) \/ ConnectionLost(d)
            BY <5>2 DEF Next, vars, Tick, ClientStep, CreateSession, DeleteSession, UseSession,
               LeaveSession, Timer
          <6>2. ~(PruneTokens(c) \/ Statement(c) \/ StatementFails(c) \/ ConnectionLost(c))
            BY <1>5, <2>2, <3>2 DEF Statement
          <6> QED BY <2>1, <6>1, <6>2
        <5> QED BY <5>1, <5>2
      <4> QED BY <1>1, <4>1
    <3> QED BY <3>1, <3>2
  <2>4. prunedUntil' = prunedUntil
    <3>1. ASSUME NEW d \in Connections, CommitWindow(d) PROVE FALSE
      <4>1. d # c /\ calls[d] # Idle /\ calls[d].at = "commit"
        BY <2>2, <3>1, CallFields DEF CommitWindow
      <4> QED BY <2>3, <4>1, OneRun
    <3> QED
      BY <3>1 DEF Next, vars, clientVars, Tick, ClientStep, CreateSession, DeleteSession,
         UseSession, LeaveSession, Timer, PruneTokens, Statement, GetLock, GetLockTimesOut,
         NothingToPrune, FindWindow, Sweep, StatementFails, ConnectionLost
  <2>5. ASSUME NEW s \in sessions', createdAt'[s] = now'
        PROVE  createdAt'[s] >= calls'[c].olderThan
    <3>1. now' \in Nat BY <1>a
    <3> QED BY <1>3, <2>5, <3>1
  <2>6. CASE calls[c].until > prunedUntil BY <2>3, <2>4, <2>6
  <2>7. CASE \A s \in sessions : createdAt[s] <= prunedUntil \/ createdAt[s] >= calls[c].olderThan
    BY <1>2, <2>3, <2>4, <2>5, <2>7
  <2> QED BY <2>3, <2>6, <2>7 DEF WindowAdvances
<1> QED BY <1>4, <1>5

(* For any number of sessions and connections: the LIMIT never holds the   *)
(* window up, as long as fewer than LIMIT sessions share a millisecond.    *)
THEOREM TheWindowAdvances == Spec => []WindowAdvances
<1>1. Init => Spread /\ WindowAdvances BY DEF Init, Spread, WindowAdvances
<1>2. IInv /\ Spread /\ WindowAdvances /\ [Next]_vars => Spread' /\ WindowAdvances'
  BY SpreadStep, AdvancesStep
<1> QED BY <1>1, <1>2, Inductive, PTL DEF Spec
=============================================================================
