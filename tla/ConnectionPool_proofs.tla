------------------------ MODULE ConnectionPool_proofs ------------------------
(***************************************************************************)
(* Proofs about ConnectionPool, for any number of requests and connections *)
(* and any set of faults.                                                  *)
(***************************************************************************)
EXTENDS ConnectionPool, TLAPS

(* The request at the head of the queue waits, and waits only once.        *)
LEMMA HeadWaits ==
  ASSUME TypeOK, QueueMatches, queue # << >>
  PROVE  /\ Head(queue) \in Requests
         /\ at[Head(queue)] = "queued"
         /\ Tail(queue) \in Seq(Requests)
         /\ \A i \in 1 .. Len(Tail(queue)) :
              /\ at[Tail(queue)[i]] = "queued"
              /\ Tail(queue)[i] # Head(queue)
         /\ \A i, j \in 1 .. Len(Tail(queue)) : Tail(queue)[i] = Tail(queue)[j] => i = j
         /\ \A q \in Requests \ {Head(queue)} : at[q] = "queued" =>
              \E i \in 1 .. Len(Tail(queue)) : Tail(queue)[i] = q
<1>1. Len(queue) \in Nat \ {0} /\ Head(queue) = queue[1] BY DEF TypeOK
<1>2. Len(Tail(queue)) = Len(queue) - 1 /\ Tail(queue) \in Seq(Requests)
  BY <1>1 DEF TypeOK
<1>3. \A i \in 1 .. Len(Tail(queue)) : Tail(queue)[i] = queue[i + 1]
  BY <1>1, <1>2 DEF TypeOK
<1>4. ASSUME NEW q \in Requests \ {Head(queue)}, at[q] = "queued"
      PROVE  \E i \in 1 .. Len(Tail(queue)) : Tail(queue)[i] = q
  <2>1. PICK i \in 1 .. Len(queue) : queue[i] = q BY <1>4 DEF QueueMatches
  <2>2. i # 1 BY <1>1, <2>1
  <2>3. i - 1 \in 1 .. Len(Tail(queue)) /\ i - 1 + 1 = i BY <1>1, <1>2, <2>2
  <2> QED BY <1>3, <2>1, <2>3
<1> QED BY <1>1, <1>2, <1>3, <1>4 DEF TypeOK, QueueMatches

(* A request that works with a connection has a connection of the pool.    *)
LEMMA WorkingConn ==
  ASSUME ConnectionsExclusive, NEW r \in Requests, at[r] \in Working
  PROVE  conn[r] \in Conns /\ conns[conn[r]] = "used"
BY DEF ConnectionsExclusive

(* What Refused does to the places keeps their types.                      *)
LEMMA RefusedType ==
  ASSUME TypeOK, NEW r \in Requests, NEW retry \in BOOLEAN, Refused(r, retry)
  PROVE  /\ at' \in [Requests -> Places] /\ conn' \in [Requests -> Conns \cup {None}]
         /\ asked' \subseteq Requests /\ retried' \subseteq Requests
         /\ err' \in [Requests -> Errors \cup {"none"}]
<1>1. CASE retry /\ r \notin asked BY <1>1 DEF TypeOK, Refused, Places
<1>2. CASE ~(retry /\ r \notin asked) BY <1>2 DEF TypeOK, Refused, Places
<1> QED BY <1>1, <1>2

(* Committing what is open on a connection, and what procedures make of it,*)
(* keep the types.                                                         *)
LEMMA CommitOpenType ==
  ASSUME TypeOK, NEW c \in Conns, CommitOpen(c)
  PROVE  applied' \in [Requests -> Nat]
<1>1. CASE open[c] = None BY <1>1 DEF TypeOK, CommitOpen
<1>2. CASE open[c] # None BY <1>2 DEF TypeOK, CommitOpen
<1> QED BY <1>1, <1>2

LEMMA ProceduresType ==
  ASSUME TypeOK, NEW c \in Conns, NEW lost \in BOOLEAN, Procedures(c, lost)
  PROVE  open' \in [Conns -> Requests \cup {None}] /\ applied' \in [Requests -> Nat]
<1>1. CASE UNCHANGED <<open, applied>> BY <1>1 DEF TypeOK
<1>2. CASE /\ open' = [open EXCEPT ![c] = None]
           /\ UNCHANGED applied \/ CommitOpen(c)
  BY <1>2, CommitOpenType DEF TypeOK
<1> QED BY <1>1, <1>2 DEF Procedures

(* So does a settled transaction.                                          *)
LEMMA SettleType ==
  ASSUME TypeOK, NEW r \in Requests, NEW e, Settle(r, e)
  PROVE  /\ at' \in [Requests -> Places] /\ conn' \in [Requests -> Conns \cup {None}]
         /\ asked' \subseteq Requests /\ retried' \subseteq Requests
         /\ err' \in [Requests -> Errors \cup {"none"}]
<1>1. CASE e = "lock" /\ r \notin retried BY <1>1 DEF TypeOK, Settle, Places
<1>2. CASE ~(e = "lock" /\ r \notin retried) BY <1>2 DEF TypeOK, Settle, Answer, Places
<1> QED BY <1>1, <1>2

(* The type invariant, one step per action.                                *)
LEMMA TypeStep == ASSUME TypeOK, QueueMatches, ConnectionsExclusive, [Next]_vars PROVE TypeOK'
<1> USE PoolAssumption DEF TypeOK, Places, Errors
<1>1. CASE UNCHANGED vars BY <1>1 DEF vars, places
<1>2. ASSUME NEW r \in Requests, AskPool(r) PROVE TypeOK'
  <2>1. CASE Available # {} \/ Len(queue) < QueueLimit
    <3>a. queue' = Append(queue, r) /\ at' = [at EXCEPT ![r] = "queued"]
      BY <1>2, <2>1 DEF AskPool
    <3>b. queue \in Seq(Requests) BY DEF TypeOK
    <3>c. queue' \in Seq(Requests) BY <3>a, <3>b
    <3>1. queue' \in Seq(Requests) /\ at' \in [Requests -> Places]
      BY <3>a, <3>c
    <3>2. UNCHANGED <<conns, initialized, open, conn, asked, retried, err, applied, unrolled>>
      BY <1>2, <2>1 DEF AskPool
    <3> QED BY <3>1, <3>2
  <2>2. CASE ~(Available # {} \/ Len(queue) < QueueLimit)
    BY <1>2, <2>2, RefusedType DEF AskPool
  <2> QED BY <2>1, <2>2
<1>3. ASSUME NEW r \in Requests, NEW c \in Conns, Grant(r, c) PROVE TypeOK'
  BY <1>3, HeadWaits DEF Grant, FirstUse
<1>4. ASSUME NEW r \in Requests, ConnectFails(r) PROVE TypeOK'
  <2>1. PICK retry \in BOOLEAN : Refused(r, retry) BY <1>4 DEF ConnectFails
  <2> QED BY <1>4, <2>1, HeadWaits, RefusedType DEF ConnectFails
<1>5. ASSUME NEW r \in Requests, SetupDone(r) PROVE TypeOK'
  BY <1>5, WorkingConn DEF SetupDone, FirstUse, Working
<1>6. ASSUME NEW r \in Requests, NEW lost \in BOOLEAN, SetupFails(r, lost) PROVE TypeOK'
  BY <1>6 DEF SetupFails, Answer
<1>7. ASSUME NEW r \in Requests, NEW lost \in BOOLEAN,
             QueryDone(r, lost) \/ FinalDone(r, lost)
      PROVE  TypeOK'
  <2>1. at[r] \in Working /\ Procedures(conn[r], lost) BY <1>7 DEF QueryDone, FinalDone, Working
  <2>2. open' \in [Conns -> Requests \cup {None}] /\ applied' \in [Requests -> Nat]
    BY <2>1, WorkingConn, ProceduresType
  <2>3. CASE QueryDone(r, lost) BY <2>2, <2>3 DEF QueryDone, Release, Answer
  <2>4. CASE FinalDone(r, lost) BY <2>2, <2>4 DEF FinalDone, Release, Answer
  <2> QED BY <1>7, <2>3, <2>4
<1>8. ASSUME NEW r \in Requests, NEW lost \in BOOLEAN, QueriesDone(r, lost) PROVE TypeOK'
  <2>1. at[r] \in Working /\ Procedures(conn[r], lost) BY <1>8 DEF QueriesDone, Working
  <2>2. open' \in [Conns -> Requests \cup {None}] /\ applied' \in [Requests -> Nat]
    BY <2>1, WorkingConn, ProceduresType
  <2> QED BY <1>8, <2>2 DEF QueriesDone
<1>9. ASSUME NEW r \in Requests, Begin(r) PROVE TypeOK'
  <2>1. at[r] \in Working BY <1>9 DEF Begin, Working
  <2>2. conn[r] \in Conns /\ applied' \in [Requests -> Nat]
    BY <1>9, <2>1, WorkingConn, CommitOpenType DEF Begin
  <2> QED BY <1>9, <2>2 DEF Begin
<1>10. ASSUME NEW r \in Requests, Body(r) PROVE TypeOK'
  BY <1>10 DEF Body
<1>11. ASSUME NEW r \in Requests, Commit(r) PROVE TypeOK'
  <2>1. at[r] \in Working BY <1>11 DEF Commit, Working
  <2>2. conn[r] \in Conns /\ applied' \in [Requests -> Nat]
    BY <1>11, <2>1, WorkingConn, CommitOpenType DEF Commit
  <2> QED BY <1>11, <2>2 DEF Commit, Release, Answer
<1>12. ASSUME NEW r \in Requests, NEW e \in Errors, Fail(r, e) PROVE TypeOK'
  <2>1. at[r] \in Working BY <1>12 DEF Fail, Working
  <2>2. conn[r] \in Conns /\ applied' \in [Requests -> Nat]
    <3>1. conn[r] \in Conns BY <2>1, WorkingConn
    <3>2. CASE UNCHANGED applied BY <3>1, <3>2
    <3>3. CASE CommitOpen(conn[r]) BY <3>1, <3>3, CommitOpenType
    <3> QED BY <1>12, <3>2, <3>3 DEF Fail
  <2>3. at' \in [Requests -> Places] /\ err' \in [Requests -> Errors \cup {"none"}]
    BY <1>12 DEF Fail
  <2>4. open' \in [Conns -> Requests \cup {None}] BY <1>12 DEF Fail
  <2>5. UNCHANGED <<conns, initialized, queue, conn, asked, retried, unrolled>> BY <1>12 DEF Fail
  <2> QED BY <2>2, <2>3, <2>4, <2>5
<1>13. ASSUME NEW r \in Requests, NEW lost \in BOOLEAN, Rollback(r, lost) PROVE TypeOK'
  BY <1>13, SettleType DEF Rollback, Release
<1>14. ASSUME NEW r \in Requests, RollbackFails(r) PROVE TypeOK'
  BY <1>14, SettleType DEF RollbackFails, Release
<1> QED BY <1>1, <1>2, <1>3, <1>4, <1>5, <1>6, <1>7, <1>8, <1>9, <1>10, <1>11, <1>12, <1>13,
           <1>14
        DEF Next, PoolStep, RequestStep

-----------------------------------------------------------------------------
(* Where a refusal, an answer and a settled transaction leave a request.   *)
LEMMA RefusedPlace ==
  ASSUME TypeOK, NEW r \in Requests, NEW retry \in BOOLEAN, Refused(r, retry)
  PROVE  /\ at'[r] \in {"ask", "hung"} /\ UNCHANGED <<conn, err>>
         /\ \A q \in Requests \ {r} : at'[q] = at[q]
<1>1. CASE retry /\ r \notin asked BY <1>1 DEF TypeOK, Refused
<1>2. CASE ~(retry /\ r \notin asked) BY <1>2 DEF TypeOK, Refused
<1> QED BY <1>1, <1>2

(* An answered request holds no connection.                                *)
LEMMA AnswerPlace ==
  ASSUME TypeOK, NEW r \in Requests, Answer(r)
  PROVE  /\ at'[r] = "answered" /\ conn' = [conn EXCEPT ![r] = None]
         /\ \A q \in Requests \ {r} : at'[q] = at[q] /\ conn'[q] = conn[q] /\ err'[q] = err[q]
BY DEF TypeOK, Answer

(* A settled transaction holds none either, tried again or not.            *)
LEMMA SettlePlace ==
  ASSUME TypeOK, NEW r \in Requests, NEW e, Settle(r, e)
  PROVE  /\ at'[r] \in {"ask", "answered"} /\ conn' = [conn EXCEPT ![r] = None]
         /\ \A q \in Requests \ {r} : at'[q] = at[q] /\ conn'[q] = conn[q] /\ err'[q] = err[q]
<1>1. CASE e = "lock" /\ r \notin retried BY <1>1 DEF TypeOK, Settle
<1>2. CASE ~(e = "lock" /\ r \notin retried) BY <1>2, AnswerPlace DEF Settle
<1> QED BY <1>1, <1>2

(* The steps of a request that works: it keeps its connection, or gives it *)
(* back or abandons it.                                                    *)
Keeps(r) ==
  \/ SetupDone(r) \/ Begin(r) \/ Body(r)
  \/ \E lost \in BOOLEAN : QueriesDone(r, lost)
  \/ \E e \in Errors : Fail(r, e)
Ends(r) ==
  \/ Commit(r) \/ RollbackFails(r)
  \/ \E lost \in BOOLEAN :
       SetupFails(r, lost) \/ QueryDone(r, lost) \/ FinalDone(r, lost) \/ Rollback(r, lost)

(* What the first ones do to the places.                                   *)
LEMMA KeepsPlace ==
  ASSUME TypeOK, NEW r \in Requests, Keeps(r)
  PROVE  /\ at[r] \in Working /\ at'[r] \in Working \ {"setup"}
         /\ UNCHANGED <<conns, conn, queue, asked, retried>>
         /\ initialized' = initialized \/ (at[r] = "setup" /\ initialized' = initialized \cup {conn[r]})
         /\ \A q \in Requests \ {r} : at'[q] = at[q]
<1> USE DEF TypeOK, Working
<1>1. CASE SetupDone(r) BY <1>1 DEF SetupDone, FirstUse
<1>2. CASE Begin(r) BY <1>2 DEF Begin
<1>3. CASE Body(r) BY <1>3 DEF Body
<1>4. ASSUME NEW lost \in BOOLEAN, QueriesDone(r, lost)
      PROVE  /\ at[r] = "query" /\ at'[r] = "final"
             /\ UNCHANGED <<conns, conn, queue, asked, retried, initialized>>
             /\ \A q \in Requests \ {r} : at'[q] = at[q]
  BY <1>4 DEF QueriesDone
<1>5. ASSUME NEW e \in Errors, Fail(r, e)
      PROVE  /\ at[r] \in {"begin", "body", "commit"} /\ at'[r] = "rollback"
             /\ UNCHANGED <<conns, conn, queue, asked, retried, initialized>>
             /\ \A q \in Requests \ {r} : at'[q] = at[q]
  BY <1>5 DEF Fail
<1> QED BY <1>1, <1>2, <1>3, <1>4, <1>5 DEF Keeps

(* And the others: which end as an answer or in another try ...            *)
LEMMA EndPlace ==
  ASSUME TypeOK, NEW r \in Requests, Ends(r)
  PROVE  /\ at[r] \in Working /\ at'[r] \in {"ask", "answered"}
         /\ conn' = [conn EXCEPT ![r] = None] /\ UNCHANGED queue
         /\ \A q \in Requests \ {r} : at'[q] = at[q] /\ conn'[q] = conn[q] /\ err'[q] = err[q]
<1> DEFINE Place ==
      /\ at[r] \in Working /\ at'[r] \in {"ask", "answered"}
      /\ conn' = [conn EXCEPT ![r] = None] /\ UNCHANGED queue
      /\ \A q \in Requests \ {r} : at'[q] = at[q] /\ conn'[q] = conn[q] /\ err'[q] = err[q]
<1>1. CASE Commit(r) BY <1>1, AnswerPlace DEF Commit, Working
<1>2. CASE RollbackFails(r) BY <1>2, SettlePlace DEF RollbackFails, Working
<1>3. ASSUME NEW lost \in BOOLEAN, SetupFails(r, lost) PROVE Place
  BY <1>3, AnswerPlace DEF SetupFails, Working
<1>4. ASSUME NEW lost \in BOOLEAN, QueryDone(r, lost) PROVE Place
  BY <1>4, AnswerPlace DEF QueryDone, Working
<1>5. ASSUME NEW lost \in BOOLEAN, FinalDone(r, lost) PROVE Place
  BY <1>5, AnswerPlace DEF FinalDone, Working
<1>6. ASSUME NEW lost \in BOOLEAN, Rollback(r, lost) PROVE Place
  BY <1>6, SettlePlace DEF Rollback, Working
<1> QED BY <1>1, <1>2, <1>3, <1>4, <1>5, <1>6 DEF Ends

(* ... and release the connection, but for one that was being set up.      *)
LEMMA EndReleases ==
  ASSUME NEW r \in Requests, Ends(r)
  PROVE  \/ \E lost \in BOOLEAN : Release(conn[r], lost)
         \/ \E lost \in BOOLEAN : SetupFails(r, lost)
BY DEF Ends, Commit, RollbackFails, QueryDone, FinalDone, Rollback

-----------------------------------------------------------------------------
(* The queue: what an action does to it and to the places keeps QueueMatches.*)
LEMMA QueueStep == ASSUME TypeOK, QueueMatches, [Next]_vars PROVE QueueMatches'
<1> USE DEF QueueMatches
<1>1. CASE UNCHANGED vars BY <1>1 DEF vars, places
<1>2. ASSUME NEW r \in Requests, at[r] # "queued", at'[r] # "queued", queue' = queue,
             \A q \in Requests \ {r} : at'[q] = at[q]
      PROVE  QueueMatches'
  <2>1. \A i \in 1 .. Len(queue) : queue[i] \in Requests BY DEF TypeOK
  <2> QED BY <1>2, <2>1
<1>3. ASSUME NEW r \in Requests, queue # << >>, Head(queue) = r, queue' = Tail(queue),
             at'[r] # "queued", \A q \in Requests \ {r} : at'[q] = at[q]
      PROVE  QueueMatches'
  <2>1. \A i \in 1 .. Len(Tail(queue)) : Tail(queue)[i] \in Requests \ {r}
    BY <1>3, HeadWaits
  <2>2. \A i \in 1 .. Len(queue') : at'[queue'[i]] = "queued"
    BY <1>3, <2>1, HeadWaits
  <2>3. \A i, j \in 1 .. Len(queue') : queue'[i] = queue'[j] => i = j
    BY <1>3, HeadWaits
  <2>4. \A q \in Requests : at'[q] = "queued" => \E i \in 1 .. Len(queue') : queue'[i] = q
    BY <1>3, HeadWaits
  <2> QED BY <2>2, <2>3, <2>4
<1>4. ASSUME NEW r \in Requests, AskPool(r) PROVE QueueMatches'
  <2>1. CASE ~(Available # {} \/ Len(queue) < QueueLimit)
    <3>1. Refused(r, FALSE) /\ queue' = queue /\ at[r] = "ask" BY <1>4, <2>1 DEF AskPool
    <3>2. at'[r] # "queued" /\ \A q \in Requests \ {r} : at'[q] = at[q]
      BY <3>1 DEF Refused, TypeOK
    <3> QED BY <1>2, <3>1, <3>2
  <2>2. CASE queue' = Append(queue, r) /\ at' = [at EXCEPT ![r] = "queued"]
    <3>1. \A i \in 1 .. Len(queue) : queue[i] \in Requests /\ queue[i] # r
      BY <1>4 DEF AskPool, TypeOK
    <3>2. Len(queue) \in Nat /\ Len(queue') = Len(queue) + 1 /\ queue'[Len(queue) + 1] = r
      BY <2>2 DEF TypeOK
    <3>3. \A i \in 1 .. Len(queue) : queue'[i] = queue[i] BY <2>2 DEF TypeOK
    <3>4. \A i \in 1 .. Len(queue') : i \in 1 .. Len(queue) \/ i = Len(queue) + 1 BY <3>2
    <3>5. \A i \in 1 .. Len(queue') : at'[queue'[i]] = "queued"
      BY <2>2, <3>1, <3>2, <3>3, <3>4 DEF TypeOK
    <3>6. ASSUME NEW q \in Requests, at'[q] = "queued"
          PROVE  \E i \in 1 .. Len(queue') : queue'[i] = q
      <4>1. CASE q = r
        <5>1. Len(queue) + 1 \in 1 .. Len(queue') BY <3>2
        <5> QED BY <3>2, <4>1, <5>1
      <4>2. CASE q # r
        <5>1. at[q] = "queued" BY <2>2, <3>6, <4>2 DEF TypeOK
        <5>2. PICK i \in 1 .. Len(queue) : queue[i] = q BY <5>1
        <5>3. i \in 1 .. Len(queue') BY <3>2
        <5> QED BY <3>3, <5>2, <5>3
      <4> QED BY <4>1, <4>2
    <3> QED BY <3>1, <3>2, <3>3, <3>4, <3>5, <3>6
  <2> QED BY <1>4, <2>1, <2>2 DEF AskPool
<1>5. ASSUME NEW r \in Requests, NEW c \in Conns, Grant(r, c) PROVE QueueMatches'
  BY <1>3, <1>5 DEF Grant, FirstUse, TypeOK
<1>6. ASSUME NEW r \in Requests, ConnectFails(r) PROVE QueueMatches'
  BY <1>3, <1>6 DEF ConnectFails, Refused, TypeOK
<1>7. ASSUME NEW r \in Requests, Keeps(r)
      PROVE  QueueMatches'
  <2>1. at[r] # "queued" /\ at'[r] # "queued" BY <1>7, KeepsPlace DEF Working
  <2> QED BY <1>2, <1>7, <2>1, KeepsPlace
<1>8. ASSUME NEW r \in Requests, Ends(r)
      PROVE  QueueMatches'
  <2>1. at[r] # "queued" /\ at'[r] # "queued" BY <1>8, EndPlace DEF Working
  <2> QED BY <1>2, <1>8, <2>1, EndPlace
<1> QED BY <1>1, <1>4, <1>5, <1>6, <1>7, <1>8
        DEF Next, PoolStep, RequestStep, Keeps, Ends

-----------------------------------------------------------------------------
(* A request that waits at the head of the queue gets no connection: what  *)
(* ConnectFails does to it.                                                *)
LEMMA ConnectFailsPlace ==
  ASSUME TypeOK, QueueMatches, NEW r \in Requests, ConnectFails(r)
  PROVE  /\ at[r] = "queued" /\ at'[r] \in {"ask", "hung"} /\ UNCHANGED <<conn, err>>
         /\ \A q \in Requests \ {r} : at'[q] = at[q]
<1>1. PICK retry \in BOOLEAN : Refused(r, retry) BY DEF ConnectFails
<1>2. at[r] = "queued" BY HeadWaits DEF ConnectFails
<1> QED BY <1>1, <1>2, RefusedPlace

(* A request that asks the pool is queued or refused.                      *)
LEMMA AskPoolPlace ==
  ASSUME TypeOK, NEW r \in Requests, AskPool(r)
  PROVE  /\ at[r] = "ask" /\ at'[r] \in {"queued", "ask", "hung"} /\ UNCHANGED <<conn, err>>
         /\ \A q \in Requests \ {r} : at'[q] = at[q]
<1>1. CASE Available # {} \/ Len(queue) < QueueLimit BY <1>1 DEF AskPool, TypeOK
<1>2. CASE ~(Available # {} \/ Len(queue) < QueueLimit)
  BY <1>2, RefusedPlace DEF AskPool
<1> QED BY <1>1, <1>2

-----------------------------------------------------------------------------
(* A request takes a connection nobody has, keeps it while it works, or     *)
(* gives it back as it stops working.                                      *)
LEMMA ExclusiveStep ==
  ASSUME TypeOK, QueueMatches, ConnectionsExclusive, [Next]_vars
  PROVE  ConnectionsExclusive'
<1> USE PoolAssumption DEF ConnectionsExclusive
<1>1. CASE UNCHANGED vars BY <1>1 DEF vars, places
<1>2. ASSUME NEW r \in Requests, at[r] \in Working <=> at'[r] \in Working,
             UNCHANGED <<conns, conn>>,
             \A q \in Requests \ {r} : at'[q] = at[q]
      PROVE  ConnectionsExclusive'
  BY <1>2
<1>3. ASSUME NEW r \in Requests, NEW c \in Conns, conns[c] # "used", conn[r] = None,
             at'[r] \in Working,
             conns' = [conns EXCEPT ![c] = "used"], conn' = [conn EXCEPT ![r] = c],
             \A q \in Requests \ {r} : at'[q] = at[q]
      PROVE  ConnectionsExclusive'
  <2>1. \A q \in Requests : conn[q] # c BY <1>3
  <2> QED BY <1>3, <2>1 DEF TypeOK
<1>4. ASSUME NEW r \in Requests, at[r] \in Working, at'[r] \notin Working,
             NEW state, conns' = [conns EXCEPT ![conn[r]] = state],
             conn' = [conn EXCEPT ![r] = None],
             \A q \in Requests \ {r} : at'[q] = at[q]
      PROVE  ConnectionsExclusive'
  <2>1. \A q \in Requests \ {r} : conn[q] = None \/ conn[q] # conn[r] BY <1>4
  <2>2. \A q \in Requests \ {r} : conn'[q] = conn[q] BY <1>4 DEF TypeOK
  <2>3. \A d \in Conns \ {conn[r]} : conns'[d] = conns[d] BY <1>4 DEF TypeOK
  <2>4. conn'[r] = None BY <1>4 DEF TypeOK
  <2> QED BY <1>4, <2>1, <2>2, <2>3, <2>4
<1>5. ASSUME NEW r \in Requests, AskPool(r) PROVE ConnectionsExclusive'
  BY <1>2, <1>5, AskPoolPlace DEF AskPool, Working
<1>6. ASSUME NEW r \in Requests, NEW c \in Conns, Grant(r, c) PROVE ConnectionsExclusive'
  <2>1. at[r] = "queued" BY <1>6, HeadWaits DEF Grant
  <2>2. conn[r] = None BY <2>1 DEF Working
  <2>3. at'[r] \in Working BY <1>6 DEF Grant, FirstUse, Working, TypeOK
  <2> QED BY <1>3, <1>6, <2>2, <2>3 DEF Grant, Available, TypeOK
<1>7. ASSUME NEW r \in Requests, ConnectFails(r) PROVE ConnectionsExclusive'
  BY <1>2, <1>7, ConnectFailsPlace DEF ConnectFails, Working
<1>8. ASSUME NEW r \in Requests, Keeps(r)
      PROVE  ConnectionsExclusive'
  <2>1. at[r] \in Working /\ at'[r] \in Working BY <1>8, KeepsPlace
  <2> QED BY <1>2, <1>8, <2>1, KeepsPlace
<1>9. ASSUME NEW r \in Requests, Ends(r)
      PROVE  ConnectionsExclusive'
  <2>1. at[r] \in Working /\ at'[r] \notin Working BY <1>9, EndPlace DEF Working
  <2>2. ASSUME NEW state, conns' = [conns EXCEPT ![conn[r]] = state]
        PROVE  ConnectionsExclusive'
    BY <1>4, <1>9, <2>1, <2>2, EndPlace
  <2>3. ASSUME NEW lost \in BOOLEAN, Release(conn[r], lost) PROVE ConnectionsExclusive'
    BY <2>2, <2>3 DEF Release
  <2>4. ASSUME NEW lost \in BOOLEAN, SetupFails(r, lost) PROVE ConnectionsExclusive'
    BY <2>2, <2>4 DEF SetupFails
  <2> QED BY <1>9, <2>3, <2>4, EndReleases
<1> QED BY <1>1, <1>5, <1>6, <1>7, <1>8, <1>9
        DEF Next, PoolStep, RequestStep, Keeps, Ends

-----------------------------------------------------------------------------
(* What the properties say of open and of committed transactions.          *)
Transacted == TransactionsContained /\ OpenOnce /\ AppliedIsFinal /\ AppliedAtMostOnce

(* A request meets its own transaction on its connection, or one that a    *)
(* failed ROLLBACK left there.                                             *)
LEMMA OpenOnItsConnection ==
  ASSUME ConnectionsExclusive, TransactionsContained, OpenOnce, TypeOK,
         NEW r \in Requests, at[r] \in Working, open[conn[r]] # None
  PROVE  /\ open[conn[r]] \in Requests
         /\ \/ open[conn[r]] = r /\ at[r] \in {"body", "commit", "rollback"}
            \/ open[conn[r]] # r /\ at[open[conn[r]]] = "answered"
<1> DEFINE q == open[conn[r]]
<1>1. conn[r] \in Conns /\ conn[r] # None BY PoolAssumption, WorkingConn
<1>2. q \in Requests BY <1>1 DEF TypeOK
<1>3. CASE conn[q] = conn[r] /\ at[q] \in {"body", "commit", "rollback"}
  BY <1>1, <1>2, <1>3 DEF ConnectionsExclusive
<1>4. CASE q \in unrolled BY <1>2, <1>4 DEF OpenOnce, Working
<1> QED BY <1>1, <1>2, <1>3, <1>4 DEF TransactionsContained

(* A request that has not begun its transaction has none open anywhere.    *)
LEMMA NoneBegun ==
  ASSUME TransactionsContained, OpenOnce, NEW r \in Requests,
         at[r] \notin {"body", "commit", "rollback", "answered"}
  PROVE  \A c \in Conns : open[c] # r
BY PoolAssumption DEF TransactionsContained, OpenOnce

(* What was applied is final.                                              *)
LEMMA NotApplied ==
  ASSUME TypeOK, AppliedIsFinal, NEW r \in Requests, at[r] \notin {"answered", "rollback"}
  PROVE  applied[r] = 0
<1>1. ~Final(r) /\ applied[r] \in Nat BY DEF Final, TypeOK
<1> QED BY <1>1 DEF AppliedIsFinal

(* A step of a request that has none open and leaves the others' alone.    *)
LEMMA NoneTouched ==
  ASSUME TypeOK, Transacted, NEW r \in Requests,
         at[r] \notin {"body", "commit", "rollback", "answered"},
         UNCHANGED <<open, applied, unrolled>>,
         \A q \in Requests \ {r} : at'[q] = at[q] /\ conn'[q] = conn[q] /\ err'[q] = err[q]
  PROVE  Transacted'
<1> USE DEF Transacted
<1>1. applied[r] = 0 BY NotApplied
<1>2. \A c \in Conns : open[c] # None => open[c] \in Requests \ {r}
  BY NoneBegun DEF TypeOK
<1>3. TransactionsContained' BY <1>2 DEF TransactionsContained
<1>4. OpenOnce'
  <2>1. \A q \in unrolled : q \in Requests \ {r} BY DEF OpenOnce, TypeOK
  <2> QED BY <2>1 DEF OpenOnce
<1>5. AppliedIsFinal' /\ AppliedAtMostOnce' BY <1>1 DEF AppliedIsFinal, AppliedAtMostOnce, Final
<1> QED BY <1>3, <1>4, <1>5

(* A step that ends the transaction on its connection, whosoever it is, by *)
(* a rollback or a commit.                                                 *)
LEMMA OneEnded ==
  ASSUME TypeOK, ConnectionsExclusive, Transacted, NEW r \in Requests, at[r] \in Working,
         open' = [open EXCEPT ![conn[r]] = None], UNCHANGED unrolled,
         applied' = applied \/ CommitOpen(conn[r]),
         applied'[r] > 0 => Final(r)',
         \A q \in Requests \ {r} : at'[q] = at[q] /\ conn'[q] = conn[q] /\ err'[q] = err[q]
  PROVE  Transacted'
<1> USE DEF Transacted
<1> DEFINE c == conn[r]
<1>1. c \in Conns BY WorkingConn
<1>2. open'[c] = None /\ \A d \in Conns \ {c} : open'[d] = open[d] BY <1>1 DEF TypeOK
<1>3. r \notin unrolled BY DEF OpenOnce, Working
<1>4. \A d \in Conns \ {c} : open[d] # None => open[d] \in Requests \ {r}
  BY <1>1, <1>3 DEF TransactionsContained, TypeOK
<1>5. TransactionsContained' BY <1>2, <1>4 DEF TransactionsContained
<1>6. ASSUME NEW q \in Requests
      PROVE  /\ applied'[q] \in Nat /\ applied'[q] <= 1
             /\ applied'[q] # applied[q] => q = open[c] /\ (q = r \/ at[q] = "answered")
  <2>1. CASE applied' = applied BY <2>1 DEF AppliedAtMostOnce, TypeOK
  <2>2. CASE open[c] # None /\ applied' = [applied EXCEPT ![open[c]] = @ + 1]
    <3>1. open[c] \in Requests /\ (open[c] = r \/ at[open[c]] = "answered")
      BY <2>2, OpenOnItsConnection
    <3>2. applied[open[c]] = 0 BY <1>1, <2>2 DEF OpenOnce
    <3>3. CASE q = open[c]
      <4>1. applied'[q] = 1 BY <2>2, <3>2, <3>3 DEF TypeOK
      <4> QED BY <3>1, <3>3, <4>1
    <3>4. CASE q # open[c]
      <4>1. applied'[q] = applied[q] BY <2>2, <3>4 DEF TypeOK
      <4> QED BY <4>1 DEF AppliedAtMostOnce, TypeOK
    <3> QED BY <3>3, <3>4
  <2> QED BY <2>1, <2>2 DEF CommitOpen
<1>7. AppliedAtMostOnce' BY <1>6 DEF AppliedAtMostOnce
<1>8. ASSUME NEW q \in Requests \ {r}, applied'[q] > 0 PROVE Final(q)'
  <2>1. at'[q] = at[q] /\ err'[q] = err[q] OBVIOUS
  <2>2. CASE applied'[q] = applied[q] BY <1>8, <2>1, <2>2 DEF AppliedIsFinal, Final
  <2>3. CASE applied'[q] # applied[q]
    <3>1. at[q] = "answered" BY <1>6, <2>3
    <3> QED BY <2>1, <3>1 DEF Final
  <2> QED BY <2>2, <2>3
<1>9. AppliedIsFinal' BY <1>8 DEF AppliedIsFinal
<1>10. ASSUME NEW d \in Conns, open'[d] # None PROVE applied'[open'[d]] = 0
  <2>1. d # c /\ open'[d] = open[d] BY <1>2, <1>10
  <2>2. open[d] # open[c] /\ applied[open[d]] = 0 /\ open[d] \in Requests
    BY <1>1, <1>10, <2>1 DEF OpenOnce, TypeOK
  <2> QED BY <1>6, <2>1, <2>2
<1>11. OpenOnce'
  <2>1. \A q \in unrolled : at'[q] = "answered" BY <1>3 DEF OpenOnce, TypeOK
  <2>2. \A d, e \in Conns : open'[d] # None /\ open'[d] = open'[e] => d = e
    BY <1>2 DEF OpenOnce
  <2> QED BY <1>10, <2>1, <2>2 DEF OpenOnce, TypeOK
<1> QED BY <1>5, <1>7, <1>9, <1>11

(* What procedures do on the connection of a request that runs no          *)
(* transaction of its own.                                                 *)
LEMMA ProceduresOutside ==
  ASSUME TypeOK, ConnectionsExclusive, Transacted, NEW r \in Requests,
         at[r] \in {"query", "final"}, NEW lost \in BOOLEAN, Procedures(conn[r], lost),
         UNCHANGED unrolled,
         \A q \in Requests \ {r} : at'[q] = at[q] /\ conn'[q] = conn[q] /\ err'[q] = err[q]
  PROVE  Transacted'
<1>1. CASE UNCHANGED <<open, applied>> BY <1>1, NoneTouched
<1>2. CASE /\ open' = [open EXCEPT ![conn[r]] = None]
           /\ UNCHANGED applied \/ CommitOpen(conn[r])
  <2>1. conn[r] \in Conns /\ at[r] \in Working BY WorkingConn DEF Working
  <2>2. open[conn[r]] # r BY <2>1, NoneBegun DEF Transacted
  <2>3. applied[r] = 0 BY NotApplied DEF Transacted
  <2>4. applied'[r] = applied[r]
    <3>1. CASE UNCHANGED applied BY <3>1
    <3>2. CASE CommitOpen(conn[r]) BY <2>2, <3>2 DEF CommitOpen, TypeOK
    <3> QED BY <1>2, <3>1, <3>2
  <2>5. ~(applied'[r] > 0) BY <2>3, <2>4
  <2> QED BY <1>2, <2>1, <2>5, OneEnded
<1> QED BY <1>1, <1>2 DEF Procedures

(* BEGIN: what was left open is committed, and the new transaction is open *)
(* in its place, and nowhere else.                                         *)
LEMMA BeginTransacted ==
  ASSUME TypeOK, ConnectionsExclusive, Transacted, NEW r \in Requests, Begin(r)
  PROVE  Transacted'
<1> USE PoolAssumption DEF Transacted
<1> DEFINE c == conn[r]
<1>1. c \in Conns /\ at[r] \in Working /\ at[r] = "begin" BY WorkingConn DEF Begin, Working
<1>2. /\ open'[c] = r /\ \A d \in Conns \ {c} : open'[d] = open[d] /\ open[d] # r
      /\ at'[r] = "body" /\ \A q \in Requests \ {r} : at'[q] = at[q]
      /\ UNCHANGED <<conn, err, unrolled>>
  BY <1>1, NoneBegun DEF Begin, TypeOK
<1>3. open[c] # r /\ applied[r] = 0 /\ r \notin unrolled
  BY <1>1, NoneBegun, NotApplied DEF OpenOnce
<1>4. ASSUME NEW q \in Requests
      PROVE  \/ applied'[q] = applied[q]
             \/ q = open[c] /\ applied'[q] = 1 /\ at[q] = "answered"
  <2>1. CASE open[c] = None BY <2>1 DEF Begin, CommitOpen
  <2>2. CASE open[c] # None
    <3>1. open[c] \in Requests /\ at[open[c]] = "answered" /\ applied[open[c]] = 0
      BY <1>1, <1>3, <2>2, OpenOnItsConnection DEF OpenOnce
    <3>2. applied' = [applied EXCEPT ![open[c]] = @ + 1] BY <2>2 DEF Begin, CommitOpen
    <3> QED BY <3>1, <3>2 DEF TypeOK
  <2> QED BY <2>1, <2>2
<1>5. TransactionsContained'
  <2>1. \A d \in Conns \ {c} : open[d] # None => open[d] \in Requests \ {r} BY <1>2 DEF TypeOK
  <2> QED BY <1>2, <2>1 DEF TransactionsContained
<1>6. AppliedIsFinal' BY <1>2, <1>3, <1>4 DEF AppliedIsFinal, Final
<1>7. AppliedAtMostOnce'
  <2>1. \A q \in Requests : applied[q] <= 1 BY DEF AppliedAtMostOnce
  <2> QED BY <1>4, <2>1 DEF AppliedAtMostOnce
<1>8. ASSUME NEW d \in Conns, open'[d] # None PROVE applied'[open'[d]] = 0
  <2>1. CASE d = c BY <1>2, <1>3, <1>4, <2>1
  <2>2. CASE d # c
    <3>1. open[d] # open[c] /\ applied[open[d]] = 0 /\ open[d] \in Requests
      BY <1>1, <1>2, <1>8, <2>2 DEF OpenOnce, TypeOK
    <3> QED BY <1>2, <1>4, <2>2, <3>1
  <2> QED BY <2>1, <2>2
<1>9. \A d, e \in Conns : open'[d] # None /\ open'[d] = open'[e] => d = e
  BY <1>1, <1>2 DEF OpenOnce
<1>10. \A q \in unrolled : at'[q] = "answered" BY <1>2, <1>3 DEF OpenOnce, TypeOK
<1>11. OpenOnce' BY <1>2, <1>8, <1>9, <1>10 DEF OpenOnce, TypeOK
<1> QED BY <1>5, <1>6, <1>7, <1>11

(* A transaction that goes on, or is about to be rolled back.              *)
LEMMA StillOpen ==
  ASSUME TypeOK, Transacted, NEW r \in Requests,
         at[r] \in {"body", "commit"}, at'[r] \in {"body", "commit", "rollback"},
         UNCHANGED <<open, applied, conn, unrolled>>,
         \A q \in Requests \ {r} : at'[q] = at[q] /\ err'[q] = err[q]
  PROVE  Transacted'
<1> USE DEF Transacted
<1>1. applied[r] = 0 BY NotApplied
<1>2. TransactionsContained' BY DEF TransactionsContained, TypeOK
<1>3. OpenOnce'
  <2>1. \A q \in unrolled : q \in Requests \ {r} BY DEF OpenOnce, TypeOK
  <2> QED BY <2>1 DEF OpenOnce
<1>4. AppliedIsFinal' /\ AppliedAtMostOnce' BY <1>1 DEF AppliedIsFinal, AppliedAtMostOnce, Final
<1> QED BY <1>2, <1>3, <1>4

(* An error settles as an answer, unless it is a lock error.               *)
LEMMA SettleAnswers ==
  ASSUME NEW r \in Requests, NEW e, Settle(r, e), e # "lock"
  PROVE  Answer(r)
BY DEF Settle

(* A transaction stays with its request until that request ends it, or its *)
(* ROLLBACK fails.  A request whose effects were committed is answered, or *)
(* is being rolled back for a lost connection, which retryable does not try*)
(* again: it never comes back to where it could commit a second time.      *)
LEMMA TransactedStep ==
  ASSUME TypeOK, QueueMatches, ConnectionsExclusive, Transacted, [Next]_vars
  PROVE  Transacted'
<1> USE PoolAssumption
<1>1. CASE UNCHANGED vars
  BY <1>1 DEF vars, places, Transacted, TransactionsContained, OpenOnce, AppliedIsFinal,
              AppliedAtMostOnce, Final
<1>2. ASSUME NEW r \in Requests, AskPool(r) PROVE Transacted'
  <2>1. UNCHANGED <<open, applied, unrolled>> BY <1>2 DEF AskPool
  <2> QED BY <1>2, <2>1, AskPoolPlace, NoneTouched
<1>3. ASSUME NEW r \in Requests, NEW c \in Conns, Grant(r, c) PROVE Transacted'
  <2>1. at[r] = "queued" BY <1>3, HeadWaits DEF Grant
  <2> QED BY <1>3, <2>1, NoneTouched DEF Grant, TypeOK
<1>4. ASSUME NEW r \in Requests, ConnectFails(r) PROVE Transacted'
  <2>1. UNCHANGED <<open, applied, unrolled>> BY <1>4 DEF ConnectFails
  <2> QED BY <1>4, <2>1, ConnectFailsPlace, NoneTouched
<1>5. ASSUME NEW r \in Requests, SetupDone(r) PROVE Transacted'
  BY <1>5, NoneTouched DEF SetupDone, TypeOK
<1>6. ASSUME NEW r \in Requests, NEW lost \in BOOLEAN, SetupFails(r, lost) PROVE Transacted'
  BY <1>6, AnswerPlace, NoneTouched DEF SetupFails
<1>7. ASSUME NEW r \in Requests, NEW lost \in BOOLEAN,
             QueryDone(r, lost) \/ FinalDone(r, lost)
      PROVE  Transacted'
  BY <1>7, AnswerPlace, ProceduresOutside DEF QueryDone, FinalDone
<1>8. ASSUME NEW r \in Requests, NEW lost \in BOOLEAN, QueriesDone(r, lost) PROVE Transacted'
  BY <1>8, ProceduresOutside DEF QueriesDone, TypeOK
<1>9. ASSUME NEW r \in Requests, Body(r) PROVE Transacted'
  BY <1>9, StillOpen DEF Body, TypeOK
<1>10. ASSUME NEW r \in Requests, Commit(r) PROVE Transacted'
  <2>1. at[r] \in Working /\ Final(r)' BY <1>10, AnswerPlace DEF Commit, Working, Final
  <2> QED BY <1>10, <2>1, AnswerPlace, OneEnded DEF Commit
<1>11. ASSUME NEW r \in Requests, NEW e \in Errors, Fail(r, e) PROVE Transacted'
  <2>1. /\ at'[r] = "rollback" /\ err'[r] = e /\ at[r] \in {"begin", "body", "commit"}
        /\ UNCHANGED <<conn, unrolled>>
        /\ \A q \in Requests \ {r} : at'[q] = at[q] /\ err'[q] = err[q]
    BY <1>11 DEF Fail, TypeOK
  <2>2. CASE e = "lost"
    <3>1. at[r] \in Working /\ Final(r)' BY <2>1, <2>2 DEF Working, Final
    <3>2. open' = [open EXCEPT ![conn[r]] = None] /\ (applied' = applied \/ CommitOpen(conn[r]))
      BY <1>11, <2>2 DEF Fail
    <3> QED BY <2>1, <3>1, <3>2, OneEnded
  <2>3. CASE e # "lost"
    <3>1. UNCHANGED <<open, applied>> BY <1>11, <2>3 DEF Fail
    <3> QED BY <2>1, <3>1, NoneTouched, StillOpen
  <2> QED BY <2>2, <2>3
<1>12. ASSUME NEW r \in Requests, NEW lost \in BOOLEAN, Rollback(r, lost) PROVE Transacted'
  <2>1. at[r] \in Working /\ at[r] = "rollback" /\ applied' = applied
    BY <1>12 DEF Rollback, Working
  <2>2. ASSUME applied[r] > 0 PROVE Final(r)'
    <3>1. err[r] = "lost" BY <2>1, <2>2 DEF Transacted, AppliedIsFinal, Final
    <3>2. Answer(r) BY <1>12, <3>1, SettleAnswers DEF Rollback
    <3> QED BY <3>2, AnswerPlace DEF Final
  <2> QED BY <1>12, <2>1, <2>2, SettlePlace, OneEnded DEF Rollback
<1>13. ASSUME NEW r \in Requests, RollbackFails(r) PROVE Transacted'
  <2>1. at[r] = "rollback" /\ err[r] # "lost" /\ Answer(r)
    BY <1>13, SettleAnswers DEF RollbackFails
  <2>2. UNCHANGED <<open, applied>> /\ unrolled' = unrolled \cup {r} BY <1>13 DEF RollbackFails
  <2>3. /\ at'[r] = "answered"
        /\ \A q \in Requests \ {r} : at'[q] = at[q] /\ conn'[q] = conn[q] /\ err'[q] = err[q]
    BY <2>1, AnswerPlace
  <2>4. TransactionsContained'
    <3>1. \A c \in Conns : open[c] # None => open[c] \in Requests BY DEF TypeOK
    <3> QED BY <2>2, <2>3, <3>1 DEF Transacted, TransactionsContained
  <2>5. OpenOnce' BY <2>2, <2>3 DEF Transacted, OpenOnce, TypeOK
  <2>6. AppliedIsFinal' /\ AppliedAtMostOnce'
    BY <2>2, <2>3 DEF Transacted, AppliedIsFinal, AppliedAtMostOnce, Final
  <2> QED BY <2>4, <2>5, <2>6 DEF Transacted
<1> QED BY <1>1, <1>2, <1>3, <1>4, <1>5, <1>6, <1>7, <1>8, <1>9, <1>10, <1>11, <1>12, <1>13,
           BeginTransacted
        DEF Next, PoolStep, RequestStep

(* A connection becomes used as a request gets it, and the request keeps it*)
(* until it is given back, or abandoned before it was set up.              *)
LEMMA NoneLostStep ==
  ASSUME TypeOK, QueueMatches, ConnectionsExclusive, NoneLost, [Next]_vars
  PROVE  NoneLost'
<1> USE PoolAssumption DEF NoneLost, Abandoned
<1>1. CASE UNCHANGED vars BY <1>1 DEF vars, places
<1>2. ASSUME NEW r \in Requests, UNCHANGED <<conns, conn>>, at'[r] # "setup",
             initialized' \subseteq initialized \cup {conn[r]},
             initialized' # initialized => at[r] \in Working,
             \A q \in Requests \ {r} : at'[q] = at[q]
      PROVE  NoneLost'
  <2>1. ASSUME NEW q \in Requests, at'[q] = "setup" PROVE conn[q] \notin initialized'
    <3>1. q # r /\ at[q] = "setup" BY <1>2, <2>1
    <3>2. conn[q] # conn[r] \/ initialized' = initialized
      BY <1>2, <3>1 DEF ConnectionsExclusive, Working
    <3> QED BY <1>2, <3>1, <3>2
  <2>2. ASSUME NEW c \in Conns, conns[c] = "used", \A q \in Requests : conn[q] # c
        PROVE  c \notin initialized'
    BY <1>2, <2>2
  <2> QED BY <1>2, <2>1, <2>2
<1>3. ASSUME NEW r \in Requests, at[r] \in Working, NEW lost \in BOOLEAN,
             Release(conn[r], lost), conn' = [conn EXCEPT ![r] = None], at'[r] # "setup",
             \A q \in Requests \ {r} : at'[q] = at[q]
      PROVE  NoneLost'
  <2>1. conn[r] \in Conns /\ \A q \in Requests \ {r} : conn[q] # conn[r] /\ conn'[q] = conn[q]
    BY <1>3 DEF ConnectionsExclusive, TypeOK
  <2>2. /\ conns'[conn[r]] # "used" /\ \A c \in Conns \ {conn[r]} : conns'[c] = conns[c]
        /\ initialized' \subseteq initialized
    BY <1>3, <2>1 DEF Release, TypeOK
  <2>3. ASSUME NEW c \in Conns, conns'[c] = "used", \A q \in Requests : conn'[q] # c
        PROVE  c \notin initialized'
    <3>1. c # conn[r] /\ conns[c] = "used" BY <2>2, <2>3
    <3>2. \A q \in Requests : conn[q] # c BY <2>1, <2>3, <3>1
    <3> QED BY <2>2, <3>1, <3>2
  <2>4. ASSUME NEW q \in Requests, at'[q] = "setup" PROVE conn'[q] \notin initialized'
    BY <1>3, <2>1, <2>2, <2>4
  <2> QED BY <2>3, <2>4
<1>4. ASSUME NEW r \in Requests, AskPool(r) PROVE NoneLost'
  <2>1. UNCHANGED <<conns, initialized, conn>> /\ at'[r] # "setup"
        /\ \A q \in Requests \ {r} : at'[q] = at[q]
    BY <1>4, AskPoolPlace DEF AskPool
  <2> QED BY <1>2, <2>1
<1>5. ASSUME NEW r \in Requests, NEW c \in Conns, Grant(r, c) PROVE NoneLost'
  <2>1. at[r] = "queued" BY <1>5, HeadWaits DEF Grant
  <2>2. conn[r] = None BY <2>1 DEF ConnectionsExclusive, Working
  <2>3. /\ conn'[r] = c /\ \A q \in Requests \ {r} : conn'[q] = conn[q] /\ at'[q] = at[q]
        /\ \A d \in Conns \ {c} : conns'[d] = conns[d]
        /\ initialized' = initialized
        /\ at'[r] = "setup" => c \notin initialized
    BY <1>5 DEF Grant, FirstUse, TypeOK
  <2>4. ASSUME NEW d \in Conns, conns'[d] = "used", \A q \in Requests : conn'[q] # d
        PROVE  d \notin initialized'
    <3>1. d # c /\ conns[d] = "used" BY <2>3, <2>4
    <3>2. \A q \in Requests : conn[q] # d BY <2>2, <2>3, <2>4
    <3> QED BY <2>3, <3>1, <3>2
  <2>5. ASSUME NEW q \in Requests, at'[q] = "setup" PROVE conn'[q] \notin initialized'
    BY <2>3, <2>5
  <2> QED BY <2>4, <2>5
<1>6. ASSUME NEW r \in Requests, ConnectFails(r) PROVE NoneLost'
  <2>1. UNCHANGED <<conns, initialized>> BY <1>6 DEF ConnectFails
  <2> QED BY <1>2, <1>6, <2>1, ConnectFailsPlace
<1>7. ASSUME NEW r \in Requests, Keeps(r)
      PROVE  NoneLost'
  <2>1. at'[r] # "setup" /\ initialized' \subseteq initialized \cup {conn[r]}
        /\ (initialized' # initialized => at[r] \in Working)
    BY <1>7, KeepsPlace
  <2> QED BY <1>2, <1>7, <2>1, KeepsPlace
<1>8. ASSUME NEW r \in Requests, NEW lost \in BOOLEAN, SetupFails(r, lost) PROVE NoneLost'
  <2>1. /\ at[r] = "setup" /\ conn[r] \in Conns /\ conn[r] \notin initialized
        /\ initialized' = initialized
    BY <1>8 DEF SetupFails, ConnectionsExclusive, Working
  <2>2. /\ \A c \in Conns \ {conn[r]} : conns'[c] = conns[c]
        /\ at'[r] = "answered" /\ \A q \in Requests \ {r} : at'[q] = at[q] /\ conn'[q] = conn[q]
    BY <1>8, AnswerPlace DEF SetupFails, TypeOK
  <2>3. ASSUME NEW c \in Conns, conns'[c] = "used", \A q \in Requests : conn'[q] # c
        PROVE  c \notin initialized'
    <3>1. CASE c = conn[r] BY <2>1, <3>1
    <3>2. CASE c # conn[r]
      <4>1. conns[c] = "used" /\ \A q \in Requests : conn[q] # c BY <2>2, <2>3, <3>2
      <4> QED BY <2>1, <4>1
    <3> QED BY <3>1, <3>2
  <2>4. ASSUME NEW q \in Requests, at'[q] = "setup" PROVE conn'[q] \notin initialized'
    BY <2>1, <2>2, <2>4
  <2> QED BY <2>3, <2>4
<1>9. ASSUME NEW r \in Requests, Ends(r) PROVE NoneLost'
  <2>1. at'[r] # "setup" /\ at[r] \in Working BY <1>9, EndPlace
  <2>2. ASSUME NEW lost \in BOOLEAN, Release(conn[r], lost) PROVE NoneLost'
    BY <1>3, <1>9, <2>1, <2>2, EndPlace
  <2> QED BY <1>8, <1>9, <2>2, EndReleases
<1> QED BY <1>1, <1>4, <1>5, <1>6, <1>7, <1>9 DEF Next, PoolStep, RequestStep, Keeps, Ends

-----------------------------------------------------------------------------
(* The inductive invariant: the queue and the finality of applied requests *)
(* are what the properties below need to be preserved.                     *)
THEOREM InductiveInvariant == Spec => []IInv
<1>1. Init => IInv
  BY PoolAssumption
     DEF Init, IInv, TypeOK, ConnectionsExclusive, TransactionsContained, AppliedAtMostOnce,
         QueueMatches, OpenOnce, AppliedIsFinal, NoneLost, Abandoned, Places, Working
<1>2. IInv /\ [Next]_vars => IInv'
  BY TypeStep, QueueStep, ExclusiveStep, TransactedStep, NoneLostStep DEF IInv, Transacted
<1> QED BY <1>1, <1>2, PTL DEF Spec

(* The variables keep their types, whatever fails and however many requests*)
(* wait.                                                                   *)
THEOREM TypeCorrect == Spec => []TypeOK
BY InductiveInvariant, PTL DEF IInv

(* No two requests of lib/db/postgres.js ever use one connection at a time.*)
THEOREM ConnectionsAlwaysExclusive == Spec => []ConnectionsExclusive
BY InductiveInvariant, PTL DEF IInv

(* No request ever gets a connection on which another one left its         *)
(* transaction open.                                                       *)
THEOREM TransactionsAlwaysContained == Spec => []TransactionsContained
BY InductiveInvariant, PTL DEF IInv

(* So where no ROLLBACK fails on a connection that is still there, every   *)
(* open transaction is that of the request at work on its connection.      *)
THEOREM OnlyOnesOwnTransaction ==
  ASSUME "rollback" \notin Faults
  PROVE  Spec => [](\A c \in Conns : open[c] # None =>
                      conn[open[c]] = c /\ at[open[c]] \in {"body", "commit", "rollback"})
<1> DEFINE Own == \A c \in Conns : open[c] # None =>
                    conn[open[c]] = c /\ at[open[c]] \in {"body", "commit", "rollback"}
<1>1. Init => unrolled = {} BY DEF Init
<1>2. unrolled = {} /\ [Next]_vars => (unrolled = {})'
  BY DEF Next, PoolStep, RequestStep, AskPool, Grant, ConnectFails, SetupDone, SetupFails, QueryDone,
         QueriesDone, FinalDone, Begin, Body, Commit, Fail, Rollback, RollbackFails, vars
<1>3. IInv /\ unrolled = {} => Own BY DEF IInv, TransactionsContained
<1> QED BY <1>1, <1>2, <1>3, InductiveInvariant, PTL DEF Spec

(* retryable never commits the work of one call of transaction twice.      *)
THEOREM NeverAppliedTwice == Spec => []AppliedAtMostOnce
BY InductiveInvariant, PTL DEF IInv

(* For any number of requests and connections, and whatever fails: the     *)
(* waiting requests are never stuck, unless every connection of the pool   *)
(* has been abandoned by getConnection.                                    *)
THEOREM TheQueueIsServed == Spec => []QueueServed
<1>1. ASSUME IInv, NEW r \in Requests, at[r] = "queued",
             queue = << >> \/ Available = {}, \A q \in Requests : at[q] \notin Working
      PROVE  Abandoned = Conns
  <2>1. queue # << >>
    <3>1. PICK i \in 1 .. Len(queue) : queue[i] = r BY <1>1 DEF IInv, QueueMatches
    <3> QED BY <3>1
  <2>2. \A c \in Conns : conns[c] = "used" BY <1>1, <2>1 DEF Available
  <2>3. \A q \in Requests, c \in Conns : conn[q] # c
    BY <1>1, PoolAssumption DEF IInv, ConnectionsExclusive
  <2> QED BY <1>1, <2>2, <2>3 DEF IInv, NoneLost, Abandoned
<1>2. IInv => QueueServed BY <1>1 DEF QueueServed
<1> QED BY <1>2, InductiveInvariant, PTL

-----------------------------------------------------------------------------
(* A step that takes one request further and leaves the others alone.      *)
LEMMA OneGoesOn ==
  ASSUME NEW r \in Requests, Effort(r)' > Effort(r),
         \A q \in Requests \ {r} :
           at'[q] = at[q] /\ (q \in asked' <=> q \in asked) /\ (q \in retried' <=> q \in retried)
  PROVE  \E p \in Requests :
           Effort(p)' > Effort(p) /\ \A q \in Requests \ {p} : Effort(q)' = Effort(q)
<1>1. \A q \in Requests \ {r} : Effort(q)' = Effort(q) BY DEF Effort, Stage
<1> QED BY <1>1

(* A refusal either makes getConnection ask the pool a second time, or is  *)
(* the end of the request.                                                 *)
LEMMA RefusedGoesOn ==
  ASSUME TypeOK, NEW r \in Requests, NEW retry \in BOOLEAN, Refused(r, retry),
         (at[r] = "ask" /\ ~retry) \/ at[r] = "queued"
  PROVE  /\ Effort(r)' > Effort(r)
         /\ \A q \in Requests \ {r} :
              at'[q] = at[q] /\ (q \in asked' <=> q \in asked) /\ (q \in retried' <=> q \in retried)
<1> USE DEF TypeOK, Refused, Effort, Stage, Order
<1>1. CASE retry /\ r \notin asked
  <2>1. at'[r] = "ask" /\ r \in asked' /\ retried' = retried BY <1>1
  <2>2. at[r] = "queued" BY <1>1
  <2> QED BY <1>1, <2>1, <2>2
<1>2. CASE ~(retry /\ r \notin asked)
  <2>1. at'[r] = "hung" /\ retried' = retried /\ asked' = asked BY <1>2
  <2> QED BY <1>2, <2>1
<1> QED BY <1>1, <1>2

(* An answer is the end of a request.                                      *)
LEMMA AnswerGoesOn ==
  ASSUME TypeOK, NEW r \in Requests, Answer(r), at[r] \in Working
  PROVE  /\ Effort(r)' > Effort(r)
         /\ \A q \in Requests \ {r} :
              at'[q] = at[q] /\ (q \in asked' <=> q \in asked) /\ (q \in retried' <=> q \in retried)
<1>1. at'[r] = "answered" /\ asked' = asked /\ retried' = retried
      /\ \A q \in Requests \ {r} : at'[q] = at[q]
  BY DEF TypeOK, Answer
<1> QED BY <1>1 DEF Effort, Stage, Order, Working

(* The step of one request, one case per action.                           *)
LEMMA StepGoesOn ==
  ASSUME TypeOK, QueueMatches, Next
  PROVE  \E r \in Requests :
           Effort(r)' > Effort(r) /\ \A q \in Requests \ {r} : Effort(q)' = Effort(q)
<1> DEFINE Goal == \E r \in Requests :
             Effort(r)' > Effort(r) /\ \A q \in Requests \ {r} : Effort(q)' = Effort(q)
<1>1. ASSUME NEW r \in Requests, AskPool(r) PROVE Goal
  <2>1. CASE Available # {} \/ Len(queue) < QueueLimit
    <3>1. /\ at[r] = "ask" /\ at' = [at EXCEPT ![r] = "queued"] /\ UNCHANGED <<asked, retried>>
      BY <1>1, <2>1 DEF AskPool
    <3>2. at'[r] = "queued" /\ \A q \in Requests \ {r} : at'[q] = at[q] BY <3>1 DEF TypeOK
    <3>3. Effort(r)' > Effort(r) BY <3>1, <3>2 DEF Effort, Stage, Order
    <3> QED BY <3>1, <3>2, <3>3, OneGoesOn
  <2>2. CASE ~(Available # {} \/ Len(queue) < QueueLimit)
    <3>1. at[r] = "ask" /\ Refused(r, FALSE) BY <1>1, <2>2 DEF AskPool
    <3> QED BY <3>1, RefusedGoesOn, OneGoesOn
  <2> QED BY <2>1, <2>2
<1>2. ASSUME NEW r \in Requests, NEW c \in Conns, Grant(r, c) PROVE Goal
  <2>1. at[r] = "queued" BY <1>2, HeadWaits DEF Grant
  <2>2. /\ at'[r] \in {"setup", "query", "begin"} /\ UNCHANGED <<asked, retried>>
        /\ \A q \in Requests \ {r} : at'[q] = at[q]
    BY <1>2 DEF Grant, FirstUse, TypeOK
  <2>3. Effort(r)' > Effort(r) BY <2>1, <2>2 DEF Effort, Stage, Order
  <2> QED BY <2>2, <2>3, OneGoesOn
<1>3. ASSUME NEW r \in Requests, ConnectFails(r) PROVE Goal
  <2>1. at[r] = "queued" BY <1>3, HeadWaits DEF ConnectFails
  <2>2. PICK retry \in BOOLEAN : Refused(r, retry) BY <1>3 DEF ConnectFails
  <2> QED BY <2>1, <2>2, RefusedGoesOn, OneGoesOn
<1>4. ASSUME NEW r \in Requests, NEW lost \in BOOLEAN,
             SetupDone(r) \/ Begin(r) \/ Body(r) \/ QueriesDone(r, lost)
      PROVE  Goal
  <2>1. /\ UNCHANGED <<asked, retried>> /\ \A q \in Requests \ {r} : at'[q] = at[q]
        /\ \/ at[r] = "setup" /\ at'[r] \in {"query", "begin"}
           \/ at[r] = "begin" /\ at'[r] = "body"
           \/ at[r] = "body" /\ at'[r] = "commit"
           \/ at[r] = "query" /\ at'[r] = "final"
    BY <1>4 DEF SetupDone, FirstUse, Begin, Body, QueriesDone, TypeOK
  <2>2. Effort(r)' > Effort(r) BY <2>1 DEF Effort, Stage, Order
  <2> QED BY <2>1, <2>2, OneGoesOn
<1>5. ASSUME NEW r \in Requests, NEW e \in Errors, Fail(r, e) PROVE Goal
  <2>1. /\ UNCHANGED <<asked, retried>> /\ \A q \in Requests \ {r} : at'[q] = at[q]
        /\ at[r] \in {"begin", "body", "commit"} /\ at'[r] = "rollback"
    BY <1>5 DEF Fail, TypeOK
  <2>2. Effort(r)' > Effort(r) BY <2>1 DEF Effort, Stage, Order
  <2> QED BY <2>1, <2>2, OneGoesOn
<1>6. ASSUME NEW r \in Requests, NEW lost \in BOOLEAN,
             SetupFails(r, lost) \/ QueryDone(r, lost) \/ FinalDone(r, lost) \/ Commit(r)
      PROVE  Goal
  <2>1. Answer(r) /\ at[r] \in Working
    BY <1>6 DEF SetupFails, QueryDone, FinalDone, Commit, Working
  <2> QED BY <2>1, AnswerGoesOn, OneGoesOn
<1>7. ASSUME NEW r \in Requests, NEW lost \in BOOLEAN, Rollback(r, lost) PROVE Goal
  <2> DEFINE e == IF lost THEN "lost" ELSE err[r]
  <2>1. Settle(r, e) BY <1>7 DEF Rollback
  <2> HIDE DEF e
  <2>2. at[r] = "rollback" BY <1>7 DEF Rollback
  <2>3. CASE e = "lock" /\ r \notin retried
    <3>1. /\ at'[r] = "ask" /\ r \in retried' /\ \A q \in Requests \ {r} : at'[q] = at[q]
          /\ \A q \in Requests \ {r} :
               (q \in asked' <=> q \in asked) /\ (q \in retried' <=> q \in retried)
      BY <2>1, <2>3 DEF Settle, TypeOK
    <3>2. Effort(r)' > Effort(r) BY <2>2, <2>3, <3>1 DEF Effort, Stage, Order
    <3> QED BY <3>1, <3>2, OneGoesOn
  <2>4. CASE ~(e = "lock" /\ r \notin retried)
    <3>1. Answer(r) /\ at[r] \in Working BY <2>1, <2>2, <2>4 DEF Settle, Working
    <3> QED BY <3>1, AnswerGoesOn, OneGoesOn
  <2> QED BY <2>3, <2>4
<1>8. ASSUME NEW r \in Requests, RollbackFails(r) PROVE Goal
  <2>1. Answer(r) /\ at[r] \in Working BY <1>8, SettleAnswers DEF RollbackFails, Working
  <2> QED BY <2>1, AnswerGoesOn, OneGoesOn
<1> QED BY <1>1, <1>2, <1>3, <1>4, <1>5, <1>6, <1>7, <1>8 DEF Next, PoolStep, RequestStep

(* No request is tried again for ever: each step takes one request further *)
(* among its twenty places, for any number of requests and whatever fails. *)
THEOREM RetryingEnds == Spec => EveryStepProgresses
<1>1. IInv /\ [Next]_vars =>
        [\E r \in Requests :
           Effort(r)' > Effort(r) /\ \A q \in Requests \ {r} : Effort(q)' = Effort(q)]_vars
  BY StepGoesOn DEF IInv
<1> QED BY <1>1, InductiveInvariant, PTL DEF Spec, EveryStepProgresses
=============================================================================
