--------------------------- MODULE ConnectionPool ---------------------------
(***************************************************************************)
(* How lib/db/postgres.js gets, prepares, uses and gives back connections  *)
(* of one pool: getConnection, singleQuery, multipleQueries, transaction   *)
(* and retryable, and the pool they draw from.  The pool is a library,     *)
(* modelled from how it is called and configured here (connectionLimit,    *)
(* waitForConnections, queueLimit): it opens connections on demand and     *)
(* serves waiting requests in their order.                                 *)
(***************************************************************************)
EXTENDS Naturals, Sequences, FiniteSets

CONSTANTS
  Requests,      \* calls of read, write, readMultiple and transaction
  Transactions,  \* the requests that are calls of transaction
  Conns,         \* connections the pool may open: connectionLimit of them
  QueueLimit,    \* requests that may wait for a connection
  Faults,        \* what may go wrong
  None           \* no connection

ASSUME PoolAssumption ==
  /\ Transactions \subseteq Requests
  /\ QueueLimit \in Nat
  /\ Faults \subseteq {"connect", "setup", "lock", "other", "lost", "rollback"}
  /\ None \notin Conns \cup Requests

VARIABLES
  conns,        \* [Conns -> "closed", "free" or "used"]
  initialized,  \* connections with _fxa_initialized
  open,         \* [Conns -> the request whose transaction is open there, or None]
  queue,        \* requests waiting for a connection
  at,           \* [Requests -> Places]: where the request is
  conn,         \* [Requests -> the connection it works with, or None]
  asked,        \* requests whose getConnection asks the pool a second time
  retried,      \* requests whose transaction runs a second time
  err,          \* [Requests -> the error its transaction is rolled back for]
  applied,      \* [Requests -> how often its effects were committed] (history)
  unrolled      \* requests whose ROLLBACK failed (history)

places == <<at, conn, asked, retried, err>>
vars == <<conns, initialized, open, queue, places, applied, unrolled>>

(* "hung" is a promise that nothing settles.                               *)
Places == {"ask", "queued", "setup", "query", "final", "begin", "body", "commit",
           "rollback", "answered", "hung"}
Errors == {"lock", "other", "lost"}

TypeOK ==
  /\ conns \in [Conns -> {"closed", "free", "used"}]
  /\ initialized \subseteq Conns
  /\ open \in [Conns -> Requests \cup {None}]
  /\ queue \in Seq(Requests)
  /\ at \in [Requests -> Places]
  /\ conn \in [Requests -> Conns \cup {None}]
  /\ asked \subseteq Requests
  /\ retried \subseteq Requests
  /\ err \in [Requests -> Errors \cup {"none"}]
  /\ applied \in [Requests -> Nat]
  /\ unrolled \subseteq Requests

Init ==
  /\ conns = [c \in Conns |-> "closed"]
  /\ initialized = {}
  /\ open = [c \in Conns |-> None]
  /\ queue = << >>
  /\ at = [r \in Requests |-> "ask"]
  /\ conn = [r \in Requests |-> None]
  /\ asked = {}
  /\ retried = {}
  /\ err = [r \in Requests |-> "none"]
  /\ applied = [r \in Requests |-> 0]
  /\ unrolled = {}

-----------------------------------------------------------------------------
(* getConnection.                                                          *)

Available == {c \in Conns : conns[c] # "used"}

(* The first thing a request does with its connection.                     *)
FirstUse(r) == IF r \in Transactions THEN "begin" ELSE "query"

(* The pool's answer to getClusterConnection when it is an error.  A       *)
(* connection error is retried once; then, and for any other error, the    *)
(* promise of retryable rejects, and getConnection forwards no rejection.  *)
Refused(r, retry) ==
  /\ IF retry /\ r \notin asked
     THEN at' = [at EXCEPT ![r] = "ask"] /\ asked' = asked \cup {r}
     ELSE at' = [at EXCEPT ![r] = "hung"] /\ UNCHANGED asked
  /\ UNCHANGED <<conn, retried, err>>

(* The pool takes the request into its queue, or refuses it when no        *)
(* connection is available and the queue is full.                          *)
AskPool(r) ==
  /\ at[r] = "ask"
  /\ IF Available # {} \/ Len(queue) < QueueLimit
     THEN /\ queue' = Append(queue, r)
          /\ at' = [at EXCEPT ![r] = "queued"]
          /\ UNCHANGED <<conn, asked, retried, err>>
     ELSE Refused(r, FALSE) /\ UNCHANGED queue
  /\ UNCHANGED <<conns, initialized, open, applied, unrolled>>

(* The first request in the queue gets a connection.  One that has served  *)
(* before skips the setup queries.                                         *)
Grant(r, c) ==
  /\ queue # << >> /\ Head(queue) = r
  /\ c \in Available
  /\ queue' = Tail(queue)
  /\ conns' = [conns EXCEPT ![c] = "used"]
  /\ conn' = [conn EXCEPT ![r] = c]
  /\ at' = [at EXCEPT ![r] = IF c \in initialized THEN FirstUse(r) ELSE "setup"]
  /\ UNCHANGED <<initialized, open, asked, retried, err, applied, unrolled>>

(* Opening a connection fails.                                             *)
ConnectFails(r) ==
  /\ "connect" \in Faults
  /\ queue # << >> /\ Head(queue) = r
  /\ \E c \in Conns : conns[c] = "closed"
  /\ queue' = Tail(queue)
  /\ \E retry \in BOOLEAN : Refused(r, retry)
  /\ UNCHANGED <<conns, initialized, open, applied, unrolled>>

(* The three queries that set up a new connection have succeeded.          *)
SetupDone(r) ==
  /\ at[r] = "setup"
  /\ initialized' = initialized \cup {conn[r]}
  /\ at' = [at EXCEPT ![r] = FirstUse(r)]
  /\ UNCHANGED <<conns, open, queue, conn, asked, retried, err, applied, unrolled>>

(* The request is answered, with a result or an error.                     *)
Answer(r) ==
  /\ at' = [at EXCEPT ![r] = "answered"]
  /\ conn' = [conn EXCEPT ![r] = None]
  /\ err' = [err EXCEPT ![r] = "none"]
  /\ UNCHANGED <<asked, retried>>

(* One of them fails: getConnection rejects without releasing the          *)
(* connection.  Only one that was lost goes back to the pool, by itself.   *)
SetupFails(r, lost) ==
  /\ "setup" \in Faults
  /\ at[r] = "setup"
  /\ conns' = [conns EXCEPT ![conn[r]] = IF lost THEN "closed" ELSE "used"]
  /\ Answer(r)
  /\ UNCHANGED <<initialized, open, queue, applied, unrolled>>

-----------------------------------------------------------------------------
(* connection.release(): a lost connection is not reused.                  *)
Release(c, lost) ==
  /\ conns' = [conns EXCEPT ![c] = IF lost THEN "closed" ELSE "free"]
  /\ initialized' = IF lost THEN initialized \ {c} ELSE initialized

(* The transaction that is open on a connection, if any, is committed: by  *)
(* COMMIT, or by a BEGIN that follows it.                                  *)
CommitOpen(c) ==
  applied' = IF open[c] = None THEN applied ELSE [applied EXCEPT ![open[c]] = @ + 1]

(* What the procedures of a request do to a transaction that another one   *)
(* left open on its connection: nothing, or they commit it (with START     *)
(* TRANSACTION) or roll it back (in an exit handler).  A lost connection   *)
(* has none.                                                               *)
Procedures(c, lost) ==
  \/ ~lost /\ UNCHANGED <<open, applied>>
  \/ /\ open' = [open EXCEPT ![c] = None]
     /\ UNCHANGED applied \/ CommitOpen(c)

(* Faulty: a failed query does not release its connection.                 *)
QueryDone_Kept(r, lost) ==
  /\ at[r] = "query"
  /\ lost => "lost" \in Faults
  /\ Procedures(conn[r], lost)
  /\ Release(conn[r], lost) \/ UNCHANGED <<conns, initialized>>
  /\ Answer(r)
  /\ UNCHANGED <<queue, unrolled>>

(* singleQuery: released and answered, whatever the result.                *)
QueryDone(r, lost) ==
  /\ at[r] = "query"
  /\ lost => "lost" \in Faults
  /\ Procedures(conn[r], lost)
  /\ Release(conn[r], lost)
  /\ Answer(r)
  /\ UNCHANGED <<queue, unrolled>>

(* multipleQueries, where a request is one of readMultiple: the queries    *)
(* were sent one after another, until one of them failed ...               *)
QueriesDone(r, lost) ==
  /\ at[r] = "query"
  /\ lost => "lost" \in Faults
  /\ Procedures(conn[r], lost)
  /\ at' = [at EXCEPT ![r] = "final"]
  /\ err' = [err EXCEPT ![r] = IF lost THEN "lost" ELSE "none"]
  /\ UNCHANGED <<conns, initialized, queue, conn, asked, retried, unrolled>>

(* ... and the final query, where there is one, is sent in any case, and   *)
(* the connection released after it in any case.                           *)
FinalDone(r, lost) ==
  /\ at[r] = "final"
  /\ err[r] = "lost" => lost
  /\ lost => "lost" \in Faults
  /\ Procedures(conn[r], lost)
  /\ Release(conn[r], lost)
  /\ Answer(r)
  /\ UNCHANGED <<queue, unrolled>>

(* transaction: BEGIN succeeds ...                                         *)
Begin(r) ==
  /\ at[r] = "begin"
  /\ CommitOpen(conn[r])
  /\ open' = [open EXCEPT ![conn[r]] = r]
  /\ at' = [at EXCEPT ![r] = "body"]
  /\ UNCHANGED <<conns, initialized, queue, conn, asked, retried, err, unrolled>>

(* ... the statements of fn succeed ...                                    *)
Body(r) ==
  /\ at[r] = "body"
  /\ at' = [at EXCEPT ![r] = "commit"]
  /\ UNCHANGED <<conns, initialized, open, queue, conn, asked, retried, err, applied, unrolled>>

(* ... and so does COMMIT: release and answer.                             *)
Commit(r) ==
  /\ at[r] = "commit"
  /\ CommitOpen(conn[r])
  /\ open' = [open EXCEPT ![conn[r]] = None]
  /\ Release(conn[r], FALSE)
  /\ Answer(r)
  /\ UNCHANGED <<queue, unrolled>>

(* Faulty: the connection is released before the ROLLBACK is sent on it.   *)
Fail_ReleaseFirst(r, e) ==
  /\ e \in Faults
  /\ at[r] \in {"begin", "body", "commit"}
  /\ at' = [at EXCEPT ![r] = "rollback"]
  /\ err' = [err EXCEPT ![r] = e]
  /\ Release(conn[r], e = "lost")
  /\ UNCHANGED <<open, queue, conn, asked, retried, applied, unrolled>>

(* BEGIN, a statement of fn or COMMIT fails with error e.  The database    *)
(* drops the transaction of a lost connection, unless the answer to COMMIT,*)
(* or to a BEGIN that commits what it finds, was what got lost.            *)
Fail(r, e) ==
  /\ e \in Faults
  /\ at[r] \in {"begin", "body", "commit"}
  /\ at' = [at EXCEPT ![r] = "rollback"]
  /\ err' = [err EXCEPT ![r] = e]
  /\ open' = IF e = "lost" THEN [open EXCEPT ![conn[r]] = None] ELSE open
  /\ \/ UNCHANGED applied
     \/ e = "lost" /\ at[r] \in {"begin", "commit"} /\ CommitOpen(conn[r])
  /\ UNCHANGED <<conns, initialized, queue, conn, asked, retried, unrolled>>

(* Faulty: any error is tried again.                                       *)
Settle_AnyError(r, e) ==
  IF r \notin retried
  THEN /\ at' = [at EXCEPT ![r] = "ask"]
       /\ conn' = [conn EXCEPT ![r] = None]
       /\ err' = [err EXCEPT ![r] = "none"]
       /\ asked' = asked \ {r}
       /\ retried' = retried \cup {r}
  ELSE Answer(r)

(* What retryable makes of the error of a transaction: the whole of it once*)
(* more after a lock error (LOCK_ERRNOS), an answer otherwise.             *)
Settle(r, e) ==
  IF e = "lock" /\ r \notin retried
  THEN /\ at' = [at EXCEPT ![r] = "ask"]
       /\ conn' = [conn EXCEPT ![r] = None]
       /\ err' = [err EXCEPT ![r] = "none"]
       /\ asked' = asked \ {r}
       /\ retried' = retried \cup {r}
  ELSE Answer(r)

(* Faulty: the connection goes back to the pool without a ROLLBACK.        *)
Rollback_Skipped(r, lost) ==
  /\ at[r] = "rollback"
  /\ lost <=> err[r] = "lost"
  /\ Release(conn[r], lost)
  /\ Settle(r, err[r])
  /\ UNCHANGED <<open, queue, applied, unrolled>>

(* ROLLBACK, release, and then retryable.  On a lost connection ROLLBACK   *)
(* fails too, and its error takes the place of the first one.              *)
Rollback(r, lost) ==
  /\ at[r] = "rollback"
  /\ err[r] = "lost" => lost
  /\ lost => "lost" \in Faults
  /\ open' = [open EXCEPT ![conn[r]] = None]
  /\ Release(conn[r], lost)
  /\ Settle(r, IF lost THEN "lost" ELSE err[r])
  /\ UNCHANGED <<queue, applied, unrolled>>

(* ROLLBACK fails on a connection that is not lost: its error is the one   *)
(* that counts, and the connection is released with whatever transaction is*)
(* open on it.                                                             *)
RollbackFails(r) ==
  /\ "rollback" \in Faults
  /\ at[r] = "rollback" /\ err[r] # "lost"
  /\ Release(conn[r], FALSE)
  /\ Settle(r, "other")
  /\ unrolled' = unrolled \cup {r}
  /\ UNCHANGED <<open, queue, applied>>

-----------------------------------------------------------------------------
PoolStep == \E r \in Requests : ConnectFails(r) \/ \E c \in Conns : Grant(r, c)

RequestStep(r) ==
  \/ AskPool(r)
  \/ SetupDone(r) \/ Begin(r) \/ Body(r) \/ Commit(r) \/ RollbackFails(r)
  \/ \E lost \in BOOLEAN :
       \/ SetupFails(r, lost) \/ Rollback(r, lost)
       \/ QueryDone(r, lost) \/ QueriesDone(r, lost) \/ FinalDone(r, lost)
  \/ \E e \in Errors : Fail(r, e)

Next == PoolStep \/ \E r \in Requests : RequestStep(r)

Spec == Init /\ [][Next]_vars

(* A query that was sent is answered, a promise that was settled runs its  *)
(* callbacks, and the pool serves its queue.                               *)
FairSpec == Spec /\ WF_vars(PoolStep) /\ \A r \in Requests : WF_vars(RequestStep(r))

-----------------------------------------------------------------------------
Working == {"setup", "query", "final", "begin", "body", "commit", "rollback"}

(* A request that works with a connection has it for itself, and one that  *)
(* does not holds none.                                                    *)
ConnectionsExclusive ==
  /\ \A r \in Requests :
       IF at[r] \in Working THEN conn[r] \in Conns /\ conns[conn[r]] = "used"
                            ELSE conn[r] = None
  /\ \A q, r \in Requests : q # r /\ conn[q] # None => conn[q] # conn[r]

(* No statement of one request runs inside the transaction of another: a   *)
(* transaction is open only on the connection of the request it belongs to,*)
(* while that request is at work with it.  The code does not prevent one   *)
(* thing: nobody looks at a connection whose ROLLBACK failed.              *)
TransactionsContained ==
  \A c \in Conns : open[c] # None =>
    \/ conn[open[c]] = c /\ at[open[c]] \in {"body", "commit", "rollback"}
    \/ open[c] \in unrolled

(* Retrying never applies a transaction twice: what is tried again is never*)
(* an error after which the first try may have been committed, or may yet  *)
(* be.                                                                     *)
AppliedAtMostOnce == \A r \in Requests : applied[r] <= 1

(* Connections that were abandoned while they were being set up.           *)
Abandoned ==
  {c \in Conns : conns[c] = "used" /\ c \notin initialized /\ \A r \in Requests : conn[r] # c}

(* Nobody waits in vain: while a request waits, the pool can serve it, some *)
(* request works and will give its connection back, or every connection was*)
(* abandoned by getConnection.  So no path through singleQuery and         *)
(* transaction loses a connection, none is forgotten by the pool, and      *)
(* requests never wait for each other.                                     *)
QueueServed ==
  (\E r \in Requests : at[r] = "queued") =>
    \/ queue # << >> /\ Available # {}
    \/ \E r \in Requests : at[r] \in Working
    \/ Abandoned = Conns

(* How far a request has got: in its first try or its second, and in that. *)
Order ==
  [ask |-> 0, queued |-> 1, setup |-> 4, query |-> 5, final |-> 6, begin |-> 5, body |-> 6, commit |-> 7,
   rollback |-> 8, answered |-> 9, hung |-> 9]

Stage(r) == Order[at[r]] + (IF at[r] \in {"ask", "queued"} /\ r \in asked THEN 2 ELSE 0)

Effort(r) == Stage(r) + (IF r \in retried THEN 10 ELSE 0)

(* Retrying comes to an end: whatever fails, each step of the system takes *)
(* one request further and none back, and there are twenty places to be.   *)
(* So the requests can only come to rest, and QueueServed says where.      *)
EveryStepProgresses ==
  [][\E r \in Requests :
       Effort(r)' > Effort(r) /\ \A q \in Requests \ {r} : Effort(q)' = Effort(q)]_vars

(* The queue holds every request that waits, and each once.                *)
QueueMatches ==
  /\ \A i \in 1 .. Len(queue) : at[queue[i]] = "queued"
  /\ \A i, j \in 1 .. Len(queue) : queue[i] = queue[j] => i = j
  /\ \A r \in Requests : at[r] = "queued" => \E i \in 1 .. Len(queue) : queue[i] = r

(* A connection that is in use is some request's, or was abandoned.  One   *)
(* that is being set up has not served before.                             *)
NoneLost ==
  /\ \A c \in Conns : conns[c] = "used" => c \in Abandoned \/ \E r \in Requests : conn[r] = c
  /\ \A r \in Requests : at[r] = "setup" => conn[r] \notin initialized

(* A transaction is open on one connection, and has not been applied.  One *)
(* that was left open is of a request that was answered.                   *)
OpenOnce ==
  /\ \A c \in Conns : open[c] # None => applied[open[c]] = 0
  /\ \A c, d \in Conns : open[c] # None /\ open[c] = open[d] => c = d
  /\ \A r \in unrolled : at[r] = "answered"

(* A request that is not retried: it is answered, or a connection was lost.*)
Final(r) == at[r] = "answered" \/ (at[r] = "rollback" /\ err[r] = "lost")

(* What was applied is answered, or its answer was lost: it is not retried.*)
AppliedIsFinal == \A r \in Requests : applied[r] > 0 => Final(r)

IInv ==
  /\ TypeOK /\ ConnectionsExclusive /\ TransactionsContained
  /\ AppliedAtMostOnce /\ QueueMatches /\ OpenOnce /\ AppliedIsFinal
  /\ NoneLost

(* Whatever fails while queries and transactions run, every request is     *)
(* answered, but for the two flaws of getConnection: it settles nothing    *)
(* when the pool refuses, and a pool that consists of abandoned connections*)
(* serves nobody.                                                          *)
AnsweredUnlessPoolBroken ==
  \A r \in Requests : <>(at[r] \in {"answered", "hung"} \/ Abandoned = Conns)
=============================================================================
