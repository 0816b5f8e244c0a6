------------------------------- MODULE Pgsql --------------------------------
(***************************************************************************)
(* The PostgreSQL client (src/pgsql.c) as requests use it: a limited       *)
(* number of connections, a queue of requests that sleep until one is      *)
(* free, asynchronous queries whose results arrive as events, failed       *)
(* transactions, lost connections, clients that go away.  The handler is   *)
(* the state machine that examples/pgsql/src/pgsql.c shows.                *)
(***************************************************************************)
EXTENDS Integers, Sequences, FiniteSets, Functions

CONSTANTS
    Queries,      \* requests, each with a struct kore_pgsql of its own
    Conns,        \* connections that can be made: pgsql_conn_max
    QueueLimit,   \* pgsql_queue_limit
    MaxLost,      \* bound: connections lost
    MaxGone,      \* bound: clients that go away
    MaxFails      \* bound: connects and queries that fail, rollbacks included

Nobody == "none"     \* pgsql->conn is NULL

ASSUME PgsqlBounds ==
    QueueLimit \in Nat /\ MaxLost \in Nat /\ MaxGone \in Nat /\ MaxFails \in Nat /\ Nobody \notin Conns

VARIABLES
    conn,      \* each connection: "none", "free", "used"
    tx,        \* its transaction: "idle" or "inerror" (PQTRANS_INERROR)
    free,      \* pgsql_conn_free
    queue,     \* pgsql_wait_queue
    sql,       \* each query: its state and its connection
    req,       \* each request: "new", "awake", "asleep", "deleted", "over"
    lost, gone, fails    \* history: faults so far

pgsqlVars == <<conn, tx, free, queue, sql, req, lost, gone, fails>>

PgsqlTypeOK ==
    /\ conn \in [Conns -> {"none", "free", "used"}] /\ tx \in [Conns -> {"idle", "inerror"}]
    /\ free \in Seq(Conns) /\ queue \in Seq(Queries)
    /\ sql \in [Queries -> [state : {"INIT", "WAIT", "RESULT", "DONE", "ERROR", "COMPLETE"},
                            conn : Conns \cup {Nobody}]]
    /\ req \in [Queries -> {"new", "awake", "asleep", "deleted", "over"}]
    /\ lost \in 0 .. MaxLost /\ gone \in 0 .. MaxGone /\ fails \in 0 .. MaxFails

PgsqlInit ==
    /\ conn = [c \in Conns |-> "none"] /\ tx = [c \in Conns |-> "idle"]
    /\ free = << >> /\ queue = << >>
    /\ sql = [q \in Queries |-> [state |-> "INIT", conn |-> Nobody]]
    /\ req = [q \in Queries |-> "new"]
    /\ lost = 0 /\ gone = 0 /\ fails = 0

\* pgsql_queue_remove.
Without(s, x) ==
    LET i == CHOOSE i \in DOMAIN s : s[i] = x
    IN  IF \E j \in DOMAIN s : s[j] = x THEN SubSeq(s, 1, i - 1) \o SubSeq(s, i + 1, Len(s)) ELSE s
conn_count == Cardinality({c \in Conns : conn[c] # "none"})
Alive(q) == req[q] \in {"awake", "asleep"}
-----------------------------------------------------------------------------
\* pgsql_queue_wakeup, given the queue and what the requests are doing: the
\* first waiter whose request is not being deleted leaves the queue and wakes.
Waiters(w, r) == {i \in DOMAIN w : r[w[i]] # "deleted"}
\* Wrong variant: nobody is woken.
NoWakeup(w, r) == /\ queue' = w /\ req' = r

pgsql_queue_wakeup(w, r) ==
    \/ Waiters(w, r) = {} /\ queue' = << >> /\ req' = r
    \/ \E i \in Waiters(w, r) :
          /\ \A j \in Waiters(w, r) : i <= j
          /\ queue' = SubSeq(w, i + 1, Len(w)) /\ req' = [r EXCEPT ![w[i]] = "awake"]

\* pgsql_conn_release: the connection is free again, its results are drained,
\* a query that is not done is cancelled.
pgsql_conn_release(q, w, r, t) ==
    LET c == sql[q].conn
    IN  /\ conn' = [conn EXCEPT ![c] = "free"] /\ free' = Append(free, c)
        /\ tx' = [tx EXCEPT ![c] = t]
        /\ sql' = [sql EXCEPT ![q] = [state |-> "COMPLETE", conn |-> Nobody]]
        /\ pgsql_queue_wakeup(w, r)

\* kore_pgsql_cleanup for a request that becomes r.
kore_pgsql_cleanup(q, r) ==
    \/ /\ sql[q].conn # Nobody
       /\ \E t \in {"idle", "inerror"} :
             pgsql_conn_release(q, Without(queue, q), [req EXCEPT ![q] = r], t)
    \/ /\ sql[q].conn = Nobody
       /\ queue' = Without(queue, q) /\ req' = [req EXCEPT ![q] = r]
       /\ UNCHANGED <<conn, tx, free, sql>>

Fail == fails < MaxFails /\ fails' = fails + 1
-----------------------------------------------------------------------------
\* The handler of a request, which has just arrived or has been woken.
Starts(q) == req[q] \in {"new", "awake"} /\ sql[q].state = "INIT"
Usable == free # << >> /\ tx[Head(free)] = "idle"

\* kore_pgsql_setup gets connection c, kore_pgsql_query is sent: the request
\* sleeps until there are results.
Sends(q, c) ==
    /\ conn' = [conn EXCEPT ![c] = "used"] /\ tx' = [tx EXCEPT ![c] = "idle"]
    /\ sql' = [sql EXCEPT ![q] = [state |-> "WAIT", conn |-> c]]
    /\ req' = [req EXCEPT ![q] = "asleep"]

SetupFree(q) ==
    /\ Starts(q) /\ Usable
    /\ Sends(q, Head(free)) /\ free' = Tail(free)
    /\ UNCHANGED <<queue, lost, gone, fails>>

\* pgsql_conn_create.
SetupNew(q) ==
    /\ Starts(q) /\ free = << >>
    /\ \E c \in Conns : conn[c] = "none" /\ Sends(q, c)
    /\ UNCHANGED <<free, queue, lost, gone, fails>>

\* The database cannot be reached, or the queue is full: request_error.
SetupFails(q) ==
    /\ Starts(q) /\ free = << >>
    /\ \/ conn_count < Cardinality(Conns) /\ Fail
       \/ conn_count = Cardinality(Conns) /\ Len(queue) >= QueueLimit /\ UNCHANGED fails
    /\ req' = [req EXCEPT ![q] = "over"]
    /\ sql' = [sql EXCEPT ![q].state = "ERROR"]
    /\ UNCHANGED <<conn, tx, free, queue, lost, gone>>

\* pgsql_queue_add.
SetupWaits(q) ==
    /\ Starts(q) /\ free = << >>
    /\ conn_count = Cardinality(Conns) /\ Len(queue) < QueueLimit
    /\ queue' = Append(queue, q)
    /\ req' = [req EXCEPT ![q] = "asleep"]
    /\ UNCHANGED <<conn, tx, free, sql, lost, gone, fails>>

\* pgsql_conn_next rolls back the transaction that was left on the connection:
\* its release wakes a waiter, then the look-up begins again.
Rollback(q) ==
    LET c == Head(free)
    IN  /\ Starts(q) /\ free # << >> /\ tx[c] = "inerror"
        /\ \/ /\ tx' = [tx EXCEPT ![c] = "idle"]
              /\ free' = Append(Tail(free), c)
              /\ UNCHANGED <<conn, fails>>
           \/ /\ Fail
              /\ conn' = [conn EXCEPT ![c] = "none"] /\ free' = Tail(free)
              /\ tx' = [tx EXCEPT ![c] = "idle"]
        /\ pgsql_queue_wakeup(queue, [req EXCEPT ![q] = "awake"])
        /\ UNCHANGED <<sql, lost, gone>>

\* PQsendQuery fails: the handler goes on to request_error.
SendFails(q) ==
    /\ Starts(q) /\ Fail
    /\ \/ /\ Usable /\ free' = Append(Tail(free), Head(free)) /\ UNCHANGED conn
       \/ /\ free = << >>
          /\ \E c \in Conns : /\ conn[c] = "none" /\ conn' = [conn EXCEPT ![c] = "free"]
                             /\ free' = <<c>>
    /\ sql' = [sql EXCEPT ![q].state = "ERROR"]
    /\ pgsql_queue_wakeup(queue, [req EXCEPT ![q] = "over"])
    /\ UNCHANGED <<tx, lost, gone>>

\* The handler of a woken request looks at what has come: RESULT is read and
\* kore_pgsql_continue looks for more; DONE and ERROR end in a cleanup.
Continues(q) ==
    /\ req[q] = "awake" /\ sql[q].state = "RESULT"
    /\ \E s \in {"WAIT", "RESULT", "DONE", "ERROR"} :
          /\ sql' = [sql EXCEPT ![q].state = s]
          /\ req' = [req EXCEPT ![q] = IF s = "WAIT" THEN "asleep" ELSE "awake"]
    /\ UNCHANGED <<conn, tx, free, queue, lost, gone, fails>>

Finishes(q) ==
    /\ req[q] = "awake" /\ sql[q].state \in {"DONE", "ERROR"}
    /\ kore_pgsql_cleanup(q, "over")
    /\ UNCHANGED <<lost, gone, fails>>
-----------------------------------------------------------------------------
\* kore_pgsql_handle with pgsql_read_result: the socket is readable.
kore_pgsql_handle(q) ==
    /\ sql[q].state = "WAIT"
    /\ \E s \in {"RESULT", "DONE", "ERROR"} : sql' = [sql EXCEPT ![q].state = s]
    /\ req' = [req EXCEPT ![q] = IF @ = "asleep" THEN "awake" ELSE @]
    /\ UNCHANGED <<conn, tx, free, queue, lost, gone, fails>>

\* kore_pgsql_handle with an error: pgsql_conn_cleanup.
\* Wrong variant: the query keeps the connection.
CleanupKeeps(q) ==
    /\ sql[q].conn # Nobody /\ sql[q].state = "WAIT" /\ lost < MaxLost /\ lost' = lost + 1
    /\ conn' = [conn EXCEPT ![sql[q].conn] = "none"]
    /\ sql' = [sql EXCEPT ![q].state = "ERROR"]
    /\ req' = [req EXCEPT ![q] = IF @ = "asleep" THEN "awake" ELSE @]
    /\ UNCHANGED <<tx, free, queue, gone, fails>>

pgsql_conn_cleanup(q) ==
    /\ sql[q].conn # Nobody /\ sql[q].state = "WAIT" /\ lost < MaxLost /\ lost' = lost + 1
    /\ conn' = [conn EXCEPT ![sql[q].conn] = "none"]
    /\ sql' = [sql EXCEPT ![q] = [state |-> "ERROR", conn |-> Nobody]]
    /\ req' = [req EXCEPT ![q] = IF @ = "asleep" THEN "awake" ELSE @]
    /\ UNCHANGED <<tx, free, queue, gone, fails>>

\* The client closes its connection: kore_connection_remove marks the request.
ClientGone(q) ==
    /\ Alive(q) /\ gone < MaxGone /\ gone' = gone + 1
    /\ req' = [req EXCEPT ![q] = "deleted"]
    /\ UNCHANGED <<conn, tx, free, queue, sql, lost, fails>>

\* http_request_free.
Reap(q) ==
    /\ req[q] = "deleted"
    /\ kore_pgsql_cleanup(q, "over")
    /\ UNCHANGED <<lost, gone, fails>>

Handler(q) ==
    \/ SetupFree(q) \/ SetupNew(q) \/ SetupFails(q) \/ SetupWaits(q) \/ Rollback(q)
    \/ SendFails(q) \/ Continues(q) \/ Finishes(q)

PgsqlNext == \E q \in Queries :
    Handler(q) \/ kore_pgsql_handle(q) \/ pgsql_conn_cleanup(q) \/ ClientGone(q) \/ Reap(q)

PgsqlSpec == PgsqlInit /\ [][PgsqlNext]_pgsqlVars

\* Woken requests run, deleted ones are freed, the database answers,
\* and its answers end.
PgsqlFairSpec ==
    /\ PgsqlSpec
    /\ \A q \in Queries : /\ WF_pgsqlVars(req[q] = "awake" /\ Handler(q)) /\ WF_pgsqlVars(Reap(q))
                          /\ WF_pgsqlVars(kore_pgsql_handle(q)) /\ WF_pgsqlVars(Finishes(q))
                          /\ SF_pgsqlVars(Continues(q) /\ sql'[q].state = "DONE")
-----------------------------------------------------------------------------
\* A connection is free, once in the list, or used by exactly one query that
\* is not over; a query with a connection is being served by it.
ConnSound ==
    /\ IsInjective(free)
    /\ \A c \in Conns :
         LET users == {q \in Queries : sql[q].conn = c}
         IN  /\ (conn[c] = "free") <=> (\E i \in DOMAIN free : free[i] = c)
             /\ users # {} <=> conn[c] = "used"
             /\ \A q \in users : req[q] # "over" /\ users = {q}

\* The queue holds each waiter once; a waiter sleeps, without a connection,
\* or is being deleted, and is never a request that is over.
QueueSound ==
    /\ IsInjective(queue) /\ Len(queue) <= QueueLimit
    /\ \A i \in DOMAIN queue :
         /\ req[queue[i]] \in {"asleep", "deleted"}
         /\ sql[queue[i]] = [state |-> "INIT", conn |-> Nobody]

Queued(q) == \E i \in DOMAIN queue : queue[i] = q

\* A request that waits for a connection gets out of the queue.
WaiterProceeds == \A q \in Queries : Queued(q) ~> ~ Queued(q)
=============================================================================
