---------------------------- MODULE HttpRequests ----------------------------
(***************************************************************************)
(* The life of HTTP requests in a worker (src/http.c, src/connection.c):   *)
(* received on a connection, put on the run list, run by http_process, put *)
(* to sleep while a background task or a runlock is awaited, woken, flagged *)
(* for deletion and freed.  The event loop is single-threaded and goes     *)
(* through the phases events, http_process (the cursor visits the run      *)
(* list), timeouts and removal of connections.  Task threads run beside it. *)
(*                                                                         *)
(* Page handlers are the application's.  A handler here may wait for the   *)
(* runlock, start one task and wait for it, ask to be called again, answer *)
(* or fail; it takes the lock before it starts the task, returns           *)
(* KORE_RESULT_RETRY when it went to sleep and gives the runlock back when *)
(* it ends, in on_free when it is cut short.  An on_headers hook answers   *)
(* before it refuses.                                                      *)
(***************************************************************************)
EXTENDS Integers, Sequences, FiniteSets, Functions

CONSTANTS
    Conns,      \* elements of connection_pool
    Requests,   \* elements of http_request_pool: http_request_limit of them
    None

ASSUME HttpAssumption ==
    /\ IsFiniteSet(Conns) /\ IsFiniteSet(Requests) /\ Cardinality(Requests) \in Nat
    /\ None \notin Conns /\ None \notin Requests

VARIABLES
    conn,       \* the connections
    live,       \* the requests handed out by the pool
    run,        \* the list http_requests
    sleeping,   \* the list http_requests_sleeping
    complete,   \* the requests with HTTP_REQUEST_COMPLETE
    deleted,    \* the requests with HTTP_REQUEST_DELETE
    bare,       \* the requests with method DELETE and no content-length
    owner,      \* req->owner
    task,       \* the task bound to each request
    lock,       \* owner of the runlock
    waiters,    \* lock->queue
    pc,         \* the phase of the event loop
    cursor,     \* the request http_process looks at next
    spent       \* 1 when total may have reached http_request_ms in this pass

listVars == <<run, sleeping>>
flagVars == <<live, complete, deleted, bare, owner>>
lockVars == <<lock, waiters>>
loopVars == <<pc, cursor, spent>>
vars == <<conn, listVars, flagVars, task, lockVars, loopVars>>

\* A connection: its state; what it receives (rnb->cb), or "taken" when there is
\* no buffer to receive in; whether http_timeout is set; its send queue, empty
\* or not, and then to "close" once sent (CONN_CLOSE_EMPTY); rnb->extra, the
\* request whose body is received.
Connection == [state : {"free", "open", "disconnecting"},
               recv : {"header", "body", "taken"},
               timer : {0, 1},
               send : {"empty", "unsent", "close"},
               extra : Requests \cup {None}]

\* The rest does not matter in a connection that is not open.
NotOpen(s) == [state |-> s, recv |-> "taken", timer |-> 0, send |-> "empty",
               extra |-> None]

\* kore_connection_new, kore_connection_accept; http_start_recv.
Fresh == [state |-> "open", recv |-> "header", timer |-> 1, send |-> "empty",
          extra |-> None]

Open(c) == conn[c].state = "open"

Init ==
    /\ conn = [c \in Conns |-> NotOpen("free")]
    /\ run = << >> /\ sleeping = {}
    /\ live = {} /\ complete = {} /\ deleted = {} /\ bare = {}
    /\ owner = [r \in Requests |-> None]
    /\ task = [r \in Requests |-> "none"]
    /\ lock = None /\ waiters = << >>
    /\ pc = "events" /\ cursor = None /\ spent = 0
-----------------------------------------------------------------------------
(***************************************************************************)
(* Helpers.                                                                *)
(***************************************************************************)
\* TAILQ_REMOVE.
Without(s, r) ==
    IF \E i \in DOMAIN s : s[i] = r
    THEN LET k == CHOOSE i \in DOMAIN s : s[i] = r
         IN  SubSeq(s, 1, k - 1) \o SubSeq(s, k + 1, Len(s))
    ELSE s

First(s) == IF s = << >> THEN None ELSE Head(s)

\* TAILQ_NEXT.
After(s, r) ==
    LET k == CHOOSE i \in DOMAIN s : s[i] = r IN First(SubSeq(s, k + 1, Len(s)))

Sleep(r) ==
    /\ run' = Without(run, r)
    /\ sleeping' = sleeping \cup {r}

\* Wrong variant: the flag is not looked at.
WakeupAlways(r) ==
    /\ run' = Append(run, r)
    /\ sleeping' = sleeping \ {r}

Wakeup(r) ==
    /\ run' = IF r \in sleeping THEN Append(run, r) ELSE run
    /\ sleeping' = sleeping \ {r}

\* kore_connection_disconnect.
Gone == NotOpen("disconnecting")

\* net_send_flush of connection k after something was queued: all of it is
\* written, and a connection that is to close is disconnected; or some of it
\* stays; or the write fails and the caller disconnects.
Flushed(k, close) ==
    {IF close THEN Gone ELSE [k EXCEPT !.send = "empty"],
     [k EXCEPT !.send = IF close THEN "close" ELSE "unsent"],
     Gone}

\* http_error_response.
ErrorResponse(k) == Flushed(k, TRUE)

\* http_response_normal and the flush after it.  A connection that is kept
\* alive receives the next request.
Responded(k) ==
    Flushed(k, TRUE)
        \cup (IF k.send = "close" THEN {}
              ELSE Flushed([k EXCEPT !.recv = "header", !.timer = 1], FALSE))

Becomes(c, k) == conn' = [conn EXCEPT ![c] = k]
-----------------------------------------------------------------------------
(***************************************************************************)
(* Events of connections.                                                  *)
(***************************************************************************)
Event == pc = "events" /\ UNCHANGED loopVars

\* Wrong variant: the timeout is stored in seconds.
AcceptSeconds(c) ==
    /\ Event /\ conn[c].state = "free"
    /\ Becomes(c, [Fresh EXCEPT !.timer = 10])
    /\ UNCHANGED <<listVars, flagVars, task, lockVars>>

Accept(c) ==
    /\ Event /\ conn[c].state = "free"
    /\ Becomes(c, Fresh)
    /\ UNCHANGED <<listVars, flagVars, task, lockVars>>

\* The peer is gone, or a read fails.
PeerGone(c) ==
    /\ Event /\ Open(c)
    /\ Becomes(c, Gone)
    /\ UNCHANGED <<listVars, flagVars, task, lockVars>>

Writable(c) ==
    /\ Event /\ Open(c) /\ conn[c].send # "empty"
    /\ \E k \in Flushed(conn[c], conn[c].send = "close") : Becomes(c, k)
    /\ UNCHANGED <<listVars, flagVars, task, lockVars>>

HeaderExpected(c) == Event /\ Open(c) /\ conn[c].recv = "header"

\* Headers that make no request: malformed, too long, for an unknown domain
\* or route, beyond http_request_limit (http_header_recv, http_request_new).
HeaderRejected(c) ==
    /\ HeaderExpected(c)
    /\ \E k \in ErrorResponse(conn[c]) : Becomes(c, k)
    /\ UNCHANGED <<listVars, flagVars, task, lockVars>>

\* http_check_redirect answers, and the request is freed at once.
HeaderRedirected(c) ==
    /\ HeaderExpected(c) /\ live # Requests
    /\ \E k \in Responded(conn[c]) : Becomes(c, k)
    /\ UNCHANGED <<listVars, flagVars, task, lockVars>>

\* http_request_new: the request goes to the head of the run list.
NewRequest(c, r) ==
    /\ HeaderExpected(c) /\ r \notin live
    /\ live' = live \cup {r}
    /\ run' = <<r>> \o run
    /\ owner' = [owner EXCEPT ![r] = c]
    /\ UNCHANGED <<sleeping, task, lockVars>>

\* Wrong variant: the buffer is not taken over, the next headers are read.
TakenNever(c) == conn[c]

Taken(c) == [conn[c] EXCEPT !.recv = "taken"]

\* All of a request is there.  A DELETE without content-length returns before
\* the timeout is cleared.
HeaderComplete(c, r) ==
    /\ NewRequest(c, r)
    /\ complete' = complete \cup {r}
    /\ \/ Becomes(c, [Taken(c) EXCEPT !.timer = 0]) /\ UNCHANGED bare
       \/ Becomes(c, Taken(c)) /\ bare' = bare \cup {r}
    /\ UNCHANGED deleted

\* Some of the body is still to come.
AwaitBody(c, r) == [conn[c] EXCEPT !.recv = "body", !.timer = 1, !.extra = r]

HeaderBody(c, r) ==
    /\ NewRequest(c, r)
    /\ Becomes(c, AwaitBody(c, r))
    /\ UNCHANGED <<complete, deleted, bare>>

\* A bad header, no length, too long a body, or a body that cannot be stored.
HeaderFailed(c, r) ==
    /\ NewRequest(c, r)
    /\ deleted' = deleted \cup {r}
    /\ \E k \in ErrorResponse(Taken(c)) : Becomes(c, k)
    /\ UNCHANGED <<complete, bare>>

\* The on_headers hook answers and refuses the request.  When the connection is
\* to close, the rest of the body is still waited for.
HeaderRefused(c, r) ==
    /\ NewRequest(c, r)
    /\ deleted' = deleted \cup {r}
    /\ \E h \in {[Taken(c) EXCEPT !.timer = 0], AwaitBody(c, r)} :
          \E k \in Responded(h) : Becomes(c, k)
    /\ UNCHANGED <<complete, bare>>

\* Bytes for a request that was freed in the meantime are not modelled.
BodyExpected(c) ==
    /\ Event /\ Open(c) /\ conn[c].recv = "body"
    /\ conn[c].extra \in live /\ owner[conn[c].extra] = c

\* http_body_update: the last bytes.
BodyLast(c) ==
    /\ BodyExpected(c)
    /\ complete' = complete \cup {conn[c].extra}
    /\ Becomes(c, [Taken(c) EXCEPT !.timer = 0, !.extra = None])
    /\ Wakeup(conn[c].extra)
    /\ UNCHANGED <<live, deleted, bare, owner, task, lockVars>>

\* http_body_update fails: an answer is tried, the connection is dropped.
BodyFailed(c) ==
    /\ BodyExpected(c)
    /\ deleted' = deleted \cup {conn[c].extra}
    /\ Becomes(c, Gone)
    /\ UNCHANGED <<listVars, live, complete, bare, owner, task, lockVars>>

Header(c) ==
    \/ HeaderRejected(c) \/ HeaderRedirected(c)
    \/ \E r \in Requests : \/ HeaderComplete(c, r) \/ HeaderBody(c, r)
                           \/ HeaderFailed(c, r) \/ HeaderRefused(c, r)

ConnEvent(c) ==
    Accept(c) \/ PeerGone(c) \/ Writable(c) \/ Header(c) \/ BodyLast(c) \/ BodyFailed(c)
-----------------------------------------------------------------------------
(***************************************************************************)
(* Tasks bound to a request.                                               *)
(***************************************************************************)

\* The thread ends the task, at any time.
TaskEnds(r) ==
    /\ task[r] = "running"
    /\ task' = [task EXCEPT ![r] = "closed"]
    /\ UNCHANGED <<conn, listVars, flagVars, lockVars, loopVars>>

\* kore_task_handle: the task wrote on its channel.
TaskData(r) ==
    /\ Event /\ task[r] = "running"
    /\ Wakeup(r)
    /\ UNCHANGED <<conn, flagVars, task, lockVars>>

TaskFinished(r) ==
    /\ Event /\ task[r] = "closed"
    /\ Wakeup(r)
    /\ task' = [task EXCEPT ![r] = IF r \in deleted THEN "destroyed" ELSE "finished"]
    /\ UNCHANGED <<conn, flagVars, lockVars>>
-----------------------------------------------------------------------------
(***************************************************************************)
(* http_process.                                                           *)
(***************************************************************************)
StartProcess ==
    /\ pc = "events"
    /\ pc' = "process" /\ cursor' = First(run)
    /\ UNCHANGED <<spent, conn, listVars, flagVars, task, lockVars>>

\* http_request_ms is used up, or the end of the list is reached.
EndProcess ==
    /\ pc = "process" /\ (cursor = None \/ spent = 1)
    /\ pc' = "prune" /\ cursor' = None /\ spent' = 0
    /\ UNCHANGED <<conn, listVars, flagVars, task, lockVars>>

\* The loop goes to the successor req had before it was looked at.
Visit(r) ==
    /\ pc = "process" /\ cursor = r /\ r \in Range(run)
    /\ cursor' = After(run, r)
    /\ UNCHANGED pc

NotComplete(r) ==
    /\ Visit(r) /\ UNCHANGED spent /\ r \notin deleted /\ r \notin complete
    /\ UNCHANGED <<conn, listVars, flagVars, task, lockVars>>

\* http_runlock_release when r owns the lock: the first waiter is woken.  The
\* lists are the ones the caller leaves.
Released(r) ==
    IF lock = r THEN [lock |-> None, woken |-> First(waiters),
                      waiters |-> IF waiters = << >> THEN << >> ELSE Tail(waiters)]
                ELSE [lock |-> lock, woken |-> None, waiters |-> waiters]

\* The task bound to a request that has to be awaited before it is freed.
Pending(r) == task[r] \in {"running", "closed"}

\* http_request_free of a request that is on the run list and whose tasks may
\* be pending: the on_free hook gives the lock back and the request leaves the
\* queue of the lock; then, without a pending task, it goes back to the pool.
\* Wrong variant: a request is freed although its task runs.
FreeImpatient(r) ==
    LET rel == Released(r)
        list == IF rel.woken \in sleeping THEN Append(run, rel.woken) ELSE run
    IN  /\ lock' = rel.lock
        /\ waiters' = Without(rel.waiters, r)
        /\ sleeping' = sleeping \ {rel.woken}
        /\ run' = Without(list, r)
        /\ live' = live \ {r} /\ complete' = complete \ {r}
        /\ deleted' = deleted \ {r} /\ bare' = bare \ {r}
        /\ owner' = [owner EXCEPT ![r] = None]
        /\ UNCHANGED task

Free(r) ==
    LET rel == Released(r)
        list == IF rel.woken \in sleeping THEN Append(run, rel.woken) ELSE run
    IN  /\ lock' = rel.lock
        /\ waiters' = Without(rel.waiters, r)
        /\ sleeping' = sleeping \ {rel.woken}
        /\ IF Pending(r)
             THEN /\ run' = list
                  /\ deleted' = deleted \cup {r}
                  /\ UNCHANGED <<live, complete, bare, owner, task>>
             ELSE /\ run' = Without(list, r)
                  /\ live' = live \ {r} /\ complete' = complete \ {r}
                  /\ deleted' = deleted \ {r} /\ bare' = bare \ {r}
                  /\ owner' = [owner EXCEPT ![r] = None]
                  /\ task' = [task EXCEPT ![r] = "none"]

FreeDeleted(r) ==
    /\ Visit(r) /\ UNCHANGED spent /\ r \in deleted
    /\ Free(r)
    /\ UNCHANGED conn

\* http_process_request calls the page handler.
Handler(r) == Visit(r) /\ spent' = 1 /\ r \in complete \ deleted

\* The handler asks to be called again.
HandlerRetry(r) ==
    /\ Handler(r)
    /\ UNCHANGED <<conn, listVars, flagVars, task, lockVars>>

\* http_runlock_acquire.
HandlerAcquire(r) ==
    /\ Handler(r) /\ lock # r /\ ~Pending(r)
    /\ IF lock = None
         THEN lock' = r /\ UNCHANGED <<waiters, listVars>>
         ELSE waiters' = <<r>> \o waiters /\ Sleep(r) /\ UNCHANGED lock
    /\ UNCHANGED <<conn, flagVars, task>>

\* kore_task_bind_request and kore_task_run.
HandlerTask(r) ==
    /\ Handler(r) /\ task[r] = "none"
    /\ task' = [task EXCEPT ![r] = "running"]
    /\ Sleep(r)
    /\ UNCHANGED <<conn, flagVars, lockVars>>

\* Called again, the handler finds that the task goes on.
HandlerAwaits(r) ==
    /\ Handler(r) /\ Pending(r)
    /\ Sleep(r)
    /\ UNCHANGED <<conn, flagVars, task, lockVars>>

\* The handler answers or fails, and the request is flagged and freed, as far
\* as its task allows.
HandlerDone(r) ==
    /\ Handler(r)
    /\ LET c == owner[r]
       IN  \E k \in (IF Open(c) THEN Responded(conn[c]) \cup {Gone} ELSE {conn[c]}) :
              Becomes(c, k)
    /\ Free(r)

Process ==
    \/ StartProcess \/ EndProcess
    \/ \E r \in Requests :
        \/ NotComplete(r) \/ FreeDeleted(r)
        \/ HandlerRetry(r) \/ HandlerAcquire(r) \/ HandlerTask(r)
        \/ HandlerAwaits(r) \/ HandlerDone(r)
-----------------------------------------------------------------------------
(***************************************************************************)
(* kore_connection_check_timeout and kore_connection_prune.                *)
(***************************************************************************)
OwnedBy(c) == {r \in live : owner[r] = c}

\* A connection that may be dropped now: the time to receive is over, or it is
\* idle; never while there is something to send.
MayTimeout(c) ==
    Open(c) /\ conn[c].send = "empty" /\ (conn[c].timer = 1 \/ OwnedBy(c) = {})

\* The lists that hold each of the requests once.
Orders(requests) ==
    {s \in UNION {[1 .. n -> requests] : n \in 0 .. Cardinality(Requests)} :
        IsInjective(s) /\ Range(s) = requests}

\* kore_connection_remove of the owner of the requests in orphans.
\* Wrong variant: a request that sleeps is left asleep.
OrphanQuiet(orphans) ==
    /\ owner' = [r \in Requests |-> IF r \in orphans THEN None ELSE owner[r]]
    /\ deleted' = deleted \cup orphans
    /\ UNCHANGED listVars

Orphan(orphans) ==
    /\ owner' = [r \in Requests |-> IF r \in orphans THEN None ELSE owner[r]]
    /\ deleted' = deleted \cup orphans
    /\ sleeping' = sleeping \ orphans
    /\ \E woken \in Orders(sleeping \cap orphans) : run' = run \o woken

Prune ==
    /\ pc = "prune"
    /\ pc' = "events" /\ UNCHANGED <<cursor, spent>>
    /\ \E late \in SUBSET {c \in Conns : MayTimeout(c)} :
          LET gone == late \cup {c \in Conns : conn[c].state = "disconnecting"}
          IN  /\ conn' = [c \in Conns |-> IF c \in gone THEN NotOpen("free")
                                                    ELSE conn[c]]
              /\ Orphan(UNION {OwnedBy(c) : c \in gone})
    /\ UNCHANGED <<live, complete, bare, task, lockVars>>

TaskThread == \E r \in Requests : TaskEnds(r)

TaskEvents == \E r \in Requests : TaskData(r) \/ TaskFinished(r)

Next == (\E c \in Conns : ConnEvent(c)) \/ TaskThread \/ TaskEvents \/ Process \/ Prune

Spec == Init /\ [][Next]_vars
-----------------------------------------------------------------------------
\* The type invariant.
TypeOK ==
    /\ conn \in [Conns -> Connection]
    /\ run \in Seq(Requests) /\ sleeping \subseteq Requests
    /\ live \subseteq Requests /\ complete \subseteq Requests
    /\ deleted \subseteq Requests /\ bare \subseteq Requests
    /\ owner \in [Requests -> Conns \cup {None}]
    /\ task \in [Requests -> {"none", "running", "closed", "finished", "destroyed"}]
    /\ lock \in Requests \cup {None} /\ waiters \in Seq(Requests)
    /\ pc \in {"events", "process", "prune"}
    /\ cursor \in Requests \cup {None} /\ spent \in {0, 1}

\* Every request is on the run list once or asleep, never both, whoever wakes
\* it (a task, the lock, the end of its connection); a freed one is on neither.
ListsSound ==
    /\ IsInjective(run)
    /\ Range(run) \cap sleeping = {}
    /\ Range(run) \cup sleeping = live

\* Nothing refers to a request that was freed: no task, no runlock, neither as
\* owner nor as waiter, not the loop of http_process, and no receive buffer of
\* a connection that goes on.  And a request that may still be run has a
\* connection to answer on, one that is not given back to the pool
\* (http_process_request flushes req->owner).
NoDangling ==
    /\ \A r \in Requests \ live : task[r] = "none" /\ lock # r /\ cursor # r
    /\ Range(waiters) \subseteq live
    /\ \A c \in Conns : Open(c) /\ conn[c].recv = "body" /\ conn[c].send # "close" =>
          conn[c].extra \in live /\ owner[conn[c].extra] = c
    /\ \A r \in live :
          /\ r \notin deleted => owner[r] # None
          /\ owner[r] # None => conn[owner[r]].state # "free"

\* A request sleeps only when somebody is left to wake it: its task, whose end
\* has yet to be seen, or the runlock, in whose queue it is.  One that is
\* flagged, say because its connection is gone, never sleeps: http_process
\* meets and frees it.  And who is called is in no queue, so
\* http_runlock_acquire never stops the worker.
SleepersAwaited ==
    /\ \A r \in sleeping : Pending(r) \/ r \in Range(waiters)
    /\ sleeping \cap deleted = {}
    /\ Range(waiters) \subseteq sleeping \cup deleted

\* A connection has at most one request that is not answered, so answers leave
\* in the order of the requests although requests sleep and wake in any order;
\* and the time limits for receiving headers and body do not run on once all of
\* a request is there, except for a DELETE without content-length.
OneUnanswered ==
    /\ \A r, s \in live \ deleted : owner[r] = owner[s] => r = s
    /\ \A r \in complete \ (deleted \cup bare) : conn[owner[r]].timer = 0
=============================================================================
