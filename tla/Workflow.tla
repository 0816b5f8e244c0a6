------------------------------ MODULE Workflow ------------------------------
(***************************************************************************)
(* The workflow engine (src/workflow.c): a job queue kept in one SQLite    *)
(* table.  One background thread of the Kore parent process takes jobs     *)
(* from the table and runs their handlers; the HTTP routes of brocolli.c   *)
(* enqueue, cancel and purge jobs from the forked worker processes.        *)
(*                                                                         *)
(* The worker processes have copies of s_db_mutex and of the SQLite        *)
(* connection, so the mutex orders nothing between them and the thread:    *)
(* the atomic unit is one SQL statement.  A write statement can also come  *)
(* back with SQLITE_BUSY, because several processes write the same file    *)
(* and no busy timeout is set; the code does not look at that result.      *)
(*                                                                         *)
(* Times are kept relative to the clock: due is run_at - now and age is    *)
(* now - created_at, both saturated.                                       *)
(***************************************************************************)
EXTENDS Integers, FiniteSets

CONSTANTS
    Jobs,         \* job identifiers: the UUIDs wf_gen_uuid will hand out
    Types,        \* job type strings
    Registered,   \* the types kore_parent_configure registers a handler for
    API,          \* Kore worker processes serving the HTTP routes
    Delays,       \* values of delay_sec passed to workflow_enqueue
    PurgeAges,    \* values of max_age_seconds passed to workflow_purge_done
    MaxRetries,   \* WORKFLOW_MAX_RETRIES
    BackoffBase,  \* WORKFLOW_BACKOFF_BASE
    MaxHandlers,  \* MAX_HANDLERS
    MaxLate,      \* bound: how far past run_at a job's lateness is counted
    MaxAge,       \* bound: how far a job's age is counted
    MaxBusy,      \* bound: number of statements that fail with SQLITE_BUSY
    MaxShutdowns, \* bound: number of orderly shutdowns of the service
    MaxCrashes    \* bound: number of crashes of the service

ASSUME WorkflowAssumption ==
    /\ Jobs # {}
    /\ Registered \subseteq Types
    /\ Delays \subseteq Int /\ PurgeAges \subseteq Int
    /\ MaxRetries \in Nat \ {0} /\ BackoffBase \in Nat \ {0}
    /\ MaxHandlers \in Nat /\ MaxLate \in Nat /\ MaxAge \in Nat
    /\ MaxBusy \in Nat /\ MaxShutdowns \in Nat /\ MaxCrashes \in Nat
    /\ "thread" \notin API

VARIABLES
    jobs,         \* the jobs table: one row per identifier
    phase,        \* the parent: "down", "configure", "serving", "teardown"
    toRegister,   \* workflow_register calls kore_parent_configure has left
    handlers,     \* s_handlers: the types with a handler
    stop,         \* s_stop
    wpc,          \* where the worker thread is in worker_pick_one
    cur,          \* job_id, as read by the SELECT
    retryCount,   \* retry_count, as read by the SELECT
    handlerRc,    \* handler_rc: 0 for success, -1 for failure
    changed,      \* the connections on which sqlite3_changes() is positive
    attempts,     \* history: how often the thread reached the handler call
    cancelled,    \* history: jobs whose workflow_cancel_job returned 0
    busy,         \* statements that failed with SQLITE_BUSY so far
    shutdowns,    \* orderly shutdowns so far
    crashes       \* crashes so far

threadVars == <<wpc, cur, retryCount, handlerRc>>
procVars == <<phase, toRegister, handlers, stop>>
ends == <<shutdowns, crashes>>
vars == <<jobs, procVars, threadVars, changed, attempts, cancelled, busy,
          ends>>

Conns == API \cup {"thread"}
Terminal == {"done", "failed"}
Stored == {"pending", "running"} \cup Terminal
Running == {"handler", "outcome"}
InFlight == {"claim"} \cup Running

Row == [status : Stored \cup {"none", "purged"}, type : Types,
        retry : Nat, due : Int, age : Nat]

TypeOK ==
    /\ jobs \in [Jobs -> Row]
    /\ phase \in {"down", "configure", "serving", "teardown"}
    /\ toRegister \subseteq Registered /\ handlers \subseteq Registered
    /\ stop \in {0, 1} /\ handlerRc \in {0, -1}
    /\ wpc \in {"off", "top", "claim", "exited"} \cup Running
    /\ cur \in Jobs /\ retryCount \in Nat
    /\ changed \subseteq Conns
    /\ attempts \in [Jobs -> Nat] /\ cancelled \subseteq Jobs
    /\ busy \in 0 .. MaxBusy /\ shutdowns \in 0 .. MaxShutdowns
    /\ crashes \in 0 .. MaxCrashes

Init ==
    /\ jobs \in [Jobs -> {[status |-> "none", type |-> t, retry |-> 0,
                            due |-> 0, age |-> 0] : t \in Types}]
    /\ phase = "down" /\ toRegister = {} /\ handlers = {} /\ stop = 0
    /\ wpc = "off" /\ cur = (CHOOSE j \in Jobs : TRUE)
    /\ retryCount = 0 /\ handlerRc = -1
    /\ changed = {}
    /\ attempts = [j \in Jobs |-> 0] /\ cancelled = {}
    /\ busy = 0 /\ shutdowns = 0 /\ crashes = 0
-----------------------------------------------------------------------------
(***************************************************************************)
(* SQLite, as workflow.c uses it.  A write statement replaces the rows it  *)
(* matches and records whether there were any; or it is refused with       *)
(* SQLITE_BUSY, and then sqlite3_changes() still answers for an earlier    *)
(* statement until sqlite3_finalize, which may reset it.                   *)
(***************************************************************************)
SqlDone(c, match, new) ==
    /\ jobs' = [j \in Jobs |-> IF j \in match THEN new[j] ELSE jobs[j]]
    /\ changed' = IF match = {} THEN changed \ {c} ELSE changed \cup {c}
    /\ UNCHANGED busy

SqlBusy(c) ==
    /\ busy < MaxBusy
    /\ busy' = busy + 1
    /\ changed' \in {changed, changed \ {c}}
    /\ UNCHANGED jobs

With(status, S) == {j \in S : jobs[j].status = status}
-----------------------------------------------------------------------------
(***************************************************************************)
(* The worker thread.                                                      *)
(***************************************************************************)
Ready == {j \in With("pending", Jobs) : jobs[j].due <= 0}

\* SELECT ... WHERE status='pending' AND run_at <= now ORDER BY run_at LIMIT 1.
\* With no ready job the thread sleeps and polls again: no state changes.
SelectJob ==
    /\ wpc = "top" /\ stop = 0
    /\ \E j \in Ready :
         /\ \A k \in Ready : jobs[j].due <= jobs[k].due
         /\ cur' = j /\ retryCount' = jobs[j].retry
    /\ wpc' = "claim"
    /\ UNCHANGED <<jobs, procVars, handlerRc, changed, attempts, cancelled,
                   busy, ends>>

Claimed(claimed) == wpc' = IF claimed THEN "handler" ELSE "top"

\* The rows the claiming UPDATE matches: WHERE id=? AND status='pending'.
\* Wrong variant: the status is not looked at again.
ClaimMatchUnguarded == {j \in {cur} : jobs[j].status \in Stored}
ClaimMatch == With("pending", {cur})

\* UPDATE jobs SET status='running', followed by claimed = sqlite3_changes().
ClaimJob ==
    /\ wpc = "claim"
    /\ \/ /\ SqlDone("thread", ClaimMatch,
                     [j \in Jobs |-> [jobs[j] EXCEPT !.status = "running"]])
          /\ Claimed("thread" \in changed')
       \/ SqlBusy("thread") /\ Claimed("thread" \in changed)
    /\ UNCHANGED <<procVars, cur, retryCount, handlerRc, attempts, cancelled,
                   ends>>

\* find_handler and the handler itself; without a handler handler_rc is -1.
RunHandler ==
    /\ wpc = "handler"
    /\ attempts' = [attempts EXCEPT ![cur] = @ + 1]
    /\ handlerRc' \in IF jobs[cur].type \in handlers THEN {0, -1} ELSE {-1}
    /\ wpc' = "outcome"
    /\ UNCHANGED <<jobs, procVars, cur, retryCount, changed, cancelled, busy,
                   ends>>

\* The loop that multiplies WORKFLOW_BACKOFF_BASE new_retry times.
Backoff(n) == BackoffBase ^ n

\* When a failed job is given up.  Wrong variant: one retry too many.
GivesUpLate(n) == n > MaxRetries
GivesUp(n) == n >= MaxRetries

\* The row after the handler returned.
Outcome(j) ==
    LET n == retryCount + 1
    IN  IF handlerRc = 0 THEN [jobs[j] EXCEPT !.status = "done"]
        ELSE IF GivesUp(n)
             THEN [jobs[j] EXCEPT !.status = "failed", !.retry = n]
             ELSE [jobs[j] EXCEPT !.status = "pending", !.retry = n,
                                  !.due = Backoff(n)]

\* The UPDATE that records the outcome: WHERE id=?, its result not looked at.
UpdateOutcome ==
    /\ wpc = "outcome"
    /\ \/ SqlDone("thread", {j \in {cur} : jobs[j].status \in Stored},
                  [j \in Jobs |-> Outcome(j)])
       \/ SqlBusy("thread")
    /\ wpc' = "top"
    /\ UNCHANGED <<procVars, cur, retryCount, handlerRc, attempts, cancelled,
                   ends>>

\* while (!s_stop) of worker_thread.
ThreadExit ==
    /\ wpc = "top" /\ stop = 1
    /\ wpc' = "exited"
    /\ UNCHANGED <<jobs, procVars, cur, retryCount, handlerRc, changed,
                   attempts, cancelled, busy, ends>>

Thread == SelectJob \/ ClaimJob \/ RunHandler \/ UpdateOutcome \/ ThreadExit
-----------------------------------------------------------------------------
(***************************************************************************)
(* The parent process.                                                     *)
(***************************************************************************)

\* workflow_init: open the database and start the thread.
WorkflowInit ==
    /\ phase = "down"
    /\ phase' = "configure" /\ toRegister' = Registered
    /\ stop' = 0 /\ wpc' = "top"
    /\ UNCHANGED <<jobs, handlers, cur, retryCount, handlerRc, changed,
                   attempts, cancelled, busy, ends>>

\* workflow_register, called by kore_parent_configure after workflow_init.
WorkflowRegister(t) ==
    /\ phase = "configure" /\ t \in toRegister
    /\ toRegister' = toRegister \ {t}
    /\ handlers' = IF Cardinality(handlers) < MaxHandlers
                   THEN handlers \cup {t} ELSE handlers
    /\ UNCHANGED <<jobs, phase, stop, threadVars, changed, attempts,
                   cancelled, busy, ends>>

\* kore_parent_configure returns; Kore forks the worker processes.
StartServing ==
    /\ phase = "configure" /\ toRegister = {}
    /\ phase' = "serving"
    /\ UNCHANGED <<jobs, toRegister, handlers, stop, threadVars, changed,
                   attempts, cancelled, busy, ends>>

\* kore_parent_teardown, after every worker process has exited.
WorkflowShutdown ==
    /\ phase = "serving" /\ shutdowns < MaxShutdowns
    /\ phase' = "teardown" /\ stop' = 1 /\ shutdowns' = shutdowns + 1
    /\ UNCHANGED <<jobs, toRegister, handlers, threadVars, changed, attempts,
                   cancelled, busy, crashes>>

ProcessEnd ==
    /\ phase' = "down" /\ wpc' = "off"
    /\ toRegister' = {} /\ handlers' = {} /\ stop' = 0
    /\ changed' = {}
    /\ UNCHANGED <<jobs, cur, retryCount, handlerRc, attempts, cancelled, busy>>

\* Wrong variant: the process exits without pthread_join.
ShutdownNoJoin ==
    /\ phase = "teardown"
    /\ ProcessEnd
    /\ UNCHANGED ends

\* pthread_join returned; the database is closed and the process exits.
ShutdownComplete ==
    /\ phase = "teardown" /\ wpc = "exited"
    /\ ProcessEnd
    /\ UNCHANGED ends

\* The service dies at any point (killed, out of memory, machine restarted).
\* What SQLite has committed stays.
Crash ==
    /\ phase # "down" /\ crashes < MaxCrashes
    /\ crashes' = crashes + 1 /\ UNCHANGED shutdowns
    /\ ProcessEnd

Parent == WorkflowInit \/ (\E t \in Types : WorkflowRegister(t)) \/ StartServing
            \/ WorkflowShutdown \/ ShutdownComplete
-----------------------------------------------------------------------------
(***************************************************************************)
(* The HTTP routes, each in one worker process p.                          *)
(***************************************************************************)
WorkflowEnqueue(p, j, delay) ==
    /\ phase = "serving" /\ jobs[j].status = "none"
    /\ \/ SqlDone(p, {j}, [k \in Jobs |-> [jobs[k] EXCEPT !.status = "pending",
                                                    !.due = delay]])
       \/ SqlBusy(p)
    /\ UNCHANGED <<procVars, threadVars, attempts, cancelled, ends>>

\* The rows the cancelling UPDATE matches: WHERE id=? AND status='pending'.
\* Wrong variant: jobs that run or are finished are cancelled too.
CancelMatchUnguarded(j) == {k \in {j} : jobs[k].status \in Stored}
CancelMatch(j) == With("pending", {j})

\* Returns 0 when sqlite3_changes() is positive after the UPDATE.
WorkflowCancel(p, j) ==
    /\ phase = "serving"
    /\ \/ /\ SqlDone(p, CancelMatch(j),
                     [k \in Jobs |-> [jobs[k] EXCEPT !.status = "failed"]])
          /\ cancelled' = IF p \in changed' THEN cancelled \cup {j} ELSE cancelled
       \/ /\ SqlBusy(p)
          /\ cancelled' = IF p \in changed THEN cancelled \cup {j} ELSE cancelled
    /\ UNCHANGED <<procVars, threadVars, attempts, ends>>

\* workflow_purge_done is part of the interface; no route calls it yet.
WorkflowPurge(p, maxAge) ==
    /\ phase = "serving"
    /\ \/ SqlDone(p, {j \in Jobs : jobs[j].status \in Terminal
                                   /\ jobs[j].age > maxAge},
                   [k \in Jobs |-> [jobs[k] EXCEPT !.status = "purged"]])
       \/ SqlBusy(p)
    /\ UNCHANGED <<procVars, threadVars, attempts, cancelled, ends>>

Routes ==
    \E p \in API :
        \/ \E j \in Jobs, d \in Delays : WorkflowEnqueue(p, j, d)
        \/ \E j \in Jobs : WorkflowCancel(p, j)
        \/ \E a \in PurgeAges : WorkflowPurge(p, a)

\* One second passes for every row of the table.
Tick ==
    /\ jobs' = [j \in Jobs |->
                 IF jobs[j].status \notin Stored THEN jobs[j]
                 ELSE [jobs[j] EXCEPT
                         !.due = IF @ > -MaxLate THEN @ - 1 ELSE @,
                         !.age = IF @ < MaxAge THEN @ + 1 ELSE @]]
    /\ UNCHANGED <<procVars, threadVars, changed, attempts, cancelled, busy,
                   ends>>

(***************************************************************************)
(* What workflow_get_job tells a client of job j.                          *)
(***************************************************************************)
WorkflowGetJob(j) ==
    IF jobs[j].status \in Stored THEN jobs[j].status ELSE "not found"
-----------------------------------------------------------------------------
Next == Thread \/ Parent \/ Routes \/ Tick \/ Crash

Spec == Init /\ [][Next]_vars

\* The thread is scheduled, time passes, and a stopped service is started.
Fairness == WF_vars(Thread) /\ WF_vars(Tick)
              /\ WF_vars(WorkflowInit \/ StartServing \/ ShutdownComplete
                          \/ \E t \in Types : WorkflowRegister(t))

FairSpec == Spec /\ Fairness
-----------------------------------------------------------------------------
(***************************************************************************)
(* Properties.                                                             *)
(***************************************************************************)

\* Until a statement fails or the service crashes, the rows marked 'running'
\* are exactly the job the thread is working on: no other process takes,
\* changes or deletes a claimed row, and no claimed row is left behind by an
\* orderly shutdown (worker_pick_one, the status guards of the UPDATEs).
ClaimExclusive ==
    busy = 0 /\ crashes = 0 =>
        \A j \in Jobs : jobs[j].status = "running" <=> wpc \in Running /\ cur = j

\* While the handler runs outside the lock, the retry_count the thread read
\* before the claim is still the one in the row, so the outcome UPDATE that
\* writes retry_count + 1 loses no increment.
SnapshotFresh ==
    busy = 0 /\ wpc \in Running =>
        jobs[cur].status = "running" /\ retryCount = jobs[cur].retry

\* A job whose cancellation was reported (workflow_cancel_job returned 0) is
\* not run afterwards and stays failed, whatever the thread had read before.
CancelHonoured ==
    busy = 0 => \A j \in cancelled : /\ jobs[j].status \in {"failed", "purged"}
                                    /\ ~(wpc \in Running /\ cur = j)

\* A handler is called at most WORKFLOW_MAX_RETRIES times for a job, plus at
\* most once for every statement whose failure was ignored.
AttemptsBounded ==
    \A j \in Jobs : attempts[j] <= MaxRetries + busy

\* The thread's copies agree with the row it works on: worker_pick_one reads
\* retry_count before the claim and uses it after the handler has returned.
ThreadAgrees ==
    /\ phase = "down" <=> wpc = "off"
    /\ wpc \in InFlight => /\ jobs[cur].status # "none"
                           /\ retryCount = jobs[cur].retry
                           /\ retryCount < MaxRetries

\* Every attempt is paid for by a retry of the row or by a failed statement: a
\* claim that fails can still let the thread run the job.
AttemptsPaid ==
    /\ \A j \in Jobs :
         jobs[j].status \in {"none", "pending"} =>
            /\ jobs[j].retry < MaxRetries
            /\ attempts[j] <= jobs[j].retry + busy
            /\ wpc = "handler" /\ cur = j => attempts[j] < jobs[j].retry + busy
    /\ wpc \in {"claim", "handler"} => attempts[cur] <= retryCount + busy
    /\ wpc = "outcome" => attempts[cur] <= retryCount + 1 + busy

\* The inductive invariant: the four invariants above need each other, what
\* the thread remembers, and the account of the attempts.
IInv == /\ ThreadAgrees /\ AttemptsPaid
        /\ ClaimExclusive /\ SnapshotFresh /\ CancelHonoured /\ AttemptsBounded

\* Once a client has been told that a job is done or failed, it is never told
\* anything else of it, except that the job was purged.
TerminalStays ==
    [][busy' = 0 => \A j \in Jobs : WorkflowGetJob(j) \in Terminal =>
                       WorkflowGetJob(j)' \in {WorkflowGetJob(j), "not found"}]_vars

\* Every job that was accepted comes to an end: done, failed or (then) purged.
JobsFinish ==
    \A j \in Jobs : jobs[j].status = "pending"
                      ~> jobs[j].status \in Terminal \cup {"purged"}

\* The engine implements the queue that workflow.h promises: the state of a
\* job is the status of its row, its failures are the row's retry_count.
Queue == INSTANCE JobQueue WITH
             MaxTries <- MaxRetries,
             state <- [j \in Jobs |-> jobs[j].status],
             failures <- [j \in Jobs |-> jobs[j].retry]

\* As long as no statement fails, every step of the thread and of the routes
\* is a step of the abstract queue or leaves it unchanged.
ImplementsQueue == Queue!Spec
=============================================================================
