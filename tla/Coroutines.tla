----------------------------- MODULE Coroutines -----------------------------
(***************************************************************************)
(* The coroutine scheduler of the Python runtime (src/python.c): runnable  *)
(* and suspended coroutines, those bound to an HTTP request, kore.lock,    *)
(* kore.queue, kore.suspend, kore.gather and kore.task_kill.  A coroutine  *)
(* is any program over these operations; it runs until it awaits something *)
(* that is not there yet.                                                  *)
(***************************************************************************)
EXTENDS Integers, Sequences, FiniteSets, SequencesExt

CONSTANTS
    Coros,      \* coroutines
    Bound,      \* those bound to an HTTP request (coro->request)
    Members,    \* those that only exist as members of the gather
    Limits,     \* values of gather's concurrency
    MaxOps,     \* bound: operations of all coroutines
    MaxKills,   \* bound: calls of task_kill, or clients that have gone
    Barging     \* "yes" when coroutines also use popnow

None == 0

VARIABLES
    state,      \* of each coroutine: "none", "runnable", "suspended", "dead"
    runnable,   \* coro_runnable
    awake,      \* bound coroutines whose request has been woken
    running,    \* coro_running
    await,      \* what each coroutine is at: "none", "lock", "pop", "sleep", "gather"
    owner,      \* lock->owner
    held,       \* how each coroutine holds the lock: "no", "with", "try"
    ops,        \* lock->ops: coroutines waiting for the lock
    objects,    \* queue->objects, by their number
    waiting,    \* queue->waiting
    gather,     \* the gather operation: parent, coroutines, running, concurrency, results
    done,       \* operations so far
    kills       \* kills so far

vars == <<state, runnable, awake, running, await, owner, held, ops, objects, waiting,
          gather, done, kills>>
sched == <<state, runnable, awake, running, await>>
lock  == <<owner, held, ops>>
queue == <<objects, waiting>>

NoGather == [parent |-> None, coroutines |-> << >>, running |-> 0, concurrency |-> 0, results |-> 0]

TypeOK ==
    /\ state \in [Coros -> {"none", "runnable", "suspended", "dead"}]
    /\ runnable \in Seq(Coros) /\ awake \subseteq Bound /\ running \in Coros \cup {None}
    /\ await \in [Coros -> {"none", "lock", "pop", "sleep", "gather"}]
    /\ owner \in Coros \cup {None} /\ held \in [Coros -> {"no", "with", "try"}]
    /\ ops \in Seq(Coros) /\ objects \in Nat /\ waiting \in Seq(Coros)
    /\ gather.coroutines \in Seq(Members) /\ done \in 0 .. MaxOps /\ kills \in 0 .. MaxKills

\* kore_python_init, then a task or a request for every coroutine that is not
\* a member: python_coro_create.
Init ==
    /\ state = [c \in Coros |-> IF c \in Members THEN "none" ELSE "runnable"]
    /\ runnable = SetToSeq(Coros \ (Members \cup Bound))
    /\ awake = Bound /\ running = None
    /\ await = [c \in Coros |-> "none"]
    /\ owner = None /\ held = [c \in Coros |-> "no"] /\ ops = << >>
    /\ objects = 0 /\ waiting = << >>
    /\ gather = NoGather /\ done = 0 /\ kills = 0

Without(s, C) == SelectSeq(s, LAMBDA c : c \notin C)
Alive(c) == state[c] \in {"runnable", "suspended"}
-----------------------------------------------------------------------------
(* The scheduler. *)

\* python_coro_wakeup for the coroutines of the sequence s, or
\* http_request_wakeup for those that are bound.
Woken(s) == SelectSeq(s, LAMBDA c : state[c] = "suspended" /\ c \notin Bound)
python_coro_wakeup(s) ==
    /\ state' = [c \in Coros |-> IF c \in Range(Woken(s)) THEN "runnable" ELSE state[c]]
    /\ runnable' = runnable \o Woken(s)
    /\ awake' = awake \cup {c \in Range(s) : c \in Bound /\ state[c] = "suspended"}

\* python_coro_suspend at the end of python_coro_run.
python_coro_suspend(c, what) ==
    /\ state' = [state EXCEPT ![c] = "suspended"]
    /\ runnable' = Without(runnable, {c}) /\ awake' = awake \ {c}
    /\ await' = [await EXCEPT ![c] = what] /\ running' = None

Goes(c) ==
    /\ running' = c /\ await' = [await EXCEPT ![c] = "none"]
    /\ UNCHANGED awake

Spends == done < MaxOps /\ done' = done + 1

\* kore_python_coro_run takes the first runnable coroutine; http_process then
\* runs the requests that were woken (python_runtime_http_request).
Turn(c) ==
    /\ running = None
    /\ \/ runnable # << >> /\ c = Head(runnable)
       \/ runnable = << >> /\ c \in awake
Resumes(c) ==
    /\ Goes(c) /\ state' = [state EXCEPT ![c] = "runnable"]
    /\ runnable' = IF c \in Bound THEN Append(runnable, c) ELSE runnable
-----------------------------------------------------------------------------
(* The lock. *)

\* pylock_do_release; the caller gives the list of waiters.
\* Wrong variant: nobody is woken.
ReleaseSilent(W) == owner' = None /\ ops' = W /\ UNCHANGED <<state, runnable, awake>>

pylock_do_release(W) ==
    /\ owner' = None
    /\ IF W # << >> THEN ops' = Tail(W) /\ python_coro_wakeup(<<Head(W)>>)
       ELSE ops' = W /\ UNCHANGED <<state, runnable, awake>>

\* async with lock: __aenter__, and the first pylock_op_iternext.
pylock_aenter(c) ==
    /\ running = c /\ owner # c /\ Spends
    /\ \/ /\ owner = None /\ owner' = c /\ held' = [held EXCEPT ![c] = "with"]
          /\ UNCHANGED <<sched, ops>>
       \/ /\ owner # None /\ ops' = Append(ops, c)
          /\ python_coro_suspend(c, "lock") /\ UNCHANGED <<owner, held>>
    /\ UNCHANGED <<queue, gather, kills>>

\* pylock_op_iternext when the coroutine runs again: another one may have
\* taken the lock in the meantime, and then this one waits first in line.
Beaten(c) ==
    /\ owner # None
    /\ ops' = IF c \in Range(ops) THEN ops ELSE <<c>> \o ops
    /\ python_coro_suspend(c, "lock") /\ UNCHANGED <<owner, held>>

pylock_op_iternext(c) ==
    /\ Turn(c) /\ await[c] = "lock"
    /\ \/ Beaten(c)
       \/ /\ owner = None /\ owner' = c /\ held' = [held EXCEPT ![c] = "with"]
          /\ ops' = Without(ops, {c}) /\ Resumes(c)
    /\ UNCHANGED <<queue, gather, done, kills>>

\* The end of the async with, and lock.release().
pylock_release(c) ==
    /\ running = c /\ owner = c /\ held' = [held EXCEPT ![c] = "no"]
    /\ pylock_do_release(ops)
    /\ UNCHANGED <<running, await, queue, gather, done, kills>>

pylock_trylock(c) ==
    /\ running = c /\ owner = None /\ Spends
    /\ owner' = c /\ held' = [held EXCEPT ![c] = "try"]
    /\ UNCHANGED <<sched, ops, queue, gather, kills>>
-----------------------------------------------------------------------------
(* The queue. *)

pyqueue_push(c) ==
    /\ running = c /\ Spends
    /\ objects' = objects + 1
    /\ IF waiting # << >> THEN waiting' = Tail(waiting) /\ python_coro_wakeup(<<Head(waiting)>>)
       ELSE UNCHANGED <<waiting, state, runnable, awake>>
    /\ UNCHANGED <<running, await, lock, gather, kills>>

\* pyqueue_pop and the first pyqueue_op_iternext.
pyqueue_pop(c) ==
    /\ running = c /\ Spends
    /\ \/ objects > 0 /\ objects' = objects - 1 /\ UNCHANGED <<sched, waiting>>
       \/ /\ objects = 0 /\ UNCHANGED objects
          /\ waiting' = Append(waiting, c) /\ python_coro_suspend(c, "pop")
    /\ UNCHANGED <<lock, gather, kills>>

pyqueue_op_iternext(c) ==
    /\ Turn(c) /\ await[c] = "pop"
    /\ \/ /\ objects > 0 /\ objects' = objects - 1
          /\ waiting' = Without(waiting, {c}) /\ Resumes(c)
       \/ objects = 0 /\ python_coro_suspend(c, "pop") /\ UNCHANGED queue
    /\ UNCHANGED <<lock, gather, done, kills>>

pyqueue_popnow(c) ==
    /\ Barging = "yes" /\ running = c /\ objects > 0 /\ Spends
    /\ objects' = objects - 1
    /\ UNCHANGED <<sched, lock, waiting, gather, kills>>
-----------------------------------------------------------------------------
(* kore.suspend: a timer wakes the coroutine. *)

python_kore_suspend(c) ==
    /\ running = c /\ Spends /\ python_coro_suspend(c, "sleep")
    /\ UNCHANGED <<lock, queue, gather, kills>>

pysuspend_wakeup(c) ==
    /\ running = None /\ state[c] = "suspended" /\ await[c] = "sleep" /\ c \notin awake
    /\ python_coro_wakeup(<<c>>)
    /\ UNCHANGED <<running, await, lock, queue, gather, done, kills>>

pysuspend_op_iternext(c) ==
    /\ Turn(c) /\ await[c] = "sleep" /\ Resumes(c)
    /\ UNCHANGED <<lock, queue, gather, done, kills>>

\* A coroutine that runs for the first time.
Starts(c) ==
    /\ Turn(c) /\ await[c] = "none" /\ Resumes(c)
    /\ UNCHANGED <<lock, queue, gather, done, kills>>
-----------------------------------------------------------------------------
(* kore.gather. *)

\* python_kore_gather, awaited at once: every member is created runnable, the
\* ones beyond the concurrency are suspended, the caller waits.
python_kore_gather(c, k) ==
    LET all == SetToSeq(Members)
        n   == IF k = 0 THEN Len(all) ELSE k
    IN  /\ running = c /\ gather.parent = None /\ Spends /\ Members # {}
        /\ \A m \in Members : state[m] = "none"
        /\ gather' = [parent |-> c, coroutines |-> all,
                      running |-> IF n < Len(all) THEN n ELSE Len(all),
                      concurrency |-> n, results |-> 0]
        /\ state' = [x \in Coros |->
                        IF x = c THEN "suspended"
                        ELSE IF \E i \in DOMAIN all : all[i] = x /\ i <= n THEN "runnable"
                        ELSE IF x \in Members THEN "suspended" ELSE state[x]]
        /\ runnable' = Without(runnable, {c}) \o SubSeq(all, 1, gather'.running)
        /\ awake' = awake \ {c}
        /\ await' = [await EXCEPT ![c] = "gather"] /\ running' = None
        /\ UNCHANGED <<lock, queue, kills>>

\* pygather_op_iternext: waits while members run, starts the next ones when
\* none does, and ends when all are done.
NextMembers ==
    LET n == IF gather.concurrency < Len(gather.coroutines) THEN gather.concurrency
             ELSE Len(gather.coroutines)
    IN  SubSeq(gather.coroutines, 1, n)

pygather_op_iternext(c) ==
    /\ Turn(c) /\ await[c] = "gather"
    /\ \/ /\ gather.coroutines # << >> /\ gather.running > 0
          /\ python_coro_suspend(c, "gather") /\ UNCHANGED gather
       \/ /\ gather.coroutines # << >> /\ gather.running = 0
          /\ gather' = [gather EXCEPT !.running = Len(NextMembers)]
          /\ state' = [x \in Coros |-> IF x \in Range(NextMembers) THEN "runnable"
                                       ELSE IF x = c THEN "suspended" ELSE state[x]]
          /\ runnable' = Without(runnable, {c}) \o NextMembers
          /\ awake' = awake \ {c} /\ running' = None /\ UNCHANGED await
       \/ /\ gather.coroutines = << >> /\ gather' = NoGather
          /\ Resumes(c)
    /\ UNCHANGED <<lock, queue, done, kills>>
-----------------------------------------------------------------------------
(* The end of a coroutine. *)

\* It returns, and is deleted; the member of a gather is reaped
\* (pygather_reap_coro) after its parent was woken.
Returns(c) ==
    /\ running = c /\ held[c] = "no" /\ running' = None
    /\ IF c \in Members
       THEN LET p == gather.parent
                w == state[p] = "suspended"
            IN  /\ state' = [state EXCEPT ![c] = "dead",
                                          ![p] = IF w /\ p \notin Bound THEN "runnable" ELSE @]
                /\ runnable' = Without(runnable, {c}) \o IF w /\ p \notin Bound THEN <<p>> ELSE << >>
                /\ awake' = IF w /\ p \in Bound THEN awake \cup {p} ELSE awake
                /\ gather' = [gather EXCEPT !.coroutines = Without(@, {c}), !.running = @ - 1,
                                            !.results = @ + 1]
       ELSE /\ state' = [state EXCEPT ![c] = "dead"]
            /\ runnable' = Without(runnable, {c}) /\ awake' = awake \ {c}
            /\ UNCHANGED gather
    /\ UNCHANGED <<await, lock, queue, done, kills>>

\* kore_python_coro_delete of d, by task_kill from another coroutine or by
\* http_request_free.  Its frames are closed with coro_running = d: an async
\* with releases the lock, what it awaits is taken back, the members of its
\* gather are deleted with it.
kore_python_coro_delete(d) ==
    LET D == {d} \cup (IF gather.parent = d THEN Range(gather.coroutines) ELSE {})
        W == Without(ops, D)
        w == IF owner \in D /\ W # << >> THEN <<Head(W)>> ELSE << >>
    IN  /\ state' = [c \in Coros |-> IF c \in D THEN "dead"
                                     ELSE IF c \in Range(Woken(w)) THEN "runnable" ELSE state[c]]
        /\ runnable' = Without(runnable, D) \o Woken(w)
        /\ awake' = (awake \ D) \cup {c \in Range(w) : c \in Bound}
        /\ gather' = IF gather.parent = d THEN NoGather ELSE gather
        /\ waiting' = Without(waiting, D)
        /\ owner' = IF owner \in D THEN None ELSE owner
        /\ ops' = IF w # << >> THEN Tail(W) ELSE W
        /\ held' = [c \in Coros |-> IF c \in D THEN "no" ELSE held[c]]

\* The members of a gather and the coroutines of requests are not killed by
\* task_kill (their owners would keep the pointer), nor is a coroutine that took
\* the lock with trylock (nothing would release it).
python_kore_task_kill(d) ==
    /\ kills < MaxKills /\ kills' = kills + 1
    /\ \/ running # None /\ running # d /\ d \notin Bound
       \/ running = None /\ d \in Bound
    /\ Alive(d) /\ d \notin Members
    /\ \A c \in {d} \cup (IF gather.parent = d THEN Members ELSE {}) : held[c] # "try"
    /\ running \notin Members \/ gather.parent # d
    /\ kore_python_coro_delete(d)
    /\ UNCHANGED <<running, await, objects, done>>

Acts(c) ==
    \/ pylock_aenter(c) \/ pylock_release(c) \/ pylock_trylock(c)
    \/ pyqueue_push(c) \/ pyqueue_pop(c) \/ pyqueue_popnow(c)
    \/ python_kore_suspend(c) \/ \E k \in Limits : python_kore_gather(c, k)
    \/ Returns(c)
Awaits(c) ==
    \/ Starts(c) \/ pylock_op_iternext(c) \/ pyqueue_op_iternext(c)
    \/ pysuspend_op_iternext(c) \/ pygather_op_iternext(c)

Next == \E c \in Coros : Acts(c) \/ Awaits(c) \/ pysuspend_wakeup(c) \/ python_kore_task_kill(c)

Spec == Init /\ [][Next]_vars
-----------------------------------------------------------------------------
OnWay(c) == c \in Range(runnable) \/ c \in awake

\* The lists agree with the states: kore_python_coro_run never finds a
\* coroutine that is not runnable, nor one that was deleted, and what is waited
\* on holds no deleted coroutine.
ListsAgree ==
    /\ \A c \in Coros \ Bound : c \in Range(runnable) <=> state[c] = "runnable"
    /\ IsInjective(runnable) /\ IsInjective(ops) /\ IsInjective(waiting)
    /\ \A c \in Range(runnable) \cup awake \cup Range(ops) \cup Range(waiting)
                \cup Range(gather.coroutines) : Alive(c)
    /\ owner # None => Alive(owner) /\ held[owner] # "no"

\* A lock that is free while coroutines wait for it has one of them on its
\* way, unless a coroutine was killed between being woken and running.
LockWaiterWoken ==
    /\ kills = 0 /\ owner = None /\ ops # << >> =>
           \E c \in Coros : await[c] = "lock" /\ OnWay(c)
    /\ \A c \in Coros : await[c] = "lock" /\ Alive(c) => c \in Range(ops) \/ OnWay(c)

\* kore.gather runs no more members at once than its concurrency, counts those
\* that it runs, and its parent is on its way when none does.
GatherSound ==
    gather.parent # None =>
        LET run == {m \in Range(gather.coroutines) : await[m] # "none" \/ state[m] = "runnable"}
        IN  /\ Cardinality(run) = gather.running
            /\ gather.running <= gather.concurrency
            /\ gather.running = 0 => OnWay(gather.parent)
            /\ gather.results + Len(gather.coroutines) = Cardinality(Members)
=============================================================================
