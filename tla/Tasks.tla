-------------------------------- MODULE Tasks --------------------------------
(***************************************************************************)
(* Background tasks (src/tasks.c).  The worker's main thread creates a     *)
(* task, binds it to a request, which puts the request to sleep, and hands *)
(* the task to one of kore_task_threads threads: a new one while there are *)
(* fewer than that, the first of the list of threads otherwise.  A thread  *)
(* runs the tasks of its own queue and closes its end of the task's socket *)
(* pair when one is done; the main thread sees that in its event loop,     *)
(* marks the task finished and wakes the request, whose page handler runs  *)
(* again and destroys the task.                                            *)
(*                                                                         *)
(* What a thread does while it holds tt->lock or t->lock is one step.      *)
(* kore_task_run is two, because it signals after it unlocks.              *)
(***************************************************************************)
EXTENDS Integers, Sequences, FiniteSets, Functions

CONSTANTS
    Tasks,        \* the tasks page handlers create, each bound to a request
    Threads,      \* the threads that can be spawned: kore_task_threads of them
    None          \* no thread, no task

ASSUME TasksAssumption ==
    /\ IsFiniteSet(Tasks) /\ IsFiniteSet(Threads) /\ Threads # {}
    /\ None \notin Tasks /\ None \notin Threads

VARIABLES
    cycle,      \* task_threads, the threads in the order they are used
    queue,      \* tt->tasks of each thread
    pc,         \* where each thread is in task_thread
    current,    \* the task a thread has taken off its queue
    signal,     \* the thread kore_task_run has yet to signal, or None
    state,      \* t->state, "new" before kore_task_create
    written,    \* the tasks with unread bytes in their channel
    closed,     \* the tasks whose fds[1] is closed
    watched,    \* the tasks whose fds[0] is in the event loop
    request,    \* the request of each task
    dead        \* 1 once the process has died of a bad memory access

mainVars == <<cycle, signal>>
poolVars == <<pc, current>>
taskVars == <<state, written, closed, watched, request>>
tasksVars == <<mainVars, queue, poolVars, taskVars, dead>>

TasksInit ==
    /\ cycle = << >>
    /\ queue = [tt \in Threads |-> << >>]
    /\ pc = [tt \in Threads |-> "unspawned"]
    /\ current = [tt \in Threads |-> None]
    /\ signal = None
    /\ state = [t \in Tasks |-> "new"]
    /\ written = {} /\ closed = {} /\ watched = {}
    /\ request = [t \in Tasks |-> "running"]
    /\ dead = 0

(***************************************************************************)
(* The main thread: kore_task_create, kore_task_bind_request and           *)
(* kore_task_run from a page handler that runs for the first time.         *)
(***************************************************************************)
Spawn(tt) ==
    /\ pc[tt] = "unspawned"
    /\ pc' = [pc EXCEPT ![tt] = "top"]
    /\ cycle' = Append(cycle, tt)

Reuse(tt) ==
    /\ \A u \in Threads : pc[u] # "unspawned"
    /\ tt = Head(cycle)
    /\ cycle' = Append(Tail(cycle), tt)
    /\ UNCHANGED pc

RunTask(t) ==
    /\ signal = None /\ state[t] = "new"
    /\ \E tt \in Threads :
        /\ Spawn(tt) \/ Reuse(tt)
        /\ queue' = [queue EXCEPT ![tt] = Append(@, t)]
        /\ signal' = tt
    /\ state' = [state EXCEPT ![t] = "CREATED"]
    /\ watched' = watched \cup {t}
    /\ request' = [request EXCEPT ![t] = "asleep"]
    /\ UNCHANGED <<current, written, closed, dead>>

\* pthread_cond_signal, after the unlock: it wakes a thread that waits.
Signal ==
    /\ signal # None
    /\ pc' = [pc EXCEPT ![signal] = IF @ = "wait" THEN "woken" ELSE @]
    /\ signal' = None
    /\ UNCHANGED <<cycle, queue, current, taskVars, dead>>

(***************************************************************************)
(* A thread of the pool, task_thread.                                      *)
(***************************************************************************)
\* Wrong variant: the thread waits without a look at its queue.
WaitUntested(tt) ==
    /\ pc[tt] = "top"
    /\ pc' = [pc EXCEPT ![tt] = "wait"]
    /\ UNCHANGED <<mainVars, queue, current, taskVars, dead>>

Wait(tt) ==
    /\ pc[tt] = "top" /\ queue[tt] = << >>
    /\ pc' = [pc EXCEPT ![tt] = "wait"]
    /\ UNCHANGED <<mainVars, queue, current, taskVars, dead>>

Take(tt) ==
    /\ pc[tt] \in {"top", "woken"} /\ queue[tt] # << >>
    /\ current' = [current EXCEPT ![tt] = Head(queue[tt])]
    /\ queue' = [queue EXCEPT ![tt] = Tail(@)]
    /\ pc' = [pc EXCEPT ![tt] = "taken"]
    /\ UNCHANGED <<mainVars, taskVars, dead>>

\* A woken thread does not look again: it removes the first element of an
\* empty list, a null pointer.
TakeNothing(tt) ==
    /\ pc[tt] = "woken" /\ queue[tt] = << >>
    /\ dead' = 1
    /\ UNCHANGED <<mainVars, queue, poolVars, taskVars>>

SetRunning(tt) ==
    /\ pc[tt] = "taken"
    /\ state' = [state EXCEPT ![current[tt]] = "RUNNING"]
    /\ pc' = [pc EXCEPT ![tt] = "entry"]
    /\ UNCHANGED <<mainVars, queue, current, written, closed, watched, request, dead>>

\* The entry point may write on the channel once, and returns.
EntryWrites(tt) ==
    /\ pc[tt] = "entry"
    /\ written' = written \cup {current[tt]}
    /\ pc' = [pc EXCEPT ![tt] = "wrote"]
    /\ UNCHANGED <<mainVars, queue, current, state, closed, watched, request, dead>>

\* Wrong variant: the channel is left open.
FinishOpen(tt) ==
    /\ pc[tt] \in {"entry", "wrote"}
    /\ pc' = [pc EXCEPT ![tt] = "top"]
    /\ current' = [current EXCEPT ![tt] = None]
    /\ UNCHANGED <<mainVars, queue, closed, state, written, watched, request, dead>>

Finish(tt) ==
    /\ pc[tt] \in {"entry", "wrote"}
    /\ closed' = closed \cup {current[tt]}
    /\ pc' = [pc EXCEPT ![tt] = "top"]
    /\ current' = [current EXCEPT ![tt] = None]
    /\ UNCHANGED <<mainVars, queue, state, written, watched, request, dead>>

(***************************************************************************)
(* The main thread in its event loop: kore_task_handle.                    *)
(***************************************************************************)
Wakeup(t) == request' = [request EXCEPT ![t] = "awake"]

HandleData(t) ==
    /\ signal = None /\ t \in watched /\ t \in written /\ t \notin closed
    /\ Wakeup(t)
    /\ written' = written \ {t}
    /\ UNCHANGED <<mainVars, queue, poolVars, state, closed, watched, dead>>

HandleFinished(t) ==
    /\ signal = None /\ t \in watched /\ t \in closed
    /\ Wakeup(t)
    /\ watched' = watched \ {t}
    /\ state' = [state EXCEPT ![t] = "FINISHED"]
    /\ UNCHANGED <<mainVars, queue, poolVars, written, closed, dead>>

\* The page handler runs again.  It asks for the state of the task: not
\* finished, it sleeps again; finished, it takes the result, the request is
\* over and the task destroyed.
PageHandler(t) ==
    /\ signal = None /\ request[t] = "awake"
    /\ IF state[t] = "FINISHED"
         THEN /\ state' = [state EXCEPT ![t] = "destroyed"]
              /\ request' = [request EXCEPT ![t] = "done"]
         ELSE /\ request' = [request EXCEPT ![t] = "asleep"]
              /\ UNCHANGED state
    /\ UNCHANGED <<mainVars, queue, poolVars, written, closed, watched, dead>>

ThreadStep(tt) ==
    Wait(tt) \/ Take(tt) \/ TakeNothing(tt) \/ SetRunning(tt)
        \/ EntryWrites(tt) \/ Finish(tt)

LoopStep(t) == HandleData(t) \/ HandleFinished(t) \/ PageHandler(t)

Live ==
    \/ \E t \in Tasks : RunTask(t) \/ LoopStep(t)
    \/ Signal
    \/ \E tt \in Threads : ThreadStep(tt)

TasksNext == dead = 0 /\ Live

TasksSpec == TasksInit /\ [][TasksNext]_tasksVars

\* The kernel schedules every thread, and an entry point returns.  The event
\* loop gets to every event and to every request that is awake.  Page
\* handlers need not start tasks.
TasksFairSpec ==
    /\ TasksSpec
    /\ \A tt \in Threads : WF_tasksVars(dead = 0 /\ ThreadStep(tt))
    /\ WF_tasksVars(dead = 0 /\ Signal)
    /\ \A t \in Tasks : WF_tasksVars(dead = 0 /\ LoopStep(t))

-----------------------------------------------------------------------------
\* The tasks a thread has still to touch.
Held(tt) == Range(queue[tt]) \cup ({current[tt]} \ {None})

\* The type invariant: every variable of the pool holds a value of its type.
TasksTypeOK ==
    /\ cycle \in Seq(Threads)
    /\ queue \in [Threads -> Seq(Tasks)]
    /\ pc \in [Threads -> {"unspawned", "top", "wait", "woken", "taken",
                           "entry", "wrote"}]
    /\ current \in [Threads -> Tasks \cup {None}]
    /\ signal \in Threads \cup {None}
    /\ state \in [Tasks -> {"new", "CREATED", "RUNNING", "FINISHED",
                            "destroyed"}]
    /\ written \subseteq Tasks /\ closed \subseteq Tasks /\ watched \subseteq Tasks
    /\ request \in [Tasks -> {"running", "asleep", "awake", "done"}]
    /\ dead \in {0, 1}

\* No wake-up is lost: a thread that sleeps in pthread_cond_wait although its
\* queue holds a task is the one kore_task_run is about to signal, even though
\* the signal is sent after the unlock.
NoLostWakeup ==
    \A tt \in Threads :
        (pc[tt] = "wait" /\ queue[tt] # << >>) => signal = tt

\* One place: a task is in at most one queue, at one position of it, or taken
\* by one thread, and then nowhere else; so no entry point runs twice.
OnePlace ==
    /\ \A tt \in Threads :
        /\ IsInjective(queue[tt])
        /\ current[tt] \notin Range(queue[tt])
    /\ \A tt, u \in Threads : tt # u => Held(tt) \cap Held(u) = {}

\* kore_task_finished tells the page handler that it may free the memory of
\* the task: a task that is finished or destroyed is in no queue, and no thread
\* will touch it again.
FinishedIsIdle ==
    \A t \in Tasks : state[t] \in {"FINISHED", "destroyed"} =>
        \A tt \in Threads : t \notin Held(tt)

\* What the threads hold agrees with the state of the tasks: there is a thread
\* to reuse once one was spawned, a thread has a task exactly between taking
\* and finishing it, and a task that is held has not ended.
PoolAgrees ==
    /\ (\E tt \in Threads : pc[tt] # "unspawned") => cycle # << >>
    /\ \A tt \in Threads : current[tt] # None <=> pc[tt] \in {"taken", "entry", "wrote"}
    /\ \A tt \in Threads : \A t \in Held(tt) :
          state[t] \in {"CREATED", "RUNNING"} /\ t \notin closed
    /\ \A t \in closed : state[t] # "new"

\* The inductive invariant.
TaskInv == PoolAgrees /\ OnePlace /\ NoLostWakeup

\* A page handler whose task has been started is run again after the task has
\* completed, and the request ends, unless the process dies first.
RefiresUnlessDead ==
    \A t \in Tasks :
        (request[t] = "asleep") ~> (request[t] = "done" \/ dead = 1)

\* What examples/tasks says of a bound task: the page handler of the request
\* is run again after the task has completed.
Refires ==
    \A t \in Tasks : (request[t] = "asleep") ~> (request[t] = "done")
=============================================================================
