------------------------------ MODULE Lifecycle ------------------------------
(***************************************************************************)
(* The parent and the processes it forks (src/kore.c, src/worker.c): start, *)
(* the parent's loop with its one slot for a signal, workers that end or    *)
(* die and are replaced, the module that SIGHUP reloads, and the shutdown.  *)
(***************************************************************************)
EXTENDS Integers, FiniteSets

CONSTANTS
    Workers,    \* kore_workers; the order of their start is that of the numbers
    Keymgr,     \* the one of them that is the keymgr
    Timer,      \* "yes" when the parent has a timer, for an access log
    Children,   \* "yes" when workers have children of their own, of Python
    Policies,   \* worker_policy: subset of {"restart", "terminate"}
    MaxDeaths,  \* bound: workers that die
    MaxSignals  \* bound: signals that someone sends the parent

\* The slots are numbered from 1; 0 stands for the parent.
ASSUME LifecycleAssumption ==
    /\ Workers \subseteq Nat \ {0} /\ Keymgr \in Workers
    /\ MaxDeaths \in Nat /\ MaxSignals \in Nat

VARIABLES
    policy,     \* worker_policy
    parent,     \* where the parent is
    kore_quit,  \* "NONE", "NORMAL" or "FATAL"
    sig_recv,   \* per process, 0 is the parent: the signal in its slot, or "none"
    last_sig,   \* the signal that the parent's loop works on
    proc,       \* per worker: its process
    running,    \* per worker: kw->running
    pid,        \* per worker: kw->pid is set ("yes"), or 0 ("no")
    ready,      \* per worker: kw->ready
    spawning,   \* the worker that kore_worker_spawn waits for, or 0
    module,     \* per process: which version of the module it has
    deaths, sent

vars == <<policy, parent, kore_quit, sig_recv, last_sig, proc, running, pid, ready, spawning,
          module, deaths, sent>>

Procs == Workers \union {0}
Signals == {"none", "HUP", "TERM", "QUIT", "CHLD"}

TypeOK ==
    /\ policy \in Policies /\ kore_quit \in {"NONE", "NORMAL", "FATAL"}
    /\ parent \in {"start", "failed", "top", "handle", "poll", "wait", "after", "quit", "shutdown",
                   "gone"}
    /\ sig_recv \in [Procs -> Signals] /\ last_sig \in Signals
    /\ proc \in [Workers -> {"none", "forked", "setup", "poll", "armed", "wait", "sig", "exited", "died", "reaped"}]
    /\ running \in [Workers -> 0 .. 1] /\ pid \in [Workers -> {"yes", "no"}]
    /\ ready \in [Workers -> 0 .. 1] /\ spawning \in Procs /\ module \in [Procs -> Nat]
    /\ deaths \in 0 .. MaxDeaths /\ sent \in 0 .. MaxSignals

Init ==
    /\ policy \in Policies /\ parent = "start" /\ kore_quit = "NONE"
    /\ sig_recv = [p \in Procs |-> "none"] /\ last_sig = "none"
    /\ proc = [w \in Workers |-> "none"] /\ running = [w \in Workers |-> 0]
    /\ pid = [w \in Workers |-> "no"] /\ ready = [w \in Workers |-> 0] /\ spawning = 0
    /\ module = [p \in Procs |-> 0] /\ deaths = 0 /\ sent = 0

Serves(w) == proc[w] \in {"poll", "armed", "wait", "sig"}
Alive(w) == Serves(w) \/ proc[w] \in {"forked", "setup"}
Zombie(w) == proc[w] \in {"exited", "died"}

\* kore_signal: the slot has the last signal, and a wait in
\* kore_platform_event_wait ends.
Wakes(where, p, to) == IF where = "wait" THEN to ELSE where
-----------------------------------------------------------------------------
\* kore_worker_spawn, up to the fork; the parent then waits for kw->ready.
\* Wrong variant: running counts the processes of a worker.
SpawnCounts(w) ==
    /\ proc' = [proc EXCEPT ![w] = "forked"] /\ running' = [running EXCEPT ![w] = @ + 1]
    /\ pid' = [pid EXCEPT ![w] = "yes"] /\ ready' = [ready EXCEPT ![w] = 0] /\ spawning' = w
    /\ sig_recv' = [sig_recv EXCEPT ![w] = sig_recv[0]]
    /\ module' = [module EXCEPT ![w] = module[0]]

Spawn(w) ==
    /\ proc' = [proc EXCEPT ![w] = "forked"] /\ running' = [running EXCEPT ![w] = 1]
    /\ pid' = [pid EXCEPT ![w] = "yes"] /\ ready' = [ready EXCEPT ![w] = 0] /\ spawning' = w
    /\ sig_recv' = [sig_recv EXCEPT ![w] = sig_recv[0]]
    /\ module' = [module EXCEPT ![w] = module[0]]

\* The wait ends well, or after maxcnt turns: at the start that ends the
\* program, later the loop.
SpawnDone ==
    /\ spawning # 0 /\ ready[spawning] = 1 /\ spawning' = 0
    /\ UNCHANGED <<policy, parent, kore_quit, sig_recv, last_sig, proc, running, pid, ready, module,
                   deaths, sent>>

NotReady ==
    /\ spawning # 0 /\ ready[spawning] = 0 /\ spawning' = 0
    /\ kore_quit' = IF parent = "start" THEN kore_quit ELSE "FATAL"
    /\ parent' = IF parent = "start" THEN "quit" ELSE parent
    /\ UNCHANGED <<policy, sig_recv, last_sig, proc, running, pid, ready, module, deaths, sent>>

\* kore_worker_init: one after the other, the keymgr last.
NextToStart == {w \in Workers : proc[w] = "none"}

kore_worker_init ==
    /\ parent = "start" /\ spawning = 0
    /\ IF NextToStart = {}
       THEN parent' = "top" /\ UNCHANGED <<sig_recv, proc, running, pid, ready, spawning, module>>
       ELSE /\ \E w \in NextToStart : (\A v \in NextToStart : w <= v) /\ Spawn(w)
            /\ UNCHANGED parent
    /\ UNCHANGED <<policy, kore_quit, last_sig, deaths, sent>>

\* kore_worker_entry: kore_signal_setup empties the slot; then all that the
\* worker sets up, to kore_worker_started and the loop.
kore_signal_setup(w) ==
    /\ proc[w] = "forked" /\ proc' = [proc EXCEPT ![w] = "setup"]
    /\ sig_recv' = [sig_recv EXCEPT ![w] = "none"]
    /\ UNCHANGED <<policy, parent, kore_quit, last_sig, running, pid, ready, spawning, module,
                   deaths, sent>>

kore_worker_started(w) ==
    /\ proc[w] = "setup" /\ proc' = [proc EXCEPT ![w] = "poll"] /\ ready' = [ready EXCEPT ![w] = 1]
    /\ UNCHANGED <<policy, parent, kore_quit, sig_recv, last_sig, running, pid, spawning, module,
                   deaths, sent>>
-----------------------------------------------------------------------------
\* A worker's loop: netwait is computed, short with a signal in the slot, and
\* the wait begins with what was computed.
WorkerWaits(w) ==
    /\ proc[w] \in {"poll", "armed"}
    /\ proc' = [proc EXCEPT ![w] = IF @ = "armed" THEN "wait"
                                   ELSE IF sig_recv[w] = "none" THEN "armed" ELSE "sig"]
    /\ UNCHANGED <<policy, parent, kore_quit, sig_recv, last_sig, running, pid, ready, spawning, module,
                   deaths, sent>>

\* Something comes in: the wait ends.
WorkerEvent(w) ==
    /\ proc[w] = "wait" /\ proc' = [proc EXCEPT ![w] = "sig"]
    /\ UNCHANGED <<policy, parent, kore_quit, sig_recv, last_sig, running, pid, ready, spawning, module,
                   deaths, sent>>

\* The signal is looked at: SIGHUP reloads the module, SIGTERM and SIGQUIT
\* end the worker (the cleanup, exit(0)); the keymgr only ends.
WorkerSignal(w) ==
    /\ proc[w] = "sig" /\ sig_recv' = [sig_recv EXCEPT ![w] = "none", ![0] =
                             IF sig_recv[w] \in {"TERM", "QUIT"} THEN "CHLD" ELSE @]
    /\ proc' = [proc EXCEPT ![w] = IF sig_recv[w] \in {"TERM", "QUIT"} THEN "exited" ELSE "poll"]
    /\ module' = [module EXCEPT ![w] = IF sig_recv[w] = "HUP" /\ w # Keymgr THEN module[0] ELSE @]
    /\ parent' = IF sig_recv[w] \in {"TERM", "QUIT"} THEN Wakes(parent, 0, "after") ELSE parent
    /\ UNCHANGED <<policy, kore_quit, last_sig, running, pid, ready, spawning, deaths, sent>>

\* A process of Python ends: its worker gets SIGCHLD, which takes the slot.
ChildOfWorker(w) ==
    /\ Children = "yes" /\ Serves(w) /\ w # Keymgr /\ sent < MaxSignals /\ sent' = sent + 1
    /\ sig_recv' = [sig_recv EXCEPT ![w] = "CHLD"]
    /\ proc' = [proc EXCEPT ![w] = Wakes(@, w, "sig")]
    /\ UNCHANGED <<policy, parent, kore_quit, last_sig, running, pid, ready, spawning, module, deaths>>

\* A worker dies: fatal(), a signal, exit(1) of one that cannot start.
Dies(w) ==
    /\ Alive(w) /\ deaths < MaxDeaths /\ deaths' = deaths + 1
    /\ proc' = [proc EXCEPT ![w] = "died"] /\ sig_recv' = [sig_recv EXCEPT ![0] = "CHLD"]
    /\ parent' = Wakes(parent, 0, "after")
    /\ UNCHANGED <<policy, kore_quit, last_sig, running, pid, ready, spawning, module, sent>>

\* Someone sends the parent a signal.
Sends(s) ==
    /\ parent # "gone" /\ sent < MaxSignals /\ sent' = sent + 1
    /\ sig_recv' = [sig_recv EXCEPT ![0] = s] /\ parent' = Wakes(parent, 0, "after")
    /\ UNCHANGED <<policy, kore_quit, last_sig, proc, running, pid, ready, spawning, module, deaths>>
-----------------------------------------------------------------------------
\* The parent's loop: while kore_quit is unset, last_sig = sig_recv.
Top ==
    /\ parent = "top"
    /\ last_sig' = IF kore_quit = "NONE" THEN sig_recv[0] ELSE last_sig
    /\ parent' = IF kore_quit # "NONE" THEN "quit"
                 ELSE IF sig_recv[0] # "none" THEN "handle" ELSE "poll"
    /\ UNCHANGED <<policy, kore_quit, sig_recv, proc, running, pid, ready, spawning, module, deaths, sent>>

\* kore_worker_dispatch_signal: to every worker with a pid, a dead one too.
\* Wrong variant: only a worker that waits is told.
ToldWaiting(s) == [p \in Procs |-> IF p # 0 /\ pid[p] = "yes" /\ proc[p] = "wait" THEN s ELSE sig_recv[p]]
Told(s) == [p \in Procs |-> IF p # 0 /\ pid[p] = "yes" /\ Alive(p) THEN s ELSE sig_recv[p]]
Woken == [w \in Workers |-> IF pid[w] = "yes" /\ Alive(w) THEN Wakes(proc[w], w, "sig") ELSE proc[w]]

\* The handled signal leaves the slot, unless another came in between.
Handled == IF sig_recv[0] = last_sig THEN "none" ELSE sig_recv[0]
AfterSignal == IF sig_recv[0] = last_sig THEN "poll" ELSE "top"

HandleHup ==
    /\ parent = "handle" /\ last_sig = "HUP" /\ spawning = 0
    /\ sig_recv' = [Told("HUP") EXCEPT ![0] = Handled] /\ proc' = Woken
    /\ module' = [module EXCEPT ![0] = @ + 1] /\ parent' = AfterSignal
    /\ UNCHANGED <<policy, kore_quit, last_sig, running, pid, ready, spawning, deaths, sent>>

HandleTerm ==
    /\ parent = "handle" /\ last_sig = "TERM" /\ spawning = 0
    /\ kore_quit' = "NORMAL" /\ sig_recv' = Told("TERM") /\ proc' = Woken /\ parent' = "top"
    /\ UNCHANGED <<policy, last_sig, running, pid, ready, spawning, module, deaths, sent>>

\* worker_reaper for one dead worker, from kore_worker_reap.
\* Wrong variant: the test of kore_quit is the wrong way round.
ReaperReplaces(w) ==
    /\ Zombie(w) /\ spawning = 0
    /\ IF proc[w] = "exited"
       THEN /\ running' = [running EXCEPT ![w] = 0] /\ pid' = [pid EXCEPT ![w] = "no"]
            /\ proc' = [proc EXCEPT ![w] = "reaped"]
            /\ UNCHANGED <<kore_quit, ready, spawning, sig_recv, module>>
       ELSE IF w # Keymgr /\ kore_quit # "NONE" THEN Spawn(w) /\ UNCHANGED kore_quit
       ELSE /\ running' = [running EXCEPT ![w] = 0] /\ proc' = [proc EXCEPT ![w] = "reaped"]
            /\ UNCHANGED <<kore_quit, pid, ready, spawning, sig_recv, module>>

worker_reaper(w) ==
    /\ Zombie(w) /\ spawning = 0
    /\ IF proc[w] = "exited"
       THEN /\ running' = [running EXCEPT ![w] = 0] /\ pid' = [pid EXCEPT ![w] = "no"]
            /\ proc' = [proc EXCEPT ![w] = "reaped"]
            /\ UNCHANGED <<kore_quit, ready, spawning, sig_recv, module>>
       ELSE IF w = Keymgr \/ policy = "terminate"
       THEN /\ running' = [running EXCEPT ![w] = 0] /\ pid' = [pid EXCEPT ![w] = "no"]
            /\ proc' = [proc EXCEPT ![w] = "reaped"] /\ kore_quit' = "FATAL"
            /\ UNCHANGED <<ready, spawning, sig_recv, module>>
       ELSE IF kore_quit = "NONE" THEN Spawn(w) /\ UNCHANGED kore_quit
       ELSE /\ running' = [running EXCEPT ![w] = 0] /\ proc' = [proc EXCEPT ![w] = "reaped"]
            /\ UNCHANGED <<kore_quit, pid, ready, spawning, sig_recv, module>>

\* kore_worker_reap goes on as long as waitpid finds one.
kore_worker_reap ==
    /\ parent = "after" \/ (parent = "handle" /\ last_sig = "CHLD")
    /\ \E w \in Workers : worker_reaper(w)
    /\ UNCHANGED <<policy, parent, last_sig, deaths, sent>>

Reaped ==
    /\ spawning = 0 /\ \A w \in Workers : ~ Zombie(w)
    /\ \/ parent = "after" /\ parent' = "top" /\ UNCHANGED sig_recv
       \/ /\ parent = "handle" /\ last_sig = "CHLD" /\ parent' = AfterSignal
          /\ sig_recv' = [sig_recv EXCEPT ![0] = Handled]
    /\ UNCHANGED <<policy, kore_quit, last_sig, proc, running, pid, ready, spawning, module, deaths, sent>>

\* The wait begins, whatever the slot has by now.
ParentWaits ==
    /\ parent = "poll" /\ parent' = "wait"
    /\ UNCHANGED <<policy, kore_quit, sig_recv, last_sig, proc, running, pid, ready, spawning, module, deaths, sent>>

\* The timer of the access log ends the wait; without one it takes a message.
\* Then the prune, the timers and kore_worker_reap.
ParentTimer ==
    /\ parent = "wait" /\ Timer = "yes" /\ parent' = "after"
    /\ UNCHANGED <<policy, kore_quit, sig_recv, last_sig, proc, running, pid, ready, spawning, module, deaths, sent>>
-----------------------------------------------------------------------------
\* The loop is left: SIGQUIT to all, kore_server_shutdown.
QuitAll ==
    /\ parent = "quit" /\ parent' = "shutdown" /\ sig_recv' = Told("QUIT") /\ proc' = Woken
    /\ UNCHANGED <<policy, kore_quit, last_sig, running, pid, ready, spawning, module, deaths, sent>>

\* kore_worker_shutdown: waitpid for each that runs, and the end of main.
\* Wrong variant: the parent does not wait for the keymgr.
ShutdownEarly ==
    /\ parent = "shutdown"
    /\ \/ \E w \in Workers : /\ running[w] = 1 /\ Zombie(w) /\ running' = [running EXCEPT ![w] = 0]
                             /\ pid' = [pid EXCEPT ![w] = "no"] /\ proc' = [proc EXCEPT ![w] = "reaped"]
                             /\ UNCHANGED parent
       \/ /\ \A w \in Workers \ {Keymgr} : running[w] = 0 /\ parent' = "gone"
          /\ UNCHANGED <<proc, running, pid>>
    /\ UNCHANGED <<policy, kore_quit, sig_recv, last_sig, ready, spawning, module, deaths, sent>>

kore_worker_shutdown ==
    /\ parent = "shutdown"
    /\ \/ \E w \in Workers : /\ running[w] = 1 /\ Zombie(w) /\ running' = [running EXCEPT ![w] = 0]
                             /\ pid' = [pid EXCEPT ![w] = "no"] /\ proc' = [proc EXCEPT ![w] = "reaped"]
                             /\ UNCHANGED parent
       \/ /\ \A w \in Workers : running[w] = 0 /\ parent' = "gone"
          /\ UNCHANGED <<proc, running, pid>>
    /\ UNCHANGED <<policy, kore_quit, sig_recv, last_sig, ready, spawning, module, deaths, sent>>

\* kore_shutdown in a worker: a message that ends the parent's wait.
kore_shutdown(w) ==
    /\ proc[w] = "sig" /\ w # Keymgr /\ parent = "wait" /\ parent' = "after" /\ kore_quit' = "NORMAL"
    /\ UNCHANGED <<policy, sig_recv, last_sig, proc, running, pid, ready, spawning, module, deaths, sent>>

ParentSteps ==
    \/ kore_worker_init \/ Top \/ HandleHup \/ HandleTerm \/ kore_worker_reap \/ Reaped \/ ParentWaits
    \/ ParentTimer \/ QuitAll \/ kore_worker_shutdown

Next ==
    \/ ParentSteps \/ SpawnDone \/ NotReady
    \/ \E w \in Workers : \/ kore_signal_setup(w) \/ kore_worker_started(w) \/ kore_shutdown(w)
                          \/ WorkerWaits(w) \/ WorkerEvent(w) \/ WorkerSignal(w)
                          \/ ChildOfWorker(w) \/ Dies(w)
    \/ Sends("HUP") \/ Sends("TERM")

Spec == Init /\ [][Next]_vars

\* The processes are scheduled; a worker that is forked gets ready or dies.
FairSpec ==
    /\ Spec /\ WF_vars(ParentSteps) /\ WF_vars(SpawnDone \/ NotReady)
    /\ \A w \in Workers : /\ WF_vars(kore_signal_setup(w) \/ kore_worker_started(w))
                          /\ WF_vars(WorkerWaits(w) \/ WorkerSignal(w))
-----------------------------------------------------------------------------
\* The parent does not leave a process behind, does not lose track of one
\* that it has not waited for, and starts none once it is quitting: the slot
\* of a process that ended is given to a new one only while the loop runs.
NoneLeftBehind ==
    /\ parent = "gone" => \A w \in Workers : ~ Alive(w) /\ ~ Zombie(w)
    /\ \A w \in Workers : Alive(w) => running[w] = 1 /\ pid[w] = "yes"

\* SIGHUP reaches every worker: one that still has an older module than the
\* parent has the signal in its slot, or one that tells it to go.  (Children
\* = "no": a SIGCHLD of its own takes the slot, and the reload is lost.)
ReloadReaches ==
    \A w \in Workers \ {Keymgr} :
        Serves(w) /\ module[w] # module[0] => sig_recv[w] \in {"HUP", "TERM", "QUIT"}

\* Why NoneLeftBehind holds: running is set for all that was forked and not
\* waited for, and the parent ends when it is set for none.
Tracked ==
    /\ \A w \in Workers : Alive(w) \/ Zombie(w) => running[w] = 1
    /\ \A w \in Workers : Alive(w) => pid[w] = "yes"
    /\ parent = "gone" => \A w \in Workers : running[w] = 0

\* Why ReloadReaches holds: the parent looks at SIGHUP only while no worker is
\* on its way to its loop, for kore_worker_spawn waits for it, and once that
\* wait has failed the parent quits.
SpawnAwaited ==
    /\ spawning # 0 => parent \in {"start", "after"} \/ (parent = "handle" /\ last_sig = "CHLD")
    /\ parent = "handle" => last_sig = "CHLD" \/ kore_quit = "NONE"
    /\ \A w \in Workers : proc[w] \in {"forked", "setup"} =>
          /\ ready[w] = 0
          /\ spawning = w \/ kore_quit # "NONE" \/ parent \in {"quit", "shutdown", "gone"}
          /\ module[w] = module[0]

Replaced(w) == Alive(w) \/ kore_quit # "NONE" \/ parent \in {"quit", "shutdown", "gone"}

\* worker_death_policy restart: a worker that dies is replaced, unless the
\* parent quits.
DeadReplaced == \A w \in Workers : proc[w] = "died" ~> Replaced(w)
=============================================================================
