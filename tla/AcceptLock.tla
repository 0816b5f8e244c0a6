----------------------------- MODULE AcceptLock -----------------------------
(***************************************************************************)
(* The accept lock of the Kore worker processes (src/worker.c) and the     *)
(* parent that watches over them.  A worker polls the listening sockets    *)
(* only while it owns the lock, a word of shared memory taken by           *)
(* compare-and-swap; it gives the lock up when it is full, or when it has  *)
(* accepted worker_accept_threshold connections in one go, and tells the   *)
(* others with KORE_MSG_ACCEPT_AVAILABLE, which the parent relays.         *)
(*                                                                         *)
(* Workers crash at any point.  The parent reaps them and starts new ones. *)
(* ACCEPT_AVAILABLE only sets a flag, so a pipe holds it or does not.      *)
(* With a single worker (WORKER_SOLO_COUNT) the lock is not used.          *)
(***************************************************************************)
EXTENDS Integers, FiniteSets

CONSTANTS
    Workers,      \* the worker processes that accept, by their slot
    Pids,         \* process identifiers
    MaxConns,     \* worker_max_connections
    Threshold,    \* worker_accept_threshold, not 0
    Wrap,         \* 2^32: worker_active_connections is a u_int32_t
    Policies,     \* the values worker_death_policy can have
    MaxCrashes    \* bound: number of worker crashes

ASSUME AcceptLockAssumption ==
    /\ IsFiniteSet(Workers) /\ Cardinality(Workers) > 1
    /\ 0 \notin Pids
    /\ MaxConns \in Nat \ {0} /\ Threshold \in Nat \ {0}
    /\ Wrap \in Nat /\ MaxConns + 1 < Wrap
    /\ Policies \subseteq {"restart", "terminate"}
    /\ MaxCrashes \in Nat

VARIABLES
    lock,       \* accept_lock->lock
    current,    \* accept_lock->current, a pid
    pid,        \* kw->pid of each slot
    hasLock,    \* the slots with kw->has_lock = 1
    pc,         \* where each worker process is in kore_worker_entry
    ret,        \* where worker_unlock returns to
    avail,      \* the workers with accept_avail = 1
    listening,  \* the workers with had_lock = 1: listeners are in epoll
    active,     \* worker_active_connections
    clients,    \* history: client connections a worker really has
    inbox,      \* the workers with ACCEPT_AVAILABLE in their pipe
    outbox,     \* the workers whose ACCEPT_AVAILABLE the parent has to relay
    linked,     \* the workers whose message connection is open
    closing,    \* the workers that have yet to prune that connection
    httpFull,   \* the workers at http_request_limit
    parent,     \* "up", "quit" (kore_quit is set) or "dead"
    policy,     \* worker_policy
    crashes     \* number of crashes so far

lockVars == <<lock, current, hasLock>>
msgVars == <<avail, inbox, outbox, linked>>
connVars == <<active, clients, closing, httpFull>>
parentVars == <<pid, parent, policy, crashes>>
vars == <<lockVars, pc, ret, listening, msgVars, connVars, parentVars>>

Code == {"top", "locked", "poll", "batch", "unlock", "unlocked", "announce",
         "after"}
Alive(w) == pc[w] \in Code

TypeOK ==
    /\ lock \in {0, 1} /\ current \in Pids \cup {0}
    /\ pid \in [Workers -> Pids \cup {0}]
    /\ pc \in [Workers -> Code \cup {"crashed", "gone"}]
    /\ ret \in [Workers -> {"batch", "after"}]
    /\ hasLock \subseteq Workers /\ listening \subseteq Workers
    /\ avail \subseteq Workers /\ inbox \subseteq Workers
    /\ outbox \subseteq Workers /\ linked \subseteq Workers
    /\ closing \subseteq Workers /\ httpFull \subseteq Workers
    /\ active \in [Workers -> 0 .. Wrap - 1] /\ clients \in [Workers -> Nat]
    /\ parent \in {"up", "quit", "dead"} /\ policy \in Policies
    /\ crashes \in 0 .. MaxCrashes

Init ==
    /\ lock = 0 /\ current = 0
    /\ pid \in [Workers -> Pids]
    /\ \A v, w \in Workers : pid[v] = pid[w] => v = w
    /\ pc = [w \in Workers |-> "top"] /\ ret = [w \in Workers |-> "batch"]
    /\ hasLock = {} /\ listening = {} /\ avail = Workers
    /\ inbox = {} /\ outbox = {} /\ linked = Workers
    /\ closing = {} /\ httpFull = {}
    /\ active = [w \in Workers |-> 0] /\ clients = [w \in Workers |-> 0]
    /\ parent = "up" /\ policy \in Policies /\ crashes = 0

Goto(w, l) == pc' = [pc EXCEPT ![w] = l]
Full(w) == active[w] >= MaxConns \/ w \in httpFull
-----------------------------------------------------------------------------
(***************************************************************************)
(* The worker process: one round of the loop of kore_worker_entry.         *)
(***************************************************************************)

\* The compare-and-swap of worker_trylock.  Wrong variant: a plain store.
TryLockStore == lock' = 1
TryLock == lock = 0 /\ lock' = 1

\* Take the lock if it may be taken, otherwise go on to epoll_wait.
LoopTop(w) ==
    /\ pc[w] = "top"
    /\ \/ /\ w \notin hasLock /\ w \in avail /\ ~Full(w)
          /\ TryLock
          /\ Goto(w, "locked")
       \/ /\ w \in hasLock \/ w \notin avail \/ Full(w) \/ lock = 1
          /\ Goto(w, "poll")
          /\ UNCHANGED lock
    /\ UNCHANGED <<current, hasLock, ret, listening, msgVars, connVars,
                   parentVars>>

\* The rest of worker_trylock and of worker_acceptlock_obtain, and
\* kore_platform_enable_accept.
LockTaken(w) ==
    /\ pc[w] = "locked"
    /\ current' = pid[w] /\ hasLock' = hasLock \cup {w}
    /\ avail' = avail \ {w} /\ listening' = listening \cup {w}
    /\ Goto(w, "poll")
    /\ UNCHANGED <<lock, ret, inbox, outbox, linked, connVars, parentVars>>

\* epoll_wait returns with events.
Wake(w) ==
    /\ pc[w] = "poll"
    /\ Goto(w, "batch")
    /\ UNCHANGED <<lockVars, ret, listening, msgVars, connVars, parentVars>>

\* worker_accept_avail: ACCEPT_AVAILABLE is received.
AcceptAvail(w) ==
    /\ pc[w] = "batch" /\ w \in inbox \cap linked
    /\ inbox' = inbox \ {w} /\ avail' = avail \cup {w}
    /\ UNCHANGED <<lockVars, pc, ret, listening, outbox, linked, connVars,
                   parentVars>>

\* kore_worker_make_busy: give the lock up if this worker has it.
MakeBusy(w) ==
    IF w \in hasLock THEN Goto(w, "unlock") ELSE UNCHANGED pc

\* The test that lets kore_listener_accept go on.  Wrong variant: one more.
RoomForOver(w, n) == active[w] + n <= MaxConns
RoomFor(w, n) == active[w] + n < MaxConns

\* kore_listener_accept on one listener: n connections are accepted, until
\* none waits, the worker is full or the threshold is reached.
ListenerAccept(w) ==
    /\ pc[w] = "batch" /\ w \in listening
    /\ \E n \in 1 .. Threshold :
         /\ RoomFor(w, n - 1)
         /\ active' = [active EXCEPT ![w] = @ + n]
         /\ clients' = [clients EXCEPT ![w] = @ + n]
         /\ IF n = Threshold /\ RoomFor(w, n)
            THEN MakeBusy(w) ELSE UNCHANGED pc
    /\ UNCHANGED <<lockVars, ret, listening, msgVars, closing, httpFull,
                   parentVars>>

\* Requests arrive on the connections until http_request_limit is reached.
RequestsArrive(w) ==
    /\ pc[w] = "batch" /\ clients[w] > 0
    /\ httpFull' = httpFull \cup {w}
    /\ UNCHANGED <<lockVars, pc, ret, listening, msgVars, active, clients,
                   closing, parentVars>>

\* The parent is gone: the worker's message connection is disconnected.
LoseParent(w) ==
    /\ pc[w] = "batch" /\ w \in linked /\ parent = "dead"
    /\ linked' = linked \ {w} /\ closing' = closing \cup {w}
    /\ UNCHANGED <<lockVars, pc, ret, listening, avail, inbox, outbox, active,
                   clients, httpFull, parentVars>>

\* worker_unlock, first half: accept_lock->current = 0.
ClearCurrent(w) ==
    /\ pc[w] = "unlock"
    /\ current' = 0
    /\ Goto(w, "unlocked")
    /\ UNCHANGED <<lock, hasLock, ret, listening, msgVars, connVars, parentVars>>

\* worker_unlock, second half: the compare-and-swap; then has_lock = 0.
ReleaseLock(w) ==
    /\ pc[w] = "unlocked"
    /\ lock' = 0 /\ hasLock' = hasLock \ {w}
    /\ Goto(w, "announce")
    /\ UNCHANGED <<current, ret, listening, msgVars, connVars, parentVars>>

\* kore_msg_send(KORE_MSG_WORKER_ALL, KORE_MSG_ACCEPT_AVAILABLE).
\* Wrong variant: nobody is told.
AnnounceNothing(w) ==
    /\ pc[w] = "announce"
    /\ Goto(w, ret[w]) /\ ret' = [ret EXCEPT ![w] = "batch"]
    /\ UNCHANGED <<lockVars, listening, msgVars, connVars, parentVars>>

Announce(w) ==
    /\ pc[w] = "announce"
    /\ outbox' = IF w \in linked THEN outbox \cup {w} ELSE outbox
    /\ Goto(w, ret[w]) /\ ret' = [ret EXCEPT ![w] = "batch"]
    /\ UNCHANGED <<lockVars, listening, avail, inbox, linked, connVars,
                   parentVars>>

\* kore_connection_prune: n clients and, when it was lost, the message
\* connection are removed; worker_active_connections counts both.
Prune(w, n) ==
    /\ clients' = [clients EXCEPT ![w] = @ - n]
    /\ active' = [active EXCEPT ![w] =
                    (@ - n - (IF w \in closing THEN 1 ELSE 0)) % Wrap]
    /\ closing' = closing \ {w}

\* After epoll_wait: worker_acceptlock_release gives the lock up when full;
\* without the lock the listeners are disabled; http_process and
\* kore_connection_prune run.  Wrong variant: the listeners stay enabled.
AfterKeepsListening(w) ==
    /\ pc[w] \in {"batch", "after"}
    /\ Goto(w, "top")
    /\ UNCHANGED <<lockVars, ret, listening, msgVars, connVars, parentVars>>

After(w) ==
    /\ pc[w] \in {"batch", "after"}
    /\ \/ /\ w \in hasLock /\ Full(w)
          /\ Goto(w, "unlock") /\ ret' = [ret EXCEPT ![w] = "after"]
          /\ UNCHANGED <<listening, connVars>>
       \/ /\ w \notin hasLock \/ ~Full(w)
          /\ listening' = IF w \in hasLock THEN listening ELSE listening \ {w}
          /\ httpFull' \in {httpFull, httpFull \ {w}}
          /\ \E n \in 0 .. clients[w] : Prune(w, n)
          /\ Goto(w, "top")
          /\ UNCHANGED ret
    /\ UNCHANGED <<lockVars, msgVars, parentVars>>

Loop(w) == LoopTop(w) \/ LockTaken(w) \/ ClearCurrent(w) \/ ReleaseLock(w)
             \/ Announce(w) \/ After(w)

Events(w) == Wake(w) \/ AcceptAvail(w) \/ ListenerAccept(w)
               \/ RequestsArrive(w) \/ LoseParent(w)
-----------------------------------------------------------------------------
(***************************************************************************)
(* Crashes, and the parent.                                                *)
(***************************************************************************)

\* The process dies on a signal; its sockets and its pipe are gone.
Crash(w) ==
    /\ Alive(w) /\ crashes < MaxCrashes
    /\ crashes' = crashes + 1
    /\ Goto(w, "crashed")
    /\ clients' = [clients EXCEPT ![w] = 0] /\ inbox' = inbox \ {w}
    /\ UNCHANGED <<lockVars, ret, listening, avail, outbox, linked, active,
                   closing, httpFull, pid, parent, policy>>

\* msg_recv_data in the parent: the message goes to every worker's pipe.
\* net_recv_flush(kw->msg[0]) of the reaper does it for a worker that is gone.
Deliver(w) ==
    /\ outbox' = outbox \ {w}
    /\ inbox' = IF w \in outbox THEN inbox \cup {v \in linked : Alive(v)}
                               ELSE inbox

Relay(w) ==
    /\ parent = "up" /\ w \in outbox
    /\ Deliver(w)
    /\ UNCHANGED <<lockVars, pc, ret, listening, avail, linked, connVars,
                   parentVars>>

\* worker_unlock reads worker->no_accept and worker is NULL in the parent:
\* the parent dies when it reaps the worker that holds the lock.
ReapHolder(w) ==
    /\ parent = "up" /\ pc[w] = "crashed" /\ current = pid[w]
    /\ Deliver(w)
    /\ parent' = "dead"
    /\ UNCHANGED <<lockVars, pc, ret, listening, avail, linked, connVars, pid,
                   policy, crashes>>

Fork(w) == \E p \in Pids : /\ \A v \in Workers : pid[v] # p
                            /\ pid' = [pid EXCEPT ![w] = p]

\* worker_reaper under the policy "restart": kore_worker_spawn starts a new
\* process in slot w, which enters kore_worker_entry.
Restart(w) ==
    /\ parent = "up" /\ pc[w] = "crashed" /\ current # pid[w]
    /\ policy = "restart"
    /\ Deliver(w)
    /\ Fork(w)
    /\ hasLock' = hasLock \ {w} /\ listening' = listening \ {w}
    /\ avail' = avail \cup {w} /\ httpFull' = httpFull \ {w}
    /\ active' = [active EXCEPT ![w] = 0]
    /\ Goto(w, "top") /\ ret' = [ret EXCEPT ![w] = "batch"]
    /\ UNCHANGED <<lock, current, linked, clients, closing, parent, policy,
                   crashes>>

\* worker_reaper under the policy "terminate", or a new process that does not
\* become ready in time: kore_quit is set.
ReapQuit(w) ==
    /\ parent = "up" /\ pc[w] = "crashed" /\ current # pid[w]
    /\ Deliver(w)
    /\ \/ policy = "terminate" /\ pid' = [pid EXCEPT ![w] = 0]
       \/ policy = "restart" /\ Fork(w)
    /\ parent' = "quit"
    /\ Goto(w, "gone")
    /\ UNCHANGED <<lockVars, ret, listening, avail, linked, connVars, policy,
                   crashes>>

ParentStep(w) == Relay(w) \/ ReapHolder(w) \/ Restart(w) \/ ReapQuit(w)
-----------------------------------------------------------------------------
Next == \E w \in Workers : Loop(w) \/ Events(w) \/ Crash(w) \/ ParentStep(w)

Spec == Init /\ [][Next]_vars

\* Processes are scheduled; epoll_wait reports a message that waits.
Fairness ==
    \A w \in Workers :
        /\ WF_vars(Loop(w)) /\ WF_vars(w \in inbox /\ Wake(w))
        /\ SF_vars(AcceptAvail(w)) /\ WF_vars(Relay(w))
        /\ WF_vars(ReapHolder(w) \/ Restart(w))

FairSpec == Spec /\ Fairness
-----------------------------------------------------------------------------
(***************************************************************************)
(* Properties.                                                             *)
(***************************************************************************)

\* The processes that own the lock: from the compare-and-swap that took it
\* to the one that gives it back.
Owners == {w \in Workers : Alive(w) /\ (pc[w] = "locked" \/ w \in hasLock)}

\* At most one process owns the lock, and while one does the word is set,
\* whatever crashes, restarts and releases happen (worker_trylock).
MutualExclusion ==
    /\ \A v, w \in Owners : v = w
    /\ Owners # {} => lock = 1

\* accept_lock->current tells the parent who holds the lock: it names the
\* owner that has settled, and when it names a crashed worker nobody owns the
\* lock, so that taking it back (worker_reaper) would be right.
CurrentNamesOwner ==
    /\ \A w \in Owners : pc[w] \notin {"locked", "unlocked"} => current = pid[w]
    /\ \A w \in Workers : pc[w] = "crashed" /\ current = pid[w] => Owners = {}

\* Two processes never wait on the listening sockets at the same time:
\* listeners are in epoll only while the lock is held.
PollExclusive ==
    \A v, w \in listening : pc[v] = "poll" /\ pc[w] = "poll" => v = w

\* What the three invariants above rest on: the parts of the lock's state in
\* shared memory and in the processes agree.
LockAgrees ==
    /\ \A w \in Workers :
         /\ pc[w] = "locked" => w \notin hasLock
         /\ pc[w] \in {"unlock", "unlocked"} => w \in hasLock
         /\ w \in listening /\ pc[w] \in {"top", "locked", "poll"} => w \in hasLock
         /\ pc[w] # "gone" => pid[w] # 0
         /\ \A v \in Workers : pid[v] = pid[w] /\ pid[v] # 0 => v = w
    /\ current # 0 =>
         /\ lock = 1
         /\ \E w \in hasLock : pid[w] = current /\ pc[w] \notin {"unlocked", "gone"}

\* The inductive invariant.
LockInv == LockAgrees /\ MutualExclusion /\ CurrentNamesOwner /\ PollExclusive

\* A worker never has more clients than worker_max_connections.  The message
\* connection is counted down but never up, which costs one when it is lost.
ClientsBounded ==
    \A w \in Workers : clients[w] <= MaxConns + (IF parent = "dead" THEN 1 ELSE 0)

\* As long as a worker has room, somebody owns the lock again: the free lock
\* is announced to a worker that is able to take it.
LockTakenAgain ==
    \A w \in Workers : Owners = {} /\ ~Full(w) ~> Owners # {} \/ Full(w)

\* kore.conf says of a worker that dies: "the worker process is automatically
\* restarted".
RestartHappens ==
    policy = "restart" =>
        \A w \in Workers : pc[w] = "crashed" ~> pc[w] # "crashed"
=============================================================================
