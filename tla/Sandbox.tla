------------------------------- MODULE Sandbox ------------------------------
(***************************************************************************)
(* The sandbox engine (src/sandbox.c).  The parent loads the table from    *)
(* the database before it forks; each worker then has a table of its own,  *)
(* and they share the database and the process identifiers of the host.    *)
(* The mutex of a process is held for a part of a call only, so a call is  *)
(* one step for each part.  The five namespace descriptors of a sandbox    *)
(* are opened and closed together and are one descriptor here.             *)
(***************************************************************************)
EXTENDS Integers, Sequences, FiniteSets, FiniteSetsExt, SequencesExt

CONSTANTS
    Procs,       \* worker processes
    Callers,     \* threads that call the engine
    Home,        \* Home[c]: the process of thread c
    SandboxMax,  \* SANDBOX_MAX
    Ids,         \* sandbox identifiers: a bound on the sandboxes created
    Pids,        \* process identifiers of the host
    Recycles,    \* 1: the host gives a process identifier out again (a reboot, a wrap)
    NumFds,      \* descriptors of a process
    MaxCrashes,  \* bound: worker processes that die
    MaxFaults,   \* bound: db_save calls that fail (SQLITE_BUSY)
    MaxStops,    \* bound: times the server is stopped and started
    MaxOthers    \* bound: unrelated processes that start on the host

VARIABLES
    table,    \* s_table of each process, the parent included
    fds,      \* what each descriptor of a process refers to
    db,       \* the rows of the table sandboxes, in the order of insertion
    host,     \* what runs under each process identifier
    spent,    \* the process identifiers given out so far
    up,       \* the worker processes that run
    server,   \* "on" or "off": the parent process
    pc, arg,  \* where each thread is, and its local variables
    fresh,    \* the identifiers gen_uuid has not returned yet
    own,      \* history: the sandboxes each process created and still keeps
    lost,     \* history: holders whose creation was cut short or not saved
    budget    \* what is left of the bounds

hostVars == <<host, spent>>
callVars == <<pc, arg>>
history == <<own, lost>>
vars == <<table, fds, db, hostVars, up, server, callVars, fresh, history, budget>>

All == Procs \cup {"parent"}
SandboxSlots == 1 .. SandboxMax
Fds == 1 .. NumFds
Row == [id : Ids, pid : Pids]
Entry == [id : Ids \cup {"none"}, pid : Pids \cup {"none"}, fd : 0 .. NumFds]
Stopped == [id |-> "none", pid |-> "none", fd |-> 0]
Local == [slot : 0 .. SandboxMax, id : Ids \cup {"none"},
          pid : Pids \cup {"none"}, fd : 0 .. NumFds]
NoLocal == [slot |-> 0, id |-> "none", pid |-> "none", fd |-> 0]
Places == {"idle", "clone", "publish", "fork", "read", "kill"}

TypeOK ==
    /\ table \in [All -> [SandboxSlots -> Entry]]
    /\ fds \in [All -> [Fds -> Ids \cup {"none", "other"}]]
    /\ db \in Seq(Row)
    /\ host \in [Pids -> Ids \cup {"none", "other"}]
    /\ spent \subseteq Pids
    /\ up \subseteq Procs /\ server \in {"on", "off"}
    /\ pc \in [Callers -> Places] /\ arg \in [Callers -> Local]
    /\ fresh \subseteq Ids /\ lost \subseteq Ids
    /\ own \in [Procs -> SUBSET Ids]
    /\ budget \in [crash : 0 .. MaxCrashes, fault : 0 .. MaxFaults,
                   stop : 0 .. MaxStops, other : 0 .. MaxOthers]

Init ==
    /\ table = [p \in All |-> [s \in SandboxSlots |-> Stopped]]
    /\ fds = [p \in All |-> [f \in Fds |-> "none"]]
    /\ db = << >> /\ host = [p \in Pids |-> "none"] /\ spent = {}
    /\ up = Procs /\ server = "on"
    /\ pc = [c \in Callers |-> "idle"] /\ arg = [c \in Callers |-> NoLocal]
    /\ fresh = Ids /\ lost = {} /\ own = [p \in Procs |-> {}]
    /\ budget = [crash |-> MaxCrashes, fault |-> MaxFaults,
                 stop |-> MaxStops, other |-> MaxOthers]
-----------------------------------------------------------------------------
\* The host starts a process.
Starts(p, who) ==
    /\ host[p] = "none" /\ (p \in spent => Recycles = 1)
    /\ host' = [host EXCEPT ![p] = who]
    /\ spent' = spent \cup {p}

Ready(tab) == {s \in SandboxSlots : tab[s] # Stopped}

\* The slot of sandbox i in table tab, 0 if there is none.
SlotOf(tab, i) == Min({s \in SandboxSlots : tab[s].id = i} \cup {SandboxMax + 1}) % (SandboxMax + 1)

At(c, place) == Home[c] \in up /\ pc[c] = place

Goto(c, place, local) ==
    /\ pc' = [pc EXCEPT ![c] = place]
    /\ arg' = [arg EXCEPT ![c] = local]

Return(c) == Goto(c, "idle", NoLocal)

\* sandbox_create, first critical section: a slot is chosen, not taken.
CreatePick(c) ==
    /\ At(c, "idle") /\ fresh # {}
    /\ Ready(table[Home[c]]) # SandboxSlots
    /\ Goto(c, "clone", [NoLocal EXCEPT !.slot = Min(SandboxSlots \ Ready(table[Home[c]]))])
    /\ UNCHANGED <<table, fds, db, hostVars, up, server, fresh, history, budget>>

\* sandbox_create without the mutex: the holder is started, then its
\* namespaces are opened with the lowest free descriptor.
CreateClone(c, i, p) ==
    LET free == {f \in Fds : fds[Home[c]][f] = "none"}
    IN  /\ At(c, "clone") /\ free # {}
        /\ i \in fresh
        /\ fresh' = fresh \ {i}
        /\ Starts(p, i)
        /\ fds' = [fds EXCEPT ![Home[c]][Min(free)] = i]
        /\ Goto(c, "publish", [arg[c] EXCEPT !.id = i, !.pid = p, !.fd = Min(free)])
        /\ UNCHANGED <<table, db, up, server, history, budget>>

\* pipe2, malloc, clone or the holder's start fails.
CreateFail(c) ==
    /\ At(c, "clone")
    /\ Return(c)
    /\ UNCHANGED <<table, fds, db, hostVars, up, server, fresh, history, budget>>

\* sandbox_create, second critical section.  The result of db_save is ignored.
CreatePublish(c, saved) ==
    LET a == arg[c]
    IN  /\ At(c, "publish")
        /\ saved = 0 => budget.fault > 0
        /\ table' = [table EXCEPT ![Home[c]][a.slot] =
                       [id |-> a.id, pid |-> a.pid, fd |-> a.fd]]
        /\ IF saved = 1
           THEN db' = Append(db, [id |-> a.id, pid |-> a.pid]) /\ UNCHANGED <<lost, budget>>
           ELSE /\ lost' = lost \cup {a.id}
                /\ budget' = [budget EXCEPT !.fault = @ - 1]
                /\ UNCHANGED db
        /\ own' = [own EXCEPT ![Home[c]] = @ \cup {a.id}]
        /\ Return(c)
        /\ UNCHANGED <<fds, hostVars, up, server, fresh>>

\* sandbox_exec: the entry is copied under the mutex.
ExecLookup(c, i) ==
    LET s == SlotOf(table[Home[c]], i)
    IN  /\ At(c, "idle") /\ s # 0
        /\ Goto(c, "fork", [NoLocal EXCEPT !.id = i, !.fd = table[Home[c]][s].fd])
        /\ UNCHANGED <<table, fds, db, hostVars, up, server, fresh, history, budget>>

\* The child enters the namespaces of the copied descriptor and runs the
\* program; it exits with 127 when the descriptor is closed or the process
\* namespace has lost its first process.
Entered(c) ==
    LET ns == fds[Home[c]][arg[c].fd]
    IN  IF \E p \in Pids : host[p] = ns THEN ns ELSE "none"

ExecFork(c) ==
    /\ At(c, "fork")
    /\ Goto(c, "read", NoLocal)
    /\ UNCHANGED <<table, fds, db, hostVars, up, server, fresh, history, budget>>

\* The pipe is at its end and waitpid returns.
ExecDone(c) ==
    /\ At(c, "read")
    /\ Return(c)
    /\ UNCHANGED <<table, fds, db, hostVars, up, server, fresh, history, budget>>

\* sandbox_destroy under the mutex: the descriptors are closed, the slot is
\* free, the row is deleted.
\* Wrong variant: the slot stays ready.
DestroyCloses(c, i) ==
    LET h == Home[c]
        s == SlotOf(table[h], i)
    IN  /\ At(c, "idle") /\ s # 0
        /\ fds' = [fds EXCEPT ![h][table[h][s].fd] = "none"]
        /\ db' = SelectSeq(db, LAMBDA r : r.id # i)
        /\ own' = [own EXCEPT ![h] = @ \ {i}]
        /\ Goto(c, "kill", [NoLocal EXCEPT !.id = i, !.pid = table[h][s].pid])
        /\ UNCHANGED <<table, hostVars, up, server, fresh, lost, budget>>

DestroyRemove(c, i) ==
    LET h == Home[c]
        s == SlotOf(table[h], i)
    IN  /\ At(c, "idle") /\ s # 0
        /\ fds' = [fds EXCEPT ![h][table[h][s].fd] = "none"]
        /\ table' = [table EXCEPT ![h][s] = Stopped]
        /\ db' = SelectSeq(db, LAMBDA r : r.id # i)
        /\ own' = [own EXCEPT ![h] = @ \ {i}]
        /\ Goto(c, "kill", [NoLocal EXCEPT !.id = i, !.pid = table[h][s].pid])
        /\ UNCHANGED <<hostVars, up, server, fresh, lost, budget>>

DestroyKill(c) ==
    /\ At(c, "kill")
    /\ host' = [host EXCEPT ![arg[c].pid] = "none"]
    /\ Return(c)
    /\ UNCHANGED <<spent, table, fds, db, up, server, fresh, history, budget>>
-----------------------------------------------------------------------------
\* A process is gone with its table, descriptors and threads; the holders
\* it started live on.
Die(p) ==
    LET cut == {c \in Callers : Home[c] = p /\ pc[c] \in {"publish", "kill"}}
    IN  /\ up' = up \ {p}
        /\ table' = [table EXCEPT ![p] = [s \in SandboxSlots |-> Stopped]]
        /\ fds' = [fds EXCEPT ![p] = [f \in Fds |-> "none"]]
        /\ own' = [own EXCEPT ![p] = {}]
        /\ lost' = lost \cup {arg[c].id : c \in cut}
        /\ pc' = [c \in Callers |-> IF Home[c] = p THEN "idle" ELSE pc[c]]
        /\ arg' = [c \in Callers |-> IF Home[c] = p THEN NoLocal ELSE arg[c]]

Crash(p) ==
    /\ p \in up /\ budget.crash > 0
    /\ Die(p)
    /\ budget' = [budget EXCEPT !.crash = @ - 1]
    /\ UNCHANGED <<db, hostVars, server, fresh>>

\* sandbox_exec has called alarm(); nothing handles SIGALRM.
ExecAlarm(c) ==
    /\ At(c, "read") /\ budget.crash > 0
    /\ Die(Home[c])
    /\ budget' = [budget EXCEPT !.crash = @ - 1]
    /\ UNCHANGED <<db, hostVars, server, fresh>>

\* The parent forks a worker, which starts with the parent's table and
\* descriptors.
Respawn(p) ==
    /\ server = "on" /\ p \notin up
    /\ up' = up \cup {p}
    /\ table' = [table EXCEPT ![p] = table["parent"]]
    /\ fds' = [fds EXCEPT ![p] = fds["parent"]]
    /\ UNCHANGED <<db, hostVars, server, callVars, fresh, history, budget>>

\* The workers finish what they do and exit; sandbox_module_shutdown closes
\* the descriptors of the parent.
Stop ==
    /\ server = "on" /\ budget.stop > 0
    /\ \A c \in Callers : pc[c] = "idle"
    /\ server' = "off"
    /\ budget' = [budget EXCEPT !.stop = @ - 1]
    /\ up' = {}
    /\ table' = [p \in All |-> [s \in SandboxSlots |-> Stopped]]
    /\ fds' = [p \in All |-> [f \in Fds |-> "none"]]
    /\ own' = [p \in Procs |-> {}]
    /\ UNCHANGED <<db, hostVars, callVars, fresh, lost>>

\* db_load_all keeps a row whose process exists, whatever process that is, and
\* stops when the table is full.
Exists(r) == host[r.pid] # "none"

Examined ==
    LET full == {n \in 1 .. Len(db) : Len(SelectSeq(SubSeq(db, 1, n), Exists)) = SandboxMax}
    IN  Min(full \cup {Len(db)})

\* sandbox_module_init in the parent, which then forks the workers.
Start ==
    LET rows == SelectSeq(SubSeq(db, 1, Examined), Exists)
        tab == [s \in SandboxSlots |-> IF s > Len(rows) THEN Stopped
                                ELSE [id |-> rows[s].id, pid |-> rows[s].pid, fd |-> s]]
        open == [f \in Fds |-> IF f > Len(rows) THEN "none" ELSE host[rows[f].pid]]
    IN  /\ server = "off"
        /\ server' = "on"
        /\ up' = Procs
        /\ db' = rows \o SubSeq(db, Examined + 1, Len(db))
        /\ table' = [p \in All |-> tab]
        /\ fds' = [p \in All |-> open]
        /\ UNCHANGED <<hostVars, callVars, fresh, history, budget>>

\* The host: a holder nobody waits for ends, another process starts.
HolderDies(p) ==
    /\ host[p] \in Ids \ UNION {own[q] : q \in Procs}
    /\ \A c \in Callers : arg[c].pid # p
    /\ host' = [host EXCEPT ![p] = "none"]
    /\ UNCHANGED <<spent, table, fds, db, up, server, callVars, fresh, history, budget>>

OtherStarts(p) ==
    /\ budget.other > 0
    /\ Starts(p, "other")
    /\ budget' = [budget EXCEPT !.other = @ - 1]
    /\ UNCHANGED <<table, fds, db, up, server, callVars, fresh, history>>
-----------------------------------------------------------------------------
Call(c) ==
    \/ CreatePick(c) \/ CreateFail(c)
    \/ \E i \in Ids, p \in Pids : CreateClone(c, i, p)
    \/ \E saved \in {0, 1} : CreatePublish(c, saved)
    \/ ExecFork(c) \/ ExecDone(c) \/ ExecAlarm(c)
    \/ \E i \in Ids : ExecLookup(c, i) \/ DestroyRemove(c, i)
    \/ DestroyKill(c)

Next ==
    \/ \E c \in Callers : Call(c)
    \/ \E p \in Procs : Crash(p) \/ Respawn(p)
    \/ Stop \/ Start
    \/ \E p \in Pids : HolderDies(p) \/ OtherStarts(p)

Spec == Init /\ [][Next]_vars
-----------------------------------------------------------------------------
\* In every process the sandboxes of the table are distinct, each with a
\* descriptor of its own that is open on its namespaces.
TableSound ==
    \A p \in All : \A s, t \in Ready(table[p]) :
        /\ fds[p][table[p][s].fd] = table[p][s].id
        /\ s # t => /\ table[p][s].id # table[p][t].id
                    /\ table[p][s].fd # table[p][t].fd

\* A program runs in the namespaces of the sandbox it was asked to run in, or
\* not at all.
ExecInside ==
    \A c \in Callers : pc[c] = "fork" => Entered(c) \in {arg[c].id, "none"}

\* A holder that runs is in the database, or a call is about to put it there
\* or to kill it; else a crash cut that call short, or db_save failed.
HolderRecorded ==
    \A p \in Pids : host[p] \in Ids \ lost =>
        \/ \E n \in DOMAIN db : db[n] = [id |-> host[p], pid |-> p]
        \/ \E c \in Callers : pc[c] \in {"publish", "kill"} /\ arg[c].pid = p

\* sandbox_destroy "Sends SIGKILL to the holder", and to nothing else.
KillsHolder ==
    \A c \in Callers : pc[c] = "kill" => host[arg[c].pid] \in {arg[c].id, "none"}
=============================================================================
