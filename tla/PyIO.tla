-------------------------------- MODULE PyIO --------------------------------
(***************************************************************************)
(* kore.proc and the socket operations of the Python runtime               *)
(* (src/python.c): a coroutine that starts a process, reads from its       *)
(* stdout and writes to its stdin through pipes watched edge triggered,    *)
(* with timeouts, and waits for its end, in the order of the worker's loop *)
(* (src/worker.c): events, signals, timers, coroutines.                    *)
(***************************************************************************)
EXTENDS Integers, FiniteSets

CONSTANTS
    Modes,      \* "plain", "timeouts": recv() and kore.proc() are given a timeout,
                \* "others": other children of the worker end as well
    Cap,        \* chunks that a pipe holds
    MaxMoves    \* bound: chunks that the process writes or reads

ASSUME PipeBounds == Cap \in Nat /\ MaxMoves \in Nat

Chans == {"out", "in"}  \* proc->out, proc->in

VARIABLES
    mode,       \* what this application does
    phase,      \* of the loop: "events", "signals", "sigdone", "timers", "coros"
    child,      \* the process: "none", "running", "zombie", "gone"
    ready,      \* what each pipe has: chunks to read, or room to write
    edge,       \* the pipes with a change that epoll has not reported
    flag,       \* evt.flags: the pipes with KORE_EVENT_READ, or WRITE, set
    scheduled,  \* the pipes that are registered
    op,         \* recvop, sendop: "none", "active", "eof"
    armed,      \* timers: "recv" (op->timer), "proc" (proc->timer)
    sig_recv,   \* "none" or "CHLD"
    sig,        \* the copy that the loop works with
    reaped,     \* proc->reaped: "yes" or "no"
    coro,       \* "running", "out", "in", "reap" (awaiting), "sleep", "ended"
    woken,      \* the coroutine is runnable: "yes" or "no"
    exception,  \* coro->exception: "yes" or "no"
    broken,     \* the pipes whose end the coroutine has been told of by an error
    moves

moving == <<phase, child, ready, edge, flag, scheduled, op, armed, sig_recv, sig, reaped,
          coro, woken, exception, broken, moves>>

PyIOTypeOK ==
    /\ mode \in Modes
    /\ phase \in {"events", "signals", "sigdone", "timers", "coros"}
    /\ child \in {"none", "running", "zombie", "gone"}
    /\ ready \in [Chans -> 0 .. Cap] /\ edge \subseteq Chans /\ flag \subseteq Chans
    /\ scheduled \subseteq Chans /\ op \in [Chans -> {"none", "active", "eof"}]
    /\ armed \subseteq {"recv", "proc"} /\ sig_recv \in {"none", "CHLD"}
    /\ sig \in {"none", "CHLD"} /\ reaped \in {"yes", "no"}
    /\ coro \in {"running", "out", "in", "reap", "sleep", "ended"}
    /\ woken \in {"yes", "no"} /\ exception \in {"yes", "no"} /\ broken \subseteq Chans
    /\ moves \in 0 .. MaxMoves

PyIOInit ==
    /\ mode \in Modes
    /\ phase = "coros" /\ child = "none"
    /\ ready = [x \in Chans |-> IF x = "in" THEN Cap ELSE 0]
    /\ edge = {} /\ flag = {} /\ scheduled = {} /\ op = [x \in Chans |-> "none"]
    /\ armed = {} /\ sig_recv = "none" /\ sig = "none" /\ reaped = "no"
    /\ coro = "running" /\ woken = "no" /\ exception = "no" /\ broken = {} /\ moves = 0

Hup == child \in {"zombie", "gone"}   \* the other ends of the pipes are closed
Runs == phase = "coros" /\ coro = "running"
Awaits == coro \notin {"running", "ended"}
pyioVars == <<mode, moving>>
loop == <<phase, sig_recv, sig>>
pipes == <<ready, edge, flag, scheduled>>
-----------------------------------------------------------------------------
(* The process and the kernel. *)

\* The process writes a chunk, or reads one.
ChildMoves(x) ==
    /\ child = "running" /\ ready[x] < Cap /\ moves < MaxMoves /\ moves' = moves + 1
    /\ ready' = [ready EXCEPT ![x] = @ + 1] /\ edge' = edge \cup ({x} \cap scheduled)
    /\ UNCHANGED <<loop, child, flag, scheduled, op, armed, reaped, coro, woken, exception, broken>>

ChildExits ==
    /\ child = "running" /\ child' = "zombie" /\ sig_recv' = "CHLD"
    /\ edge' = edge \cup scheduled
    /\ UNCHANGED <<phase, sig, ready, flag, scheduled, op, armed, reaped, coro, woken, exception, broken, moves>>

\* Another child of the worker ends.
OtherExits ==
    /\ mode = "others" /\ moves < MaxMoves /\ moves' = moves + 1 /\ sig_recv' = "CHLD"
    /\ UNCHANGED <<phase, sig, child, pipes, op, armed, reaped, coro, woken, exception, broken>>
-----------------------------------------------------------------------------
(* The loop. *)

\* kore_platform_event_wait: epoll reports what holds now; pysocket_evt_handle
\* wakes the coroutine of an operation.
Events ==
    /\ phase = "events" /\ phase' = "signals" /\ edge' = {}
    /\ flag' = flag \cup {x \in edge : ready[x] > 0}
    /\ LET hit == {x \in edge : op[x] # "none" /\ (Hup \/ x \in flag')}
       IN  /\ op' = [x \in Chans |-> IF x \in hit THEN IF Hup THEN "eof" ELSE "active" ELSE op[x]]
           /\ woken' = IF hit # {} /\ Awaits THEN "yes" ELSE woken
    /\ UNCHANGED <<sig_recv, sig, child, ready, scheduled, armed, reaped, coro, exception, broken, moves>>

\* kore_python_proc_reap on SIGCHLD.
kore_python_proc_reap ==
    IF child = "zombie"
    THEN /\ child' = "gone" /\ reaped' = "yes" /\ armed' = armed \ {"proc"}
         /\ woken' = IF Awaits THEN "yes" ELSE woken
    ELSE UNCHANGED <<child, reaped, armed, woken>>

\* The loop copies sig_recv, acts on it, and clears it unless it has changed.
Signals ==
    /\ phase = "signals" /\ phase' = "sigdone" /\ sig' = sig_recv
    /\ IF sig_recv = "CHLD" THEN kore_python_proc_reap
       ELSE UNCHANGED <<child, reaped, armed, woken>>
    /\ UNCHANGED <<sig_recv, pipes, op, coro, exception, broken, moves>>
SignalsDone ==
    /\ phase = "sigdone" /\ phase' = "timers"
    /\ sig_recv' = IF sig # "none" /\ sig = sig_recv THEN "none" ELSE sig_recv
    /\ sig' = "none"
    /\ UNCHANGED <<child, pipes, op, armed, reaped, coro, woken, exception, broken, moves>>

\* kore_timer_run: pysocket_op_timeout, pyproc_timeout.
Expires(t) ==
    /\ phase = "timers" /\ t \in armed /\ armed' = armed \ {t}
    /\ op' = [x \in Chans |-> IF op[x] # "none" /\ (t = "proc" \/ x = "out") THEN "eof" ELSE op[x]]
    /\ exception' = "yes" /\ woken' = IF Awaits THEN "yes" ELSE woken
    /\ UNCHANGED <<loop, child, pipes, reaped, coro, broken, moves>>
TimersDone ==
    /\ phase = "timers" /\ phase' = "coros"
    /\ UNCHANGED <<sig_recv, sig, child, pipes, op, armed, reaped, coro, woken, exception, broken, moves>>

\* The coroutines have run.
CorosDone ==
    /\ phase = "coros" /\ ~ Runs /\ woken = "no" /\ phase' = "events"
    /\ UNCHANGED <<sig_recv, sig, child, pipes, op, armed, reaped, coro, woken, exception, broken, moves>>
-----------------------------------------------------------------------------
(* The coroutine. *)

\* python_kore_proc.
python_kore_proc ==
    /\ Runs /\ child = "none" /\ child' = "running"
    /\ armed' = IF mode = "timeouts" THEN {"proc"} ELSE {}
    /\ UNCHANGED <<loop, pipes, op, reaped, coro, woken, exception, broken, moves>>

\* An operation on a pipe ends: the coroutine goes on, pysocket_op_dealloc.
OpEnds(x) ==
    /\ op' = [op EXCEPT ![x] = "none"] /\ armed' = armed \ {"recv"}
    /\ coro' = "running" /\ woken' = "no"
OpStays(x) == coro' = x /\ woken' = "no" /\ UNCHANGED <<op, armed>>

\* pysocket_async_recv, pysocket_async_send: read() or write(), where EAGAIN
\* clears the flag.
Tries(x) ==
    \/ ready[x] > 0 /\ ready' = [ready EXCEPT ![x] = @ - 1] /\ flag' = flag \cup {x} /\ OpEnds(x)
    \/ ready[x] = 0 /\ Hup /\ flag' = flag \cup {x} /\ UNCHANGED ready /\ OpEnds(x)
    \/ ready[x] = 0 /\ ~ Hup /\ flag' = flag \ {x} /\ UNCHANGED ready /\ OpStays(x)

\* pysocket_op_iternext.
Raises(x) ==
    /\ op[x] = "eof" /\ (exception = "yes" \/ x = "in") /\ OpEnds(x)
    /\ exception' = "no" /\ UNCHANGED <<ready, flag>>
    /\ broken' = IF exception = "no" THEN broken \cup {x} ELSE broken
pysocket_op_iternext(x) ==
    /\ phase = "coros" /\ coro = x /\ woken = "yes"
    /\ \/ Raises(x)
       \/ op[x] = "eof" /\ exception = "no" /\ x = "out" /\ Tries(x) /\ UNCHANGED <<exception, broken>>
       \/ op[x] = "active" /\ x \in flag /\ Tries(x) /\ UNCHANGED <<exception, broken>>
       \/ op[x] = "active" /\ x \notin flag /\ OpStays(x) /\ UNCHANGED <<ready, flag, exception, broken>>
    /\ UNCHANGED <<loop, child, edge, scheduled, reaped, moves>>

\* pyproc_recv and pyproc_send: pysocket_op_create, registration of the pipe
\* the first time, then the await begins.
pysocket_op_create(x) ==
    /\ Runs /\ child # "none" /\ x \notin broken
    /\ scheduled' = scheduled \cup {x}
    /\ edge' = IF x \notin scheduled /\ (ready[x] > 0 \/ Hup) THEN edge \cup {x} ELSE edge
    /\ op' = [op EXCEPT ![x] = "active"]
    /\ armed' = IF x = "out" /\ mode = "timeouts" THEN armed \cup {"recv"} ELSE armed
    /\ coro' = x /\ woken' = "yes"
    /\ UNCHANGED <<loop, child, ready, flag, reaped, exception, broken, moves>>

\* pyproc_reap, which takes the timer of the process away, and
\* pyproc_op_iternext.
pyproc_reap ==
    /\ Runs /\ child # "none"
    /\ armed' = armed \ {"proc"} /\ coro' = "reap" /\ woken' = "yes"
    /\ UNCHANGED <<loop, child, pipes, op, reaped, exception, broken, moves>>
pyproc_op_iternext ==
    /\ phase = "coros" /\ coro = "reap" /\ woken = "yes" /\ woken' = "no"
    /\ coro' = IF exception = "yes" \/ reaped = "yes" THEN "running" ELSE "reap"
    /\ exception' = "no"
    /\ UNCHANGED <<loop, child, pipes, op, armed, reaped, broken, moves>>

\* It waits for something else, and is woken for it, or for nothing.
Sleeps ==
    /\ Runs /\ coro' = "sleep" /\ woken' = "no"
    /\ UNCHANGED <<loop, child, pipes, op, armed, reaped, exception, broken, moves>>
Resumes ==
    /\ phase = "coros" /\ coro = "sleep"
    /\ \/ coro' = "running"
       \/ woken = "yes" /\ UNCHANGED coro
    /\ woken' = "no"
    /\ UNCHANGED <<loop, child, pipes, op, armed, reaped, exception, broken, moves>>

\* The coroutine returns or is deleted: its operation is freed, then
\* pyproc_dealloc kills the process and waits for it.
CoroEnds ==
    /\ phase = "coros" /\ coro # "ended" /\ child # "none"
    /\ coro' = "ended" /\ woken' = "no" /\ child' = "gone"
    /\ op' = [x \in Chans |-> "none"] /\ armed' = {}
    /\ UNCHANGED <<loop, pipes, reaped, exception, broken, moves>>

Step ==
    \/ \E x \in Chans : ChildMoves(x) \/ pysocket_op_iternext(x) \/ pysocket_op_create(x)
    \/ ChildExits \/ OtherExits
    \/ Events \/ Signals \/ SignalsDone \/ TimersDone \/ CorosDone
    \/ \E t \in {"recv", "proc"} : Expires(t)
    \/ python_kore_proc \/ pyproc_reap \/ pyproc_op_iternext \/ Sleeps \/ Resumes \/ CoroEnds

PyIONext == Step /\ UNCHANGED mode

PyIOSpec == PyIOInit /\ [][PyIONext]_pyioVars
-----------------------------------------------------------------------------
\* A coroutine that waits to read or to write while the pipe is ready or its
\* other end is closed has been woken, or epoll will report it: it does read
\* "until EOF".
ReadsUntilEOF ==
    \A x \in Chans :
        coro = x /\ woken = "no" /\ (ready[x] > 0 \/ Hup) => x \in edge

\* The same, for an application that uses no timeouts: an event that was
\* reported is kept in evt.flags or ends the operation.
PipeSeen == mode # "timeouts" => ReadsUntilEOF

\* A coroutine in reap() of a process that has ended has been woken, or the
\* signal is still to be handled; with other children about, the loop may
\* clear a signal that came after kore_python_proc_reap.
ReapSeen ==
    mode # "others" /\ coro = "reap" /\ woken = "no" /\ Hup => child = "zombie" /\ sig_recv = "CHLD"

\* What is left after the coroutine: no timer and no operation that point to
\* it, and no process; while it lives, its timers belong to something.
NothingLeft ==
    /\ coro = "ended" => armed = {} /\ child = "gone" /\ \A x \in Chans : op[x] = "none"
    /\ "recv" \in armed => op["out"] # "none"
    /\ \A x \in Chans : op[x] # "none" => coro = x
=============================================================================
