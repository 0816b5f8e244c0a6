---------------------------- MODULE PythonLoop -----------------------------
(***************************************************************************)
(* What the loop of a worker does for a Python application, side by side:  *)
(* timers (src/timer.c), the requests of its handlers and generators, and  *)
(* the pipes, sockets and children of its coroutines (src/python.c).       *)
(***************************************************************************)
EXTENDS Timers, PyHttp, PyIO

PythonLoopSpec == TimersSpec /\ PyHttpSpec /\ PyIOSpec

\* A timer that was dropped is not called and the list is in order; the
\* prerequests run before the handler, a request is answered once and a
\* generator that streams goes on; a coroutine that sleeps on a pipe or on a
\* child is woken by what it waits for, and leaves no event behind.
PythonServed ==
    /\ ListSound
    /\ PrereqsFirst /\ AnsweredOnce /\ StreamGoesOn
    /\ PipeSeen /\ ReapSeen /\ NothingLeft
=============================================================================
