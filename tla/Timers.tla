------------------------------- MODULE Timers -------------------------------
(***************************************************************************)
(* The timers of a worker (src/timer.c) and the Python objects made with   *)
(* kore.timer() (src/python.c): the list that kore_timer_run works         *)
(* through, and callbacks that start and close timers, their own included. *)
(***************************************************************************)
EXTENDS Integers, Sequences, Functions

CONSTANTS
    Timers,     \* the pytimer objects, each with its kore_timer
    Intervals,  \* the intervals
    MaxTime     \* bound: the clock

ASSUME TimerBounds ==
    Intervals \subseteq Nat /\ MaxTime \in Nat /\ {"NULL", "no", "loop"} \cap Timers = {}

VARIABLES
    now,        \* kore_time_ms
    kore_timers,\* the list
    nextrun,    \* per timer
    interval,   \* per timer
    timer_fl,   \* per timer: "ONESHOT" in kore_timer.flags, or "none"; "freed"
    py_fl,      \* per timer: "ONESHOT" in pytimer.flags, or "none"
    run,        \* per timer: pytimer.run is set, or "NULL"
    refs,       \* per timer: references to the pytimer: the list's, and the application's
    prev,       \* prev in kore_timer_run
    running     \* the timer whose callback runs, "no", or "loop" (between callbacks)

timersVars == <<now, kore_timers, nextrun, interval, timer_fl, py_fl, run, refs, prev, running>>

TimersTypeOK ==
    /\ now \in 0 .. MaxTime /\ kore_timers \in Seq(Timers)
    /\ nextrun \in [Timers -> Nat] /\ interval \in [Timers -> Intervals \union {0}]
    /\ timer_fl \in [Timers -> {"ONESHOT", "none", "freed"}]
    /\ py_fl \in [Timers -> {"ONESHOT", "none"}] /\ run \in [Timers -> {"set", "NULL"}]
    /\ refs \in [Timers -> SUBSET {"list", "application"}]
    /\ prev \in Timers \union {"NULL"} /\ running \in Timers \union {"no", "loop"}

TimersInit ==
    /\ now = 0 /\ kore_timers = << >> /\ nextrun = [t \in Timers |-> 0]
    /\ interval = [t \in Timers |-> 0] /\ timer_fl = [t \in Timers |-> "freed"]
    /\ py_fl = [t \in Timers |-> "none"] /\ run = [t \in Timers |-> "NULL"]
    /\ refs = [t \in Timers |-> {}] /\ prev = "NULL" /\ running = "no"

\* A list with t put at place i, and without what is there.
PutAt(s, i, t) == SubSeq(s, 1, i - 1) \o <<t>> \o SubSeq(s, i, Len(s))
DropAt(s, i) == SubSeq(s, 1, i - 1) \o SubSeq(s, i + 1, Len(s))

\* t is put before the first timer that is due later, or at the end.
Insert(t, due) ==
    \E i \in 1 .. Len(kore_timers) + 1 :
       /\ \A j \in 1 .. i - 1 : nextrun[kore_timers[j]] <= due
       /\ i <= Len(kore_timers) => nextrun[kore_timers[i]] > due
       /\ kore_timers' = PutAt(kore_timers, i, t)

\* Where t is on the list.
Place(t) == CHOOSE i \in DOMAIN kore_timers : kore_timers[i] = t

\* Python code runs in some event of the worker, or in the callback of a timer.
CodeRuns == running # "loop"
Active(t) == timer_fl[t] # "freed"
Due ==
    /\ kore_timers # << >>
    /\ Head(kore_timers) # prev /\ nextrun[Head(kore_timers)] <= now
-----------------------------------------------------------------------------
\* python_kore_timer: kore_timer_add.
python_kore_timer(t) ==
    /\ CodeRuns /\ refs[t] = {} /\ ~ Active(t)
    /\ \E fl \in {"ONESHOT", "none"}, ms \in Intervals :
          /\ timer_fl' = [timer_fl EXCEPT ![t] = fl] /\ py_fl' = [py_fl EXCEPT ![t] = fl]
          /\ interval' = [interval EXCEPT ![t] = ms]
          /\ nextrun' = [nextrun EXCEPT ![t] = now + ms]
          /\ Insert(t, now + ms)
    /\ run' = [run EXCEPT ![t] = "set"] /\ refs' = [refs EXCEPT ![t] = {"list", "application"}]
    /\ UNCHANGED <<now, prev, running>>

\* pytimer_close.
\* Wrong variant: the timer is freed while its callback runs.
CloseEarly(t) ==
    /\ CodeRuns /\ "application" \in refs[t]
    /\ kore_timers' = IF run[t] = "set" THEN DropAt(kore_timers, Place(t)) ELSE kore_timers
    /\ run' = [run EXCEPT ![t] = "NULL"] /\ timer_fl' = [timer_fl EXCEPT ![t] = "freed"]
    /\ refs' = [refs EXCEPT ![t] = @ \ {"list"}]
    /\ UNCHANGED <<now, nextrun, interval, py_fl, prev, running>>

pytimer_close(t) ==
    /\ CodeRuns /\ "application" \in refs[t]
    /\ IF run[t] = "set"
       THEN /\ kore_timers' = DropAt(kore_timers, Place(t))
            /\ run' = [run EXCEPT ![t] = "NULL"] /\ timer_fl' = [timer_fl EXCEPT ![t] = "freed"]
            /\ refs' = [refs EXCEPT ![t] = @ \ {"list"}] /\ UNCHANGED py_fl
       ELSE /\ py_fl' = [py_fl EXCEPT ![t] = "ONESHOT"]
            /\ UNCHANGED <<kore_timers, run, timer_fl, refs>>
    /\ UNCHANGED <<now, nextrun, interval, prev, running>>

\* The application drops the object; with the last reference pytimer_dealloc
\* finds run unset, since the list has a reference as long as it has the timer.
Drops(t) ==
    /\ CodeRuns /\ "application" \in refs[t] /\ refs' = [refs EXCEPT ![t] = @ \ {"application"}]
    /\ UNCHANGED <<now, kore_timers, nextrun, interval, timer_fl, py_fl, run, prev, running>>

\* kore_timer_run: the loop begins.
kore_timer_run ==
    /\ running = "no" /\ prev' = "NULL" /\ running' = "loop"
    /\ UNCHANGED <<now, kore_timers, nextrun, interval, timer_fl, py_fl, run, refs>>

\* The first timer, when it is due and is not the one that ran last, is taken
\* off the list and called: the first part of pytimer_run.
Fires ==
    /\ running = "loop" /\ Due
    /\ running' = Head(kore_timers) /\ kore_timers' = Tail(kore_timers)
    /\ run' = [run EXCEPT ![Head(kore_timers)] = "NULL"]
    /\ UNCHANGED <<now, nextrun, interval, timer_fl, py_fl, refs, prev>>

\* The callback returns: the rest of pytimer_run and of the loop's body.
Returns ==
    /\ running \in Timers /\ running' = "loop"
    /\ LET t == running IN
       IF py_fl[t] = "ONESHOT"
       THEN /\ timer_fl' = [timer_fl EXCEPT ![t] = "freed"] /\ refs' = [refs EXCEPT ![t] = @ \ {"list"}]
            /\ UNCHANGED <<kore_timers, nextrun, run, prev>>
       ELSE /\ run' = [run EXCEPT ![t] = "set"] /\ prev' = t
            /\ nextrun' = [nextrun EXCEPT ![t] = now + interval[t]]
            /\ Insert(t, now + interval[t]) /\ UNCHANGED <<timer_fl, refs>>
    /\ UNCHANGED <<now, interval, py_fl>>

\* The loop ends.
RunEnds ==
    /\ running = "loop" /\ ~ Due /\ running' = "no"
    /\ UNCHANGED <<now, kore_timers, nextrun, interval, timer_fl, py_fl, run, refs, prev>>

\* kore_platform_event_wait with kore_timer_next_run: time passes, and the
\* worker goes on when the first timer is due or something else happens.
LoopWaits ==
    /\ running = "no" /\ now < MaxTime /\ now' = now + 1
    /\ kore_timers # << >> => nextrun[Head(kore_timers)] > now
    /\ UNCHANGED <<kore_timers, nextrun, interval, timer_fl, py_fl, run, refs, prev, running>>

TimersNext ==
    \/ \E t \in Timers : python_kore_timer(t) \/ pytimer_close(t) \/ Drops(t)
    \/ kore_timer_run \/ Fires \/ Returns \/ RunEnds \/ LoopWaits

TimersSpec == TimersInit /\ [][TimersNext]_timersVars
-----------------------------------------------------------------------------
\* The list is in the order in which its timers are due, so that the head
\* gives the time to wait; it has no timer twice, none that was freed, and
\* none whose object has gone.
ListSound ==
    /\ \A i, j \in DOMAIN kore_timers :
          i < j => nextrun[kore_timers[i]] <= nextrun[kore_timers[j]]
                   /\ kore_timers[i] # kore_timers[j]
    /\ \A t \in Timers :
          /\ t \in Range(kore_timers) <=> Active(t) /\ running # t
          /\ Active(t) <=> "list" \in refs[t]
          /\ run[t] = "set" <=> t \in Range(kore_timers)
=============================================================================
