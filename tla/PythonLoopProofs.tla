------------------------- MODULE PythonLoopProofs --------------------------
(***************************************************************************)
(* Proofs about what a worker does for Python applications: PyIO, Timers   *)
(* and PyHttp, for any number of chunks, timers and prerequests.           *)
(***************************************************************************)
EXTENDS PythonLoop, TLAPS

-----------------------------------------------------------------------------
(* PyIO. *)

\* Whoever waits has its operation on that pipe, which epoll watches.
Operations ==
    /\ \A x \in Chans : coro = x <=> op[x] # "none"
    /\ \A x \in Chans : coro = x => x \in scheduled

\* Without timeouts, an operation ends at the end of the pipe only, and what
\* epoll has reported is in evt.flags until read() or write() says EAGAIN.
Watched ==
    mode # "timeouts" =>
        /\ exception = "no" /\ armed = {}
        /\ \A x \in Chans :
              /\ op[x] = "eof" => Hup
              /\ x \in scheduled /\ op[x] = "none" => x \in flag \/ x \in broken \/ coro = "ended"
              /\ op[x] = "active" /\ x \notin flag /\ (ready[x] > 0 \/ Hup) => x \in edge
              /\ coro = x /\ woken = "no" => x \notin flag /\ op[x] = "active"

\* Without other children, the signal is pending until the child is reaped.
Signalled ==
    /\ mode # "others" => /\ child = "zombie" => sig_recv = "CHLD"
                          /\ sig_recv = "CHLD" => Hup
                          /\ sig = "CHLD" => child = "gone"
    /\ child = "gone" => reaped = "yes" \/ coro = "ended"
    /\ coro = "reap" /\ woken = "no" => reaped = "no"

PyIOInv == PyIOTypeOK /\ Operations /\ Watched /\ Signalled /\ NothingLeft

\* No operation is under way at the start.
LEMMA PyIOInitial == PyIOInit => PyIOInv
  BY PipeBounds, SMTT(30) DEF PyIOInit, PyIOInv, PyIOTypeOK, Operations, Watched, Signalled, NothingLeft, Chans, Hup

\* Every step of the coroutine, the event loop and the other end keeps PyIOInv.
LEMMA PyIOInductive == PyIOInv /\ [PyIONext]_pyioVars => PyIOInv'
<1> SUFFICES ASSUME PyIOInv, [PyIONext]_pyioVars  PROVE PyIOInv'
  OBVIOUS
<1> USE PipeBounds DEF Chans, Hup, loop, pipes, Awaits, Runs
<1>i. PyIOTypeOK /\ Operations /\ Watched /\ Signalled /\ NothingLeft
  BY DEF PyIOInv
<1> USE <1>i
<1>1. ASSUME mode' = mode, NEW x \in Chans, ChildMoves(x)  PROVE PyIOInv'
  <2> USE <1>1 DEF ChildMoves
  <2>1. PyIOTypeOK'
    BY DEF PyIOTypeOK
  <2>2. Operations'
    BY SMTT(30) DEF PyIOTypeOK, Operations
  <2>3. Watched'
    BY SMTT(30) DEF PyIOTypeOK, Operations, Watched
  <2>4. Signalled'
    BY Zenon DEF PyIOTypeOK, Operations, Watched, Signalled
  <2>5. NothingLeft'
    BY Zenon DEF PyIOTypeOK, Operations, NothingLeft
  <2> QED  BY <2>1, <2>2, <2>3, <2>4, <2>5, Zenon DEF PyIOInv
<1>2. ASSUME mode' = mode, ChildExits  PROVE PyIOInv'
  <2> USE <1>2 DEF ChildExits
  <2>1. PyIOTypeOK'
    BY SMTT(30) DEF PyIOTypeOK
  <2>2. Operations'
    BY Zenon DEF PyIOTypeOK, Operations
  <2>3. Watched'
    BY SMTT(30) DEF PyIOTypeOK, Operations, Watched
  <2>4. Signalled'
    BY Zenon DEF PyIOTypeOK, Operations, Watched, Signalled
  <2>5. NothingLeft'
    BY DEF PyIOTypeOK, Operations, NothingLeft
  <2> QED  BY <2>1, <2>2, <2>3, <2>4, <2>5, Zenon DEF PyIOInv
<1>3. ASSUME mode' = mode, OtherExits  PROVE PyIOInv'
  <2> USE <1>3 DEF OtherExits
  <2>1. PyIOTypeOK'
    BY SMTT(30) DEF PyIOTypeOK
  <2>2. Operations'
    BY SMTT(30) DEF PyIOTypeOK, Operations
  <2>3. Watched'
    BY SMTT(30) DEF PyIOTypeOK, Operations, Watched
  <2>4. Signalled'
    BY Zenon DEF PyIOTypeOK, Operations, Watched, Signalled
  <2>5. NothingLeft'
    BY DEF PyIOTypeOK, Operations, NothingLeft
  <2> QED  BY <2>1, <2>2, <2>3, <2>4, <2>5, Zenon DEF PyIOInv
<1>4. ASSUME mode' = mode, Events  PROVE PyIOInv'
  <2> USE <1>4 DEF Events
  <2>1. PyIOTypeOK'
    BY Zenon DEF PyIOTypeOK
  <2>2. Operations'
    BY DEF PyIOTypeOK, Operations
  <2>3. Watched'
    BY DEF PyIOTypeOK, Operations, Watched
  <2>4. Signalled'
    BY Zenon DEF PyIOTypeOK, Operations, Watched, Signalled
  <2>5. NothingLeft'
    BY DEF PyIOTypeOK, Operations, NothingLeft
  <2> QED  BY <2>1, <2>2, <2>3, <2>4, <2>5, Zenon DEF PyIOInv
<1>5. ASSUME mode' = mode, Signals  PROVE PyIOInv'
  <2> USE <1>5 DEF Signals, kore_python_proc_reap
  <2>1. PyIOTypeOK'
    BY Zenon DEF PyIOTypeOK
  <2>2. Operations'
    BY DEF PyIOTypeOK, Operations
  <2>3. Watched'
    BY Zenon DEF PyIOTypeOK, Operations, Watched
  <2>4. Signalled'
    BY DEF PyIOTypeOK, Operations, Watched, Signalled
  <2>5. NothingLeft'
    BY Zenon DEF PyIOTypeOK, Operations, NothingLeft
  <2> QED  BY <2>1, <2>2, <2>3, <2>4, <2>5, Zenon DEF PyIOInv
<1>6. ASSUME mode' = mode, SignalsDone  PROVE PyIOInv'
  <2> USE <1>6 DEF SignalsDone
  <2>1. PyIOTypeOK'
    BY SMTT(30) DEF PyIOTypeOK
  <2>2. Operations'
    BY SMTT(30) DEF PyIOTypeOK, Operations
  <2>3. Watched'
    BY SMTT(30) DEF PyIOTypeOK, Operations, Watched
  <2>4. Signalled'
    BY Zenon DEF PyIOTypeOK, Operations, Watched, Signalled
  <2>5. NothingLeft'
    BY Zenon DEF PyIOTypeOK, Operations, NothingLeft
  <2> QED  BY <2>1, <2>2, <2>3, <2>4, <2>5, Zenon DEF PyIOInv
<1>7. ASSUME mode' = mode, NEW t \in {"recv", "proc"}, Expires(t)  PROVE PyIOInv'
  <2> USE <1>7 DEF Expires
  <2>1. PyIOTypeOK'
    BY SMTT(30) DEF PyIOTypeOK
  <2>2. Operations'
    BY Zenon DEF PyIOTypeOK, Operations
  <2>3. Watched'
    BY Zenon DEF PyIOTypeOK, Operations, Watched
  <2>4. Signalled'
    BY Zenon DEF PyIOTypeOK, Operations, Watched, Signalled
  <2>5. NothingLeft'
    BY Zenon DEF PyIOTypeOK, Operations, NothingLeft
  <2> QED  BY <2>1, <2>2, <2>3, <2>4, <2>5, Zenon DEF PyIOInv
<1>8. ASSUME mode' = mode, TimersDone  PROVE PyIOInv'
  <2> USE <1>8 DEF TimersDone
  <2>1. PyIOTypeOK'
    BY DEF PyIOTypeOK
  <2>2. Operations'
    BY SMTT(30) DEF PyIOTypeOK, Operations
  <2>3. Watched'
    BY SMTT(30) DEF PyIOTypeOK, Operations, Watched
  <2>4. Signalled'
    BY Zenon DEF PyIOTypeOK, Operations, Watched, Signalled
  <2>5. NothingLeft'
    BY Zenon DEF PyIOTypeOK, Operations, NothingLeft
  <2> QED  BY <2>1, <2>2, <2>3, <2>4, <2>5, Zenon DEF PyIOInv
<1>9. ASSUME mode' = mode, CorosDone  PROVE PyIOInv'
  <2> USE <1>9 DEF CorosDone
  <2>1. PyIOTypeOK'
    BY SMTT(30) DEF PyIOTypeOK
  <2>2. Operations'
    BY SMTT(30) DEF PyIOTypeOK, Operations
  <2>3. Watched'
    BY SMTT(30) DEF PyIOTypeOK, Operations, Watched
  <2>4. Signalled'
    BY Zenon DEF PyIOTypeOK, Operations, Watched, Signalled
  <2>5. NothingLeft'
    BY Zenon DEF PyIOTypeOK, Operations, NothingLeft
  <2> QED  BY <2>1, <2>2, <2>3, <2>4, <2>5, Zenon DEF PyIOInv
<1>10. ASSUME mode' = mode, python_kore_proc  PROVE PyIOInv'
  <2> USE <1>10 DEF python_kore_proc
  <2>1. PyIOTypeOK'
    BY Zenon DEF PyIOTypeOK
  <2>2. Operations'
    BY Zenon DEF PyIOTypeOK, Operations
  <2>3. Watched'
    BY Zenon DEF PyIOTypeOK, Operations, Watched
  <2>4. Signalled'
    BY Zenon DEF PyIOTypeOK, Operations, Watched, Signalled
  <2>5. NothingLeft'
    BY Zenon DEF PyIOTypeOK, Operations, NothingLeft
  <2> QED  BY <2>1, <2>2, <2>3, <2>4, <2>5, Zenon DEF PyIOInv
<1>11. ASSUME mode' = mode, NEW x \in Chans, pysocket_op_iternext(x)  PROVE PyIOInv'
  <2> USE <1>11 DEF pysocket_op_iternext, Raises, Tries, OpEnds, OpStays
  <2>1. PyIOTypeOK'
    <3>1. ready' \in [Chans -> 0 .. Cap]
      BY SMTT(30) DEF PyIOTypeOK
    <3>2. flag' \subseteq Chans /\ broken' \subseteq Chans /\ exception' \in {"yes", "no"}
      BY Zenon DEF PyIOTypeOK
    <3>3. op' \in [Chans -> {"none", "active", "eof"}]
      <4>1. op' = [op EXCEPT ![x] = "none"] \/ op' = op  BY Zenon
      <4> QED  BY <4>1, Zenon DEF PyIOTypeOK
    <3>4. armed' \subseteq {"recv", "proc"}
      <4>1. armed' = armed \ {"recv"} \/ armed' = armed  BY Zenon
      <4> QED  BY <4>1, Zenon DEF PyIOTypeOK
    <3> QED  BY <3>1, <3>2, <3>3, <3>4, Zenon DEF PyIOTypeOK
  <2>2. Operations'
    BY SMTT(30) DEF PyIOTypeOK, Operations
  <2>3. Watched'
    <3>1. CASE Raises(x)
      BY <3>1, Zenon DEF PyIOTypeOK, Operations, Watched
    <3>2. CASE Tries(x) /\ UNCHANGED <<exception, broken>>
      <4>1. CASE ready[x] > 0 /\ ready' = [ready EXCEPT ![x] = @ - 1] /\ flag' = flag \cup {x} /\ OpEnds(x)
        BY <3>2, <4>1, Zenon DEF PyIOTypeOK, Operations, Watched
      <4>2. CASE ready[x] = 0 /\ Hup /\ flag' = flag \cup {x} /\ UNCHANGED ready /\ OpEnds(x)
        BY <3>2, <4>2, Zenon DEF PyIOTypeOK, Operations, Watched
      <4>3. CASE ready[x] = 0 /\ ~ Hup /\ flag' = flag \ {x} /\ UNCHANGED ready /\ OpStays(x)
        BY <3>2, <4>3, SMTT(30) DEF PyIOTypeOK, Operations, Watched
      <4> QED  BY <3>2, <4>1, <4>2, <4>3, Zenon
    <3>3. CASE op[x] = "active" /\ x \notin flag /\ OpStays(x) /\ UNCHANGED <<ready, flag, exception, broken>>
      BY <3>3, Zenon DEF PyIOTypeOK, Operations, Watched
    <3> QED  BY <3>1, <3>2, <3>3, Zenon
  <2>4. Signalled'
    BY Zenon DEF PyIOTypeOK, Operations, Watched, Signalled
  <2>5. NothingLeft'
    BY Zenon DEF PyIOTypeOK, Operations, NothingLeft
  <2> QED  BY <2>1, <2>2, <2>3, <2>4, <2>5, Zenon DEF PyIOInv
<1>12. ASSUME mode' = mode, NEW x \in Chans, pysocket_op_create(x)  PROVE PyIOInv'
  <2> USE <1>12 DEF pysocket_op_create
  <2>1. PyIOTypeOK'
    BY SMTT(30) DEF PyIOTypeOK
  <2>2. Operations'
    BY Zenon DEF PyIOTypeOK, Operations
  <2>3. Watched'
    BY SMTT(30) DEF PyIOTypeOK, Operations, Watched
  <2>4. Signalled'
    BY Zenon DEF PyIOTypeOK, Operations, Watched, Signalled
  <2>5. NothingLeft'
    BY Zenon DEF PyIOTypeOK, Operations, NothingLeft
  <2> QED  BY <2>1, <2>2, <2>3, <2>4, <2>5, Zenon DEF PyIOInv
<1>13. ASSUME mode' = mode, pyproc_reap  PROVE PyIOInv'
  <2> USE <1>13 DEF pyproc_reap
  <2>1. PyIOTypeOK'
    BY SMTT(30) DEF PyIOTypeOK
  <2>2. Operations'
    BY SMTT(30) DEF PyIOTypeOK, Operations
  <2>3. Watched'
    BY Zenon DEF PyIOTypeOK, Operations, Watched
  <2>4. Signalled'
    BY Zenon DEF PyIOTypeOK, Operations, Watched, Signalled
  <2>5. NothingLeft'
    BY DEF PyIOTypeOK, Operations, NothingLeft
  <2> QED  BY <2>1, <2>2, <2>3, <2>4, <2>5, Zenon DEF PyIOInv
<1>14. ASSUME mode' = mode, pyproc_op_iternext  PROVE PyIOInv'
  <2> USE <1>14 DEF pyproc_op_iternext
  <2>1. PyIOTypeOK'
    BY Zenon DEF PyIOTypeOK
  <2>2. Operations'
    BY SMTT(30) DEF PyIOTypeOK, Operations
  <2>3. Watched'
    BY SMTT(30) DEF PyIOTypeOK, Operations, Watched
  <2>4. Signalled'
    BY Zenon DEF PyIOTypeOK, Operations, Watched, Signalled
  <2>5. NothingLeft'
    BY DEF PyIOTypeOK, Operations, NothingLeft
  <2> QED  BY <2>1, <2>2, <2>3, <2>4, <2>5, Zenon DEF PyIOInv
<1>15. ASSUME mode' = mode, Sleeps  PROVE PyIOInv'
  <2> USE <1>15 DEF Sleeps
  <2>1. PyIOTypeOK'
    BY SMTT(30) DEF PyIOTypeOK
  <2>2. Operations'
    BY SMTT(30) DEF PyIOTypeOK, Operations
  <2>3. Watched'
    BY SMTT(30) DEF PyIOTypeOK, Operations, Watched
  <2>4. Signalled'
    BY Zenon DEF PyIOTypeOK, Operations, Watched, Signalled
  <2>5. NothingLeft'
    BY DEF PyIOTypeOK, Operations, NothingLeft
  <2> QED  BY <2>1, <2>2, <2>3, <2>4, <2>5, Zenon DEF PyIOInv
<1>16. ASSUME mode' = mode, Resumes  PROVE PyIOInv'
  <2> USE <1>16 DEF Resumes
  <2>1. PyIOTypeOK'
    BY SMTT(30) DEF PyIOTypeOK
  <2>2. Operations'
    BY Zenon DEF PyIOTypeOK, Operations
  <2>3. Watched'
    BY Zenon DEF PyIOTypeOK, Operations, Watched
  <2>4. Signalled'
    BY Zenon DEF PyIOTypeOK, Operations, Watched, Signalled
  <2>5. NothingLeft'
    BY Zenon DEF PyIOTypeOK, Operations, NothingLeft
  <2> QED  BY <2>1, <2>2, <2>3, <2>4, <2>5, Zenon DEF PyIOInv
<1>17. ASSUME mode' = mode, CoroEnds  PROVE PyIOInv'
  <2> USE <1>17 DEF CoroEnds
  <2>1. PyIOTypeOK'
    BY Zenon DEF PyIOTypeOK
  <2>2. Operations'
    BY Zenon DEF PyIOTypeOK, Operations
  <2>3. Watched'
    BY Zenon DEF PyIOTypeOK, Operations, Watched
  <2>4. Signalled'
    BY Zenon DEF PyIOTypeOK, Operations, Watched, Signalled
  <2>5. NothingLeft'
    BY Zenon DEF PyIOTypeOK, Operations, NothingLeft
  <2> QED  BY <2>1, <2>2, <2>3, <2>4, <2>5, Zenon DEF PyIOInv
<1>18. ASSUME UNCHANGED pyioVars  PROVE PyIOInv'
  BY <1>18, SMTT(30) DEF pyioVars, moving, PyIOInv, PyIOTypeOK, Operations, Watched, Signalled, NothingLeft
<1> QED
  BY <1>1, <1>2, <1>3, <1>4, <1>5, <1>6, <1>7, <1>8, <1>9, <1>10, <1>11, <1>12, <1>13, <1>14, <1>15, <1>16, <1>17, <1>18, Zenon DEF PyIONext, Step

\* Whatever the pipes hold and however the loop, the process and the coroutine
\* interleave, a coroutine in recv(), send() or reap() is not left asleep over
\* what has happened already, and a coroutine that ends leaves no timer, no
\* operation and no process (pysocket_evt_handle, pysocket_op_iternext,
\* kore_python_proc_reap, pyproc_dealloc).
THEOREM CoroutineSees == PyIOSpec => [](PipeSeen /\ ReapSeen /\ NothingLeft)
<1>1. PyIOInv => PipeSeen /\ ReapSeen /\ NothingLeft
  BY DEF PyIOInv, PyIOTypeOK, Operations, Watched, Signalled, PipeSeen, ReadsUntilEOF, ReapSeen, Chans, Hup
<1> QED  BY <1>1, PyIOInitial, PyIOInductive, PTL DEF PyIOSpec

-----------------------------------------------------------------------------
(* Timers. *)

\* TAILQ_INSERT_BEFORE and TAILQ_INSERT_TAIL.
LEMMA InsertsAt ==
  ASSUME NEW S, NEW s \in Seq(S), NEW x \in S, NEW at \in 1 .. Len(s) + 1
  PROVE  /\ PutAt(s, at, x) \in Seq(S) /\ Len(PutAt(s, at, x)) = Len(s) + 1
         /\ \A i \in 1 .. at - 1 : PutAt(s, at, x)[i] = s[i]
         /\ PutAt(s, at, x)[at] = x
         /\ \A i \in at + 1 .. Len(s) + 1 : PutAt(s, at, x)[i] = s[i - 1]
  <1> DEFINE a == SubSeq(s, 1, at - 1)
             b == SubSeq(s, at, Len(s))
  <1>0. at \in Nat /\ Len(s) \in Nat /\ 1 <= at /\ at <= Len(s) + 1
    OBVIOUS
  <1>1. a \in Seq(S) /\ Len(a) = at - 1 /\ \A i \in 1 .. at - 1 : a[i] = s[i]
    BY <1>0, SMTT(30)
  <1>2. b \in Seq(S) /\ Len(b) = Len(s) - at + 1 /\ \A i \in 1 .. Len(s) - at + 1 : b[i] = s[at + i - 1]
    BY <1>0, SMTT(30)
  <1>3. PutAt(s, at, x) = (a \o <<x>>) \o b
    BY DEF PutAt
  <1> HIDE DEF a, b
  <1> DEFINE c == a \o <<x>>
  <1>4. c \in Seq(S) /\ Len(c) = at /\ c[at] = x /\ \A i \in 1 .. at - 1 : c[i] = s[i]
    BY <1>0, <1>1
  <1> HIDE DEF c
  <1> DEFINE d == c \o b
  <1>5. d \in Seq(S) /\ Len(d) = Len(s) + 1
    BY <1>0, <1>2, <1>4
  <1>6. \A i \in 1 .. at : d[i] = c[i]
    BY <1>0, <1>2, <1>4
  <1>7. ASSUME NEW i \in at + 1 .. Len(s) + 1
        PROVE  d[i] = s[i - 1]
    <2>1. i - at \in 1 .. Len(s) - at + 1 /\ d[i] = b[i - at]
      BY <1>0, <1>2, <1>4
    <2>2. b[i - at] = s[at + (i - at) - 1] /\ at + (i - at) - 1 = i - 1
      BY <1>0, <1>2, <2>1
    <2> QED BY <2>1, <2>2
  <1>8. PutAt(s, at, x) = d
    BY <1>3 DEF c
  <1> HIDE DEF d
  <1> QED BY <1>0, <1>4, <1>5, <1>6, <1>7, <1>8

\* InsertsAt, for every place.
LEMMA Inserts ==
  ASSUME NEW S, NEW s \in Seq(S), NEW x \in S
  PROVE  \A at \in 1 .. Len(s) + 1 :
           /\ PutAt(s, at, x) \in Seq(S) /\ Len(PutAt(s, at, x)) = Len(s) + 1
           /\ \A i \in 1 .. at - 1 : PutAt(s, at, x)[i] = s[i]
           /\ PutAt(s, at, x)[at] = x
           /\ \A i \in at + 1 .. Len(s) + 1 : PutAt(s, at, x)[i] = s[i - 1]
  BY InsertsAt

\* TAILQ_REMOVE.
LEMMA Removes ==
  ASSUME NEW S, NEW s \in Seq(S), NEW at \in DOMAIN s
  PROVE  /\ DropAt(s, at) \in Seq(S) /\ Len(DropAt(s, at)) = Len(s) - 1
         /\ \A i \in 1 .. at - 1 : DropAt(s, at)[i] = s[i]
         /\ \A i \in at .. Len(s) - 1 : DropAt(s, at)[i] = s[i + 1]
  <1> DEFINE a == SubSeq(s, 1, at - 1)
             b == SubSeq(s, at + 1, Len(s))
  <1>0. at \in Nat /\ Len(s) \in Nat /\ 1 <= at /\ at <= Len(s)
    OBVIOUS
  <1>1. a \in Seq(S) /\ Len(a) = at - 1 /\ \A i \in 1 .. at - 1 : a[i] = s[i]
    BY <1>0, SMTT(30)
  <1>2. b \in Seq(S) /\ Len(b) = Len(s) - at /\ \A i \in 1 .. Len(s) - at : b[i] = s[at + i]
    BY <1>0, SMTT(30)
  <1>3. DropAt(s, at) = a \o b
    BY DEF DropAt
  <1> HIDE DEF a, b
  <1> DEFINE d == a \o b
  <1>4. d \in Seq(S) /\ Len(d) = Len(s) - 1
    BY <1>0, <1>1, <1>2
  <1>5. \A i \in 1 .. at - 1 : d[i] = s[i]
    BY <1>0, <1>1, <1>2
  <1>6. ASSUME NEW i \in at .. Len(s) - 1
        PROVE  d[i] = s[i + 1]
    <2>1. i - (at - 1) \in 1 .. Len(s) - at /\ d[i] = b[i - (at - 1)]
      BY <1>0, <1>1, <1>2, SMTT(30)
    <2>2. b[i - (at - 1)] = s[at + (i - (at - 1))] /\ at + (i - (at - 1)) = i + 1
      BY <1>0, <1>2, <2>1, SMTT(30)
    <2> QED BY <2>1, <2>2
  <1>7. DropAt(s, at) = d
    BY <1>3
  <1> HIDE DEF d
  <1> QED BY <1>4, <1>5, <1>6, <1>7, Zenon

\* The list, as the timers that are on it and their order.
Ordered ==
    \A i, j \in DOMAIN kore_timers :
        i < j => nextrun[kore_timers[i]] <= nextrun[kore_timers[j]]
                 /\ kore_timers[i] # kore_timers[j]

\* Whether a timer is on the list, and who refers to it.
Accounted ==
    \A t \in Timers :
        /\ t \in Range(kore_timers) <=> Active(t) /\ running # t
        /\ Active(t) <=> "list" \in refs[t]
        /\ run[t] = "set" <=> t \in Range(kore_timers)

\* The timer whose callback runs is off the list, and not freed until the
\* callback has returned.
TimersInv == TimersTypeOK /\ Ordered /\ Accounted /\ (running \in Timers => Active(running))

\* The elements of a sequence, by their places.
LEMMA Ranged ==
  ASSUME NEW S, NEW s \in Seq(S)
  PROVE  DOMAIN s = 1 .. Len(s) /\ Len(s) \in Nat /\ Range(s) = {s[i] : i \in 1 .. Len(s)}
  BY DEF Range

\* kore_timer_add and the end of kore_timer_run's body keep the order.
LEMMA InsertKeeps ==
  ASSUME TimersInv, NEW t \in Timers, t \notin Range(kore_timers), NEW due \in Nat,
         Insert(t, due), nextrun' = [nextrun EXCEPT ![t] = due]
  PROVE  /\ kore_timers' \in Seq(Timers) /\ nextrun' \in [Timers -> Nat] /\ Ordered'
         /\ Range(kore_timers') = Range(kore_timers) \cup {t}
  <1> DEFINE s == kore_timers
  <1>1. s \in Seq(Timers) /\ DOMAIN s = 1 .. Len(s) /\ Len(s) \in Nat /\ nextrun \in [Timers -> Nat]
    BY DEF TimersInv, TimersTypeOK
  <1>0. PICK at \in 1 .. Len(s) + 1 : /\ \A i \in 1 .. at - 1 : nextrun[s[i]] <= due
                                      /\ at <= Len(s) => nextrun[s[at]] > due
                                      /\ kore_timers' = PutAt(s, at, t)
    BY Zenon DEF Insert
  <1>2. /\ at \in 1 .. Len(s) + 1
        /\ \A i \in 1 .. at - 1 : nextrun[s[i]] <= due
        /\ \A i \in at .. Len(s) : due < nextrun[s[i]]
    <2> SUFFICES ASSUME NEW i \in at .. Len(s) PROVE due < nextrun[s[i]]
      BY <1>0, Zenon
    <2>1. i \in 1 .. Len(s) /\ at \in 1 .. Len(s) /\ at <= Len(s)
      BY <1>1
    <2>2. due < nextrun[s[at]]
      BY <1>0, <2>1, Zenon
    <2>3. nextrun[s[at]] <= nextrun[s[i]] /\ nextrun[s[i]] \in Nat /\ nextrun[s[at]] \in Nat
      BY <1>1, <2>1, SMTT(30) DEF TimersInv, Ordered
    <2> QED BY <2>2, <2>3
  <1>3. kore_timers' = PutAt(s, at, t)
    BY <1>0, Zenon
  <1> DEFINE r == kore_timers'
  <1>4. /\ r \in Seq(Timers) /\ Len(r) = Len(s) + 1
        /\ \A i \in 1 .. at - 1 : r[i] = s[i]
        /\ r[at] = t
        /\ \A i \in at + 1 .. Len(s) + 1 : r[i] = s[i - 1]
    <2>1. /\ PutAt(s, at, t) \in Seq(Timers) /\ Len(PutAt(s, at, t)) = Len(s) + 1
          /\ \A i \in 1 .. at - 1 : PutAt(s, at, t)[i] = s[i]
          /\ PutAt(s, at, t)[at] = t
          /\ \A i \in at + 1 .. Len(s) + 1 : PutAt(s, at, t)[i] = s[i - 1]
      <3>1. ASSUME NEW q \in Seq(Timers), NEW k \in 1 .. Len(q) + 1
            PROVE  /\ PutAt(q, k, t) \in Seq(Timers) /\ Len(PutAt(q, k, t)) = Len(q) + 1
                   /\ \A i \in 1 .. k - 1 : PutAt(q, k, t)[i] = q[i]
                   /\ PutAt(q, k, t)[k] = t
                   /\ \A i \in k + 1 .. Len(q) + 1 : PutAt(q, k, t)[i] = q[i - 1]
        BY Inserts, SMTT(30)
      <3> QED BY <1>1, <1>2, <3>1, Zenon
    <2> QED BY <1>3, <2>1, Zenon
  <1>5. at \in Nat /\ 1 <= at /\ at <= Len(s) + 1 /\ DOMAIN r = 1 .. Len(s) + 1
    BY <1>1, <1>2, <1>4
  <1>6. \A i \in 1 .. Len(s) : s[i] \in Timers /\ s[i] # t /\ nextrun'[s[i]] = nextrun[s[i]] /\ nextrun[s[i]] \in Nat
    BY <1>1 DEF Range
  <1>7. nextrun' \in [Timers -> Nat] /\ nextrun'[t] = due
    BY <1>1
  <1>8. ASSUME NEW i \in 1 .. Len(s) + 1
        PROVE  \/ i < at /\ i \in 1 .. Len(s) /\ r[i] = s[i]
               \/ i = at /\ r[i] = t
               \/ i > at /\ i - 1 \in 1 .. Len(s) /\ r[i] = s[i - 1]
    BY <1>1, <1>4, <1>5
  <1> HIDE DEF r
  <1>9. ASSUME NEW i \in 1 .. Len(s) + 1, NEW j \in 1 .. Len(s) + 1, i < j
        PROVE  nextrun'[r[i]] <= nextrun'[r[j]] /\ r[i] # r[j]
    <2>1. CASE j = at
      <3>1. r[j] = t /\ r[i] = s[i] /\ i \in 1 .. Len(s) /\ nextrun[s[i]] <= due
        BY <1>1, <1>2, <1>4, <1>5, <1>9, <2>1, SMTT(30)
      <3> QED BY <1>6, <1>7, <3>1, Zenon
    <2>2. CASE i = at
      <3>1. r[i] = t /\ r[j] = s[j - 1] /\ j - 1 \in 1 .. Len(s) /\ due < nextrun[s[j - 1]]
        BY <1>1, <1>2, <1>4, <1>5, <1>9, <2>2, SMTT(30)
      <3> QED BY <1>6, <1>7, <3>1, SMTT(30)
    <2>3. CASE i # at /\ j # at
      <3>1. PICK k \in 1 .. Len(s), l \in 1 .. Len(s) : k < l /\ r[i] = s[k] /\ r[j] = s[l]
        <4>1. CASE j < at
          <5>1. i \in 1 .. Len(s) /\ r[i] = s[i] /\ j \in 1 .. Len(s) /\ r[j] = s[j]
            BY <1>5, <1>8, <1>9, <4>1, SMTT(30)
          <5> QED BY <1>9, <5>1, Zenon
        <4>2. CASE i < at /\ at < j
          <5>1. i < j - 1
            BY <1>5, <1>9, <4>2, SMTT(30)
          <5>2. i \in 1 .. Len(s) /\ r[i] = s[i]
            BY <1>5, <1>8, <1>9, <4>2, SMTT(30)
          <5>3. j - 1 \in 1 .. Len(s) /\ r[j] = s[j - 1]
            BY <1>5, <1>8, <1>9, <4>2, SMTT(30)
          <5> QED BY <5>1, <5>2, <5>3, Zenon
        <4>3. CASE at < i
          <5>1. i - 1 < j - 1
            BY <1>5, <1>9, <4>3, SMTT(30)
          <5>2. /\ i - 1 \in 1 .. Len(s) /\ r[i] = s[i - 1]
                /\ j - 1 \in 1 .. Len(s) /\ r[j] = s[j - 1]
            BY <1>5, <1>8, <1>9, <4>3, SMTT(30)
          <5> QED BY <5>1, <5>2, Zenon
        <4> QED BY <1>5, <1>9, <2>3, <4>1, <4>2, <4>3, SMTT(30)
      <3>2. nextrun[s[k]] <= nextrun[s[l]] /\ s[k] # s[l]
        BY <1>1, <3>1, Zenon DEF TimersInv, Ordered
      <3> QED BY <1>6, <3>1, <3>2, Zenon
    <2> QED BY <2>1, <2>2, <2>3, Zenon
  <1>10. Ordered'
    BY <1>5, <1>9, Zenon DEF Ordered, r
  <1>11. Range(kore_timers') = Range(kore_timers) \cup {t}
    <2>1. \A i \in 1 .. Len(s) + 1 : r[i] \in Range(s) \cup {t}
      BY <1>1, <1>8, Zenon DEF Range
    <2>2. \A i \in 1 .. Len(s) : \E j \in 1 .. Len(s) + 1 : r[j] = s[i]
      <3> TAKE i \in 1 .. Len(s)
      <3>1. CASE i < at
        BY <1>1, <1>4, <1>5, <3>1, SMTT(30)
      <3>2. CASE i >= at
        <4>1. i + 1 \in at + 1 .. Len(s) + 1 /\ (i + 1) - 1 = i
          BY <1>1, <1>5, <3>2, SMTT(30)
        <4>2. r[i + 1] = s[(i + 1) - 1] /\ i + 1 \in 1 .. Len(s) + 1
          <5>1. i + 1 \in 1 .. Len(s) + 1 /\ i + 1 > at
            BY <1>1, <1>5, <3>2, SMTT(30)
          <5> QED BY <1>5, <1>8, <5>1
        <4> QED BY <4>1, <4>2
      <3> QED BY <1>5, <3>1, <3>2
    <2>3. \E j \in 1 .. Len(s) + 1 : r[j] = t
      BY <1>1, <1>4, <1>5, Zenon
    <2>4. Range(r) = {r[i] : i \in 1 .. Len(s) + 1} /\ Range(s) = {s[i] : i \in 1 .. Len(s)}
      BY <1>1, <1>5 DEF Range
    <2>5. Range(r) = Range(s) \cup {t}
      BY <2>1, <2>2, <2>3, <2>4, Zenon
    <2> QED BY <2>5 DEF r
  <1> QED BY <1>4, <1>7, <1>10, <1>11, Zenon DEF r

\* The list is empty at the start.
LEMMA TimersInitial == TimersInit => TimersInv
  BY TimerBounds DEF TimersInit, TimersInv, TimersTypeOK, Ordered, Accounted, Active, Range

\* python_kore_timer, and a timer that runs again.
LEMMA StartKeeps ==
  ASSUME TimersInv, NEW t \in Timers, python_kore_timer(t)
  PROVE  TimersInv'
  <1> USE TimerBounds
  <1>1. PICK fl \in {"ONESHOT", "none"}, ms \in Intervals :
          /\ timer_fl' = [timer_fl EXCEPT ![t] = fl] /\ py_fl' = [py_fl EXCEPT ![t] = fl]
          /\ interval' = [interval EXCEPT ![t] = ms]
          /\ nextrun' = [nextrun EXCEPT ![t] = now + ms]
          /\ Insert(t, now + ms)
    BY Zenon DEF python_kore_timer
  <1>2. now + ms \in Nat /\ ~ Active(t) /\ refs[t] = {} /\ t \notin Range(kore_timers)
    BY DEF TimersInv, TimersTypeOK, Accounted, python_kore_timer
  <1>3. /\ kore_timers' \in Seq(Timers) /\ nextrun' \in [Timers -> Nat] /\ Ordered'
        /\ Range(kore_timers') = Range(kore_timers) \cup {t}
    BY <1>1, <1>2, InsertKeeps, Zenon
  <1>4. UNCHANGED <<now, prev, running>> /\ run' = [run EXCEPT ![t] = "set"]
        /\ refs' = [refs EXCEPT ![t] = {"list", "application"}]
    BY DEF python_kore_timer
  <1>5. TimersTypeOK'
    <2>1. TimersTypeOK
      BY DEF TimersInv
    <2>2. /\ interval' \in [Timers -> Intervals \union {0}]
          /\ timer_fl' \in [Timers -> {"ONESHOT", "none", "freed"}] /\ py_fl' \in [Timers -> {"ONESHOT", "none"}]
      BY <1>1, <2>1, Zenon DEF TimersTypeOK
    <2>3. /\ run' \in [Timers -> {"set", "NULL"}] /\ refs' \in [Timers -> SUBSET {"list", "application"}]
          /\ now' \in 0 .. MaxTime /\ prev' \in Timers \union {"NULL"} /\ running' \in Timers \union {"no", "loop"}
      BY <1>4, <2>1, Zenon DEF TimersTypeOK
    <2> QED BY <1>3, <2>2, <2>3, Zenon DEF TimersTypeOK
  <1>6. running # t /\ timer_fl'[t] = fl /\ fl # "freed" /\ \A u \in Timers \ {t} : timer_fl'[u] = timer_fl[u]
    BY <1>1, <1>2, SMTT(30) DEF TimersInv, TimersTypeOK
  <1>7. Accounted'
    <2> SUFFICES ASSUME NEW u \in Timers
                 PROVE  /\ u \in Range(kore_timers') <=> timer_fl'[u] # "freed" /\ running # u
                        /\ timer_fl'[u] # "freed" <=> "list" \in refs'[u]
                        /\ run'[u] = "set" <=> u \in Range(kore_timers')
      BY <1>4, Zenon DEF Accounted, Active
    <2>1. CASE u = t
      BY <1>3, <1>4, <1>6, <2>1, SMTT(30) DEF TimersInv, TimersTypeOK
    <2>2. CASE u # t
      BY <1>3, <1>4, <1>6, <2>2, SMTT(30) DEF TimersInv, TimersTypeOK, Accounted, Active
    <2> QED BY <2>1, <2>2, Zenon
  <1>8. (running \in Timers => Active(running))'
    BY <1>4, <1>6, Zenon DEF TimersInv, Active
  <1> QED BY <1>3, <1>5, <1>7, <1>8, Zenon DEF TimersInv

\* pytimer_close takes the timer off the list, or marks it for the end of its
\* callback.
LEMMA CloseKeeps ==
  ASSUME TimersInv, NEW t \in Timers, pytimer_close(t)
  PROVE  TimersInv'
  <1> USE TimerBounds
  <1>1. UNCHANGED <<now, nextrun, interval, prev, running>>
    BY DEF pytimer_close
  <1>2. CASE run[t] = "set"
    <2> DEFINE s == kore_timers
               at == Place(t)
    <2>1. /\ kore_timers' = DropAt(s, at) /\ run' = [run EXCEPT ![t] = "NULL"]
          /\ timer_fl' = [timer_fl EXCEPT ![t] = "freed"] /\ refs' = [refs EXCEPT ![t] = @ \ {"list"}]
          /\ UNCHANGED py_fl
      BY <1>2, Zenon DEF pytimer_close
    <2>2. s \in Seq(Timers) /\ DOMAIN s = 1 .. Len(s) /\ Len(s) \in Nat
      BY DEF TimersInv, TimersTypeOK
    <2>3. \E i \in DOMAIN s : s[i] = t
      BY <1>2 DEF TimersInv, Accounted, Range
    <2>4. at \in DOMAIN s /\ s[at] = t
      BY <2>3, SMTT(30) DEF Place
    <2> HIDE DEF at
    <2> DEFINE r == kore_timers'
    <2>5. /\ r \in Seq(Timers) /\ Len(r) = Len(s) - 1
          /\ \A i \in 1 .. at - 1 : r[i] = s[i]
          /\ \A i \in at .. Len(s) - 1 : r[i] = s[i + 1]
      <3>1. ASSUME NEW q \in Seq(Timers), NEW k \in DOMAIN q
            PROVE  /\ DropAt(q, k) \in Seq(Timers) /\ Len(DropAt(q, k)) = Len(q) - 1
                   /\ \A i \in 1 .. k - 1 : DropAt(q, k)[i] = q[i]
                   /\ \A i \in k .. Len(q) - 1 : DropAt(q, k)[i] = q[i + 1]
        BY Removes, Zenon
      <3> QED BY <2>1, <2>2, <2>4, <3>1, Zenon
    <2>6. DOMAIN r = 1 .. Len(s) - 1 /\ at \in Nat /\ 1 <= at /\ at <= Len(s)
      BY <2>2, <2>4, <2>5
    <2>7. ASSUME NEW i \in 1 .. Len(s) - 1
          PROVE  \/ i < at /\ i \in 1 .. Len(s) /\ r[i] = s[i]
                 \/ i >= at /\ i + 1 \in 1 .. Len(s) /\ r[i] = s[i + 1]
      BY <2>2, <2>5, <2>6
    <2> HIDE DEF r
    <2>8. ASSUME NEW i \in 1 .. Len(s) - 1, NEW j \in 1 .. Len(s) - 1, i < j
          PROVE  nextrun[r[i]] <= nextrun[r[j]] /\ r[i] # r[j]
      <3>1. PICK k \in 1 .. Len(s), l \in 1 .. Len(s) : k < l /\ r[i] = s[k] /\ r[j] = s[l]
        <4>1. CASE j < at
          <5>1. i \in 1 .. Len(s) /\ r[i] = s[i] /\ j \in 1 .. Len(s) /\ r[j] = s[j]
            BY <2>6, <2>7, <2>8, <4>1, SMTT(30)
          <5> QED BY <2>8, <5>1
        <4>2. CASE i < at /\ at <= j
          <5>1. i < j + 1 /\ i \in 1 .. Len(s) /\ r[i] = s[i] /\ j + 1 \in 1 .. Len(s) /\ r[j] = s[j + 1]
            BY <2>6, <2>7, <2>8, <4>2, SMTT(30)
          <5> QED BY <5>1
        <4>3. CASE at <= i
          <5>1. i + 1 < j + 1 /\ i + 1 \in 1 .. Len(s) /\ r[i] = s[i + 1] /\ j + 1 \in 1 .. Len(s) /\ r[j] = s[j + 1]
            BY <2>6, <2>7, <2>8, <4>3, SMTT(30)
          <5> QED BY <5>1
        <4> QED BY <2>6, <2>8, <4>1, <4>2, <4>3, SMTT(30)
      <3> QED BY <2>2, <3>1, Zenon DEF TimersInv, Ordered
    <2>9. Ordered'
      BY <1>1, <2>6, <2>8, Zenon DEF Ordered, r
    <2>10. Range(kore_timers') = Range(kore_timers) \ {t}
      <3>1. \A i \in 1 .. Len(s) - 1 : r[i] \in Range(s) /\ r[i] # t
        <4> TAKE i \in 1 .. Len(s) - 1
        <4>1. PICK k \in 1 .. Len(s) : k # at /\ r[i] = s[k]
          BY <2>6, <2>7
        <4>2. k < at \/ at < k
          BY <2>6, <4>1
        <4> QED BY <2>2, <2>4, <4>1, <4>2, Zenon DEF TimersInv, Ordered, Range
      <3>2. \A k \in 1 .. Len(s) : s[k] # t => \E j \in 1 .. Len(s) - 1 : r[j] = s[k]
        <4> SUFFICES ASSUME NEW k \in 1 .. Len(s), s[k] # t PROVE \E j \in 1 .. Len(s) - 1 : r[j] = s[k]
          OBVIOUS
        <4>1. CASE k < at
          <5>1. k \in 1 .. Len(s) - 1
            BY <2>6, <4>1
          <5> QED BY <2>6, <2>7, <4>1, <5>1, SMTT(30)
        <4>2. CASE k > at
          <5>1. k - 1 \in 1 .. Len(s) - 1 /\ k - 1 >= at /\ (k - 1) + 1 = k
            BY <2>6, <4>2
          <5>2. r[k - 1] = s[(k - 1) + 1]
            BY <2>6, <2>7, <5>1, SMTT(30)
          <5> QED BY <5>1, <5>2
        <4>3. k # at
          BY <2>4
        <4> QED BY <2>6, <4>1, <4>2, <4>3, SMTT(30)
      <3>3. Range(r) = {r[i] : i \in 1 .. Len(s) - 1} /\ Range(s) = {s[i] : i \in 1 .. Len(s)}
        BY <2>2, <2>6, Zenon DEF Range
      <3>4. Range(r) = Range(s) \ {t}
        BY <3>1, <3>2, <3>3, SMTT(30)
      <3> QED BY <3>4 DEF r
    <2>11. TimersTypeOK'
      <3>1. TimersTypeOK
        BY DEF TimersInv
      <3>2. kore_timers' \in Seq(Timers)
        BY <2>1, <2>5, Zenon DEF r
      <3>3. /\ run' \in [Timers -> {"set", "NULL"}] /\ refs' \in [Timers -> SUBSET {"list", "application"}]
            /\ timer_fl' \in [Timers -> {"ONESHOT", "none", "freed"}]
        BY <2>1, <3>1, Zenon DEF TimersTypeOK
      <3> QED BY <1>1, <2>1, <3>1, <3>2, <3>3, Zenon DEF TimersTypeOK
    <2>12. Accounted'
      <3> SUFFICES ASSUME NEW u \in Timers
                   PROVE  /\ u \in Range(kore_timers') <=> timer_fl'[u] # "freed" /\ running # u
                          /\ timer_fl'[u] # "freed" <=> "list" \in refs'[u]
                          /\ run'[u] = "set" <=> u \in Range(kore_timers')
        BY <1>1 DEF Accounted, Active
      <3>1. CASE u = t
        BY <2>1, <2>10, <3>1, SMTT(30) DEF TimersInv, TimersTypeOK
      <3>2. CASE u # t
        BY <2>1, <2>10, <3>2, SMTT(30) DEF TimersInv, TimersTypeOK, Accounted, Active
      <3> QED BY <3>1, <3>2, Zenon
    <2>13. (running \in Timers => Active(running))'
      <3>1. running # t
        BY <1>2, SMTT(30) DEF TimersInv, Accounted
      <3>2. running \in Timers => timer_fl[running] # "freed"
        BY DEF TimersInv, Active
      <3>3. timer_fl \in [Timers -> {"ONESHOT", "none", "freed"}]
        BY DEF TimersInv, TimersTypeOK
      <3> QED BY <1>1, <2>1, <3>1, <3>2, <3>3, Zenon DEF Active
    <2> QED BY <2>9, <2>11, <2>12, <2>13, Zenon DEF TimersInv
  <1>3. CASE run[t] # "set"
    <2>1. py_fl' = [py_fl EXCEPT ![t] = "ONESHOT"] /\ UNCHANGED <<kore_timers, run, timer_fl, refs>>
      BY <1>3 DEF pytimer_close
    <2> QED BY <1>1, <2>1 DEF TimersInv, TimersTypeOK, Ordered, Accounted, Active
  <1> QED BY <1>2, <1>3

\* The first timer is taken off the list while its callback runs.
LEMMA FiresKeeps ==
  ASSUME TimersInv, Fires
  PROVE  TimersInv'
  <1> USE TimerBounds
  <1> DEFINE s == kore_timers
             h == Head(s)
  <1>1. s \in Seq(Timers) /\ s # << >> /\ DOMAIN s = 1 .. Len(s) /\ Len(s) \in Nat /\ running = "loop"
    BY DEF Fires, Due, TimersInv, TimersTypeOK
  <1>2. /\ h = s[1] /\ 1 \in DOMAIN s /\ h \in Timers
        /\ Tail(s) \in Seq(Timers) /\ DOMAIN Tail(s) = 1 .. Len(s) - 1
        /\ \A i \in 1 .. Len(s) - 1 : Tail(s)[i] = s[i + 1] /\ i + 1 \in DOMAIN s
    BY <1>1
  <1>3. /\ running' = h /\ kore_timers' = Tail(s) /\ run' = [run EXCEPT ![h] = "NULL"]
        /\ UNCHANGED <<now, nextrun, interval, timer_fl, py_fl, refs, prev>>
    BY DEF Fires
  <1>4. Ordered'
    <2>1. ASSUME NEW i \in 1 .. Len(s) - 1, NEW j \in 1 .. Len(s) - 1, i < j
          PROVE  nextrun[s[i + 1]] <= nextrun[s[j + 1]] /\ s[i + 1] # s[j + 1]
      <3>1. i + 1 \in DOMAIN s /\ j + 1 \in DOMAIN s /\ i + 1 < j + 1
        BY <1>1, <2>1
      <3> QED BY <3>1 DEF TimersInv, Ordered
    <2> DEFINE r == kore_timers'
    <2>2. DOMAIN r = 1 .. Len(s) - 1 /\ \A i \in 1 .. Len(s) - 1 : r[i] = s[i + 1]
      BY <1>2, <1>3, Zenon
    <2>3. nextrun' = nextrun
      BY <1>3
    <2> HIDE DEF r
    <2>4. \A i, j \in DOMAIN r : i < j => nextrun[r[i]] <= nextrun[r[j]] /\ r[i] # r[j]
      <3> SUFFICES ASSUME NEW i \in 1 .. Len(s) - 1, NEW j \in 1 .. Len(s) - 1, i < j
                   PROVE  nextrun[r[i]] <= nextrun[r[j]] /\ r[i] # r[j]
        BY <2>2, Zenon
      <3>1. r[i] = s[i + 1] /\ r[j] = s[j + 1]
        BY <2>2, Zenon
      <3> QED BY <2>1, <3>1, Zenon
    <2> QED BY <2>3, <2>4 DEF Ordered, r
  <1>5. Range(kore_timers') = Range(kore_timers) \ {h}
    <2>1. \A i \in 1 .. Len(s) - 1 : s[i + 1] # h
      <3> TAKE i \in 1 .. Len(s) - 1
      <3>1. 1 \in DOMAIN s /\ i + 1 \in DOMAIN s /\ 1 < i + 1
        BY <1>1
      <3> QED BY <1>2, <3>1, Zenon DEF TimersInv, Ordered
    <2>2. \A k \in 1 .. Len(s) : s[k] # h => k - 1 \in 1 .. Len(s) - 1 /\ s[(k - 1) + 1] = s[k]
      BY <1>1, <1>2
    <2> DEFINE r == Tail(s)
    <2>3. \A i \in 1 .. Len(s) - 1 : r[i] = s[i + 1] /\ i + 1 \in 1 .. Len(s)
      BY <1>1, <1>2
    <2>4. Range(r) = {r[i] : i \in 1 .. Len(s) - 1} /\ Range(s) = {s[i] : i \in 1 .. Len(s)}
      BY <1>1, <1>2, Zenon DEF Range
    <2> HIDE DEF h, r
    <2>5. \A x \in Range(r) : x \in Range(s) /\ x # h
      BY <2>1, <2>3, <2>4
    <2>6. \A x \in Range(s) : x # h => x \in Range(r)
      BY <2>2, <2>3, <2>4, Zenon
    <2>7. Range(r) = Range(s) \ {h}
      BY <2>5, <2>6, SMTT(30)
    <2> QED BY <1>3, <2>7 DEF r
  <1>6. TimersTypeOK'
    BY <1>2, <1>3, Zenon DEF TimersInv, TimersTypeOK
  <1>7. h \in Range(kore_timers)
    BY <1>1, <1>2, SMTT(30) DEF Range
  <1>8. Accounted' /\ Active(h)
    BY <1>1, <1>2, <1>3, <1>5, <1>7, Zenon DEF TimersInv, TimersTypeOK, Accounted, Active
  <1>9. (running \in Timers => Active(running))'
    BY <1>3, <1>8 DEF Active
  <1> QED BY <1>4, <1>6, <1>8, <1>9, Zenon DEF TimersInv

\* After its callback a timer is freed, or put back with a new time.
LEMMA ReturnsKeeps ==
  ASSUME TimersInv, Returns
  PROVE  TimersInv'
  <1> USE TimerBounds
  <1> DEFINE t == running
  <1>1. t \in Timers /\ running' = "loop" /\ UNCHANGED <<now, interval, py_fl>>
    BY DEF Returns
  <1>2. Active(t) /\ t \notin Range(kore_timers)
    BY <1>1 DEF TimersInv, Accounted
  <1>3. CASE py_fl[t] = "ONESHOT"
    <2>1. /\ timer_fl' = [timer_fl EXCEPT ![t] = "freed"] /\ refs' = [refs EXCEPT ![t] = @ \ {"list"}]
          /\ UNCHANGED <<kore_timers, nextrun, run, prev>>
      BY <1>3, Zenon DEF Returns
    <2>2. TimersTypeOK' /\ Ordered'
      BY <1>1, <2>1, Zenon DEF TimersInv, TimersTypeOK, Ordered
    <2>3. Accounted'
      BY <1>1, <1>2, <2>1, SMTT(30) DEF TimersInv, TimersTypeOK, Accounted, Active
    <2> QED BY <1>1, <2>2, <2>3, Zenon DEF TimersInv
  <1>4. CASE py_fl[t] # "ONESHOT"
    <2>1. /\ run' = [run EXCEPT ![t] = "set"] /\ prev' = t
          /\ nextrun' = [nextrun EXCEPT ![t] = now + interval[t]]
          /\ Insert(t, now + interval[t]) /\ UNCHANGED <<timer_fl, refs>>
      BY <1>4, Zenon DEF Returns
    <2>2. now + interval[t] \in Nat
      <3>1. now \in Nat /\ interval[t] \in Intervals \cup {0}
        BY <1>1 DEF TimersInv, TimersTypeOK
      <3>2. \A i \in Intervals \cup {0} : i \in Nat
        OBVIOUS
      <3>3. interval[t] \in Nat
        BY <3>1, <3>2, Zenon
      <3> HIDE DEF t
      <3> QED BY <3>1, <3>3, SMTT(30)
    <2>3. /\ kore_timers' \in Seq(Timers) /\ nextrun' \in [Timers -> Nat] /\ Ordered'
          /\ Range(kore_timers') = Range(kore_timers) \cup {t}
      BY <1>1, <1>2, <2>1, <2>2, InsertKeeps, Zenon
    <2>4. TimersTypeOK'
      BY <1>1, <2>1, <2>3, Zenon DEF TimersInv, TimersTypeOK
    <2>5. Accounted'
      BY <1>1, <1>2, <2>1, <2>3, SMTT(30) DEF TimersInv, TimersTypeOK, Accounted, Active
    <2> QED BY <1>1, <2>3, <2>4, <2>5, Zenon DEF TimersInv
  <1> QED BY <1>3, <1>4

\* Every step of the application and of kore_timer_run keeps TimersInv.
LEMMA TimersInductive ==
  ASSUME TimersInv, [TimersNext]_timersVars
  PROVE  TimersInv'
  <1> USE TimerBounds
  <1>1. ASSUME NEW t \in Timers, Drops(t)
        PROVE  TimersInv'
    <2>1. /\ refs' = [refs EXCEPT ![t] = @ \ {"application"}]
          /\ UNCHANGED <<now, kore_timers, nextrun, interval, timer_fl, py_fl, run, prev, running>>
      BY <1>1, SMTT(30) DEF Drops
    <2> QED BY <2>1 DEF TimersInv, TimersTypeOK, Ordered, Accounted, Active
  <1>2. CASE kore_timer_run
    BY <1>2, SMTT(30) DEF kore_timer_run, TimersInv, TimersTypeOK, Ordered, Accounted, Active
  <1>3. CASE RunEnds
    BY <1>3, SMTT(30) DEF RunEnds, TimersInv, TimersTypeOK, Ordered, Accounted, Active
  <1>4. CASE LoopWaits
    BY <1>4, SMTT(30) DEF LoopWaits, TimersInv, TimersTypeOK, Ordered, Accounted, Active
  <1>5. CASE UNCHANGED timersVars
    BY <1>5 DEF timersVars, TimersInv, TimersTypeOK, Ordered, Accounted, Active
  <1> QED
    BY <1>1, <1>2, <1>3, <1>4, <1>5, StartKeeps, CloseKeeps, FiresKeeps, ReturnsKeeps, Zenon DEF TimersNext

\* kore_timers is in the order in which its timers are due and has no timer
\* twice, none that was freed and none whose object has gone, for any number of
\* timers and whatever their callbacks start and close.
THEOREM TimersKept == TimersSpec => []ListSound
  <1>1. TimersInv => ListSound
    BY Zenon DEF TimersInv, Ordered, Accounted, ListSound
  <1> QED BY TimersInitial, TimersInductive, <1>1, PTL DEF TimersSpec

-----------------------------------------------------------------------------
(* PyHttp. *)

\* How far the calls have come, and which coroutine the request can wait for.
Progress ==
    /\ Len(calls) = IF fsm = "RUN" THEN handler ELSE rqnext - 1
    /\ fsm = "RUN" => rqnext = handler /\ (request = "active" => py_coro = "handler")
    /\ py_coro = "handler" => fsm = "RUN"
    /\ py_coro = "pre" => fsm = "PREPROCESS"
    /\ refused = "yes" => request # "active" /\ fsm # "RUN"
    /\ request # "active" => py_coro = "none"

\* A request that is not through has no answer yet.
Unanswered == raised = "no" => answers <= 1 /\ (request = "active" => answers = 0)

\* A chunk is queued for a stream that goes on, on a busy connection.
Streams ==
    /\ queued = "yes" => busy = "yes"
    /\ busy = "yes" => remove \in {"no", "yes"}
    /\ ended = IF remove = "freed" THEN 1 ELSE 0

PyHttpInv == PyHttpTypeOK /\ PrereqsFirst /\ Progress /\ Unanswered /\ Streams /\ StreamGoesOn

\* What is left of an answer, once the request is put aside.
Answering == PyHttpTypeOK /\ Streams /\ StreamGoesOn

\* An answer, or none, from the handler or the generator.
LEMMA AnswersKeep ==
    ASSUME Answering, Answers \/ Silent
    PROVE  /\ Streams' /\ StreamGoesOn'
           /\ busy' \in {"yes", "no"} /\ items' \in 0 .. MaxItems /\ queued' \in {"yes", "no"}
           /\ remove' \in {"none", "no", "yes", "freed"} /\ ended' \in Nat
           /\ answers' \in Nat /\ answers' <= answers + 1
<1> USE PyHttpBounds DEF Answering, PyHttpTypeOK
<1>1. CASE UNCHANGED stream /\ answers' \in {answers, answers + 1}
  BY <1>1 DEF Streams, StreamGoesOn, stream
<1>2. ASSUME NEW n \in 0 .. MaxItems,
             busy = "no" /\ remove = "none"
               /\ answers' = answers + 1 /\ busy' = "yes" /\ remove' = "no" /\ UNCHANGED ended
               /\ items' = (IF n > 0 THEN n - 1 ELSE 0)
               /\ queued' = (IF n > 0 THEN "yes" ELSE "no")
      PROVE  /\ Streams' /\ StreamGoesOn'
             /\ busy' \in {"yes", "no"} /\ items' \in 0 .. MaxItems /\ queued' \in {"yes", "no"}
             /\ remove' \in {"none", "no", "yes", "freed"} /\ ended' \in Nat
             /\ answers' \in Nat /\ answers' <= answers + 1
  BY <1>2 DEF Streams, StreamGoesOn
<1>3. (UNCHANGED stream /\ answers' \in {answers, answers + 1})
        \/ \E n \in 0 .. MaxItems :
              /\ busy = "no" /\ remove = "none"
              /\ answers' = answers + 1 /\ busy' = "yes" /\ remove' = "no" /\ UNCHANGED ended
              /\ items' = (IF n > 0 THEN n - 1 ELSE 0)
              /\ queued' = (IF n > 0 THEN "yes" ELSE "no")
  BY DEF Answers, Silent
<1> QED  BY <1>1, <1>2, <1>3, Zenon

\* One more function is called, the next in order.
LEMMA CallsGrow ==
    ASSUME PyHttpTypeOK, \A i \in DOMAIN calls : calls[i] = i,
           NEW f \in 1 .. handler, f = Len(calls) + 1, calls' = Append(calls, f)
    PROVE  /\ calls' \in Seq(1 .. handler) /\ Len(calls') = f
           /\ \A i \in DOMAIN calls' : calls'[i] = i
<1> USE DEF PyHttpTypeOK
<1>1. calls' \in Seq(1 .. handler) /\ Len(calls') = Len(calls) + 1  OBVIOUS
<1>2. ASSUME NEW i \in DOMAIN calls'  PROVE calls'[i] = i
  <2>1. i \in 1 .. Len(calls) + 1  BY <1>1
  <2>2. CASE i = Len(calls) + 1  BY <2>2
  <2>3. CASE i \in 1 .. Len(calls)  BY <2>3
  <2> QED  BY <2>1, <2>2, <2>3, SMTT(30)
<1> QED  BY <1>1, <1>2, Zenon

\* Nothing was called and nothing answered at the start.
LEMMA PyHttpInitial == PyHttpInit => PyHttpInv
  BY PyHttpBounds, SMTT(30) DEF PyHttpInit, PyHttpInv, PyHttpTypeOK, handler, PrereqsFirst, Progress, Unanswered,
                      Streams, StreamGoesOn

\* What the stream does leaves the calls, the coroutine and the answers alone.
LEMMA Undisturbed ==
    ASSUME PyHttpInv, Streams', StreamGoesOn',
           busy' \in {"yes", "no"}, items' \in 0 .. MaxItems, queued' \in {"yes", "no"},
           remove' \in {"none", "no", "yes", "freed"}, ended' \in Nat,
           UNCHANGED <<fsm, rqnext, py_coro, asleep, request, calls, refused, raised, answers, inside, sleeps>>
    PROVE  PyHttpInv'
<1>1. PyHttpTypeOK'
  BY DEF PyHttpInv, PyHttpTypeOK
<1>2. PrereqsFirst'
  BY DEF PyHttpInv, PrereqsFirst
<1>3. Progress' /\ Unanswered'
  BY Zenon DEF PyHttpInv, Progress, Unanswered
<1> QED  BY <1>1, <1>2, <1>3, Zenon DEF PyHttpInv

\* A request that is active and not asleep is called, in order: what becomes of
\* it is in PrereqsFirst, Progress and Unanswered again.
LEMMA Called ==
    ASSUME PyHttpInv, Scheduled, NEW f \in 1 .. handler, f = Len(calls) + 1,
           calls' = Append(calls, f), rqnext' \in 1 .. handler, Answers \/ Silent,
           py_coro' \in {"none", "pre", "handler"}, asleep' \in {"yes", "no"},
           asleep' = "yes" => request' = "active" /\ py_coro' # "none",
           request' \in {"active", "done"}, refused' \in {"yes", "no"}, raised' \in {"yes", "no"},
           inside' \in {"yes", "no"}, sleeps' \in 0 .. MaxSleeps,
           fsm' = "PREPROCESS" \/ fsm' = "RUN",
           fsm' = "PREPROCESS" => rqnext' = f + 1 /\ py_coro' # "handler" /\ f # handler,
           fsm' = "RUN" => f = handler /\ rqnext' = f /\ py_coro' # "pre" /\ refused' = "no"
                             /\ (request' = "active" => py_coro' = "handler"),
           refused' = "yes" => request' = "done",
           request' = "done" => py_coro' = "none" /\ (f = handler \/ refused' = "yes"),
           raised' = "no" => raised = "no" /\ (request' = "active" => Silent)
    PROVE  PyHttpInv'
<1>1. /\ PyHttpTypeOK /\ PrereqsFirst /\ Unanswered /\ Answering /\ handler = Prereqs + 1
      /\ request = "active"
  BY Zenon DEF PyHttpInv, Answering, handler, Scheduled
<1>2. calls' \in Seq(1 .. handler) /\ Len(calls') = f /\ \A i \in DOMAIN calls' : calls'[i] = i
  BY <1>1, CallsGrow, Zenon DEF PrereqsFirst
<1>3. /\ Streams' /\ StreamGoesOn' /\ answers' \in Nat /\ answers' <= answers + 1
      /\ busy' \in {"yes", "no"} /\ items' \in 0 .. MaxItems /\ queued' \in {"yes", "no"}
      /\ remove' \in {"none", "no", "yes", "freed"} /\ ended' \in Nat
  BY <1>1, AnswersKeep, Zenon
<1>4. PyHttpTypeOK'
  BY <1>2, <1>3, Zenon DEF PyHttpTypeOK, handler
<1>5. PrereqsFirst'
  BY <1>1, <1>2, PyHttpBounds DEF PrereqsFirst, handler
<1>6. Progress'
  BY <1>1, <1>2, PyHttpBounds DEF Progress, handler
<1>7. Unanswered'
  <2>1. answers \in Nat /\ (raised = "no" => answers = 0) /\ (Silent => answers' = answers)
    BY <1>1, Zenon DEF Unanswered, PyHttpTypeOK, Silent
  <2> QED  BY <1>3, <2>1 DEF Unanswered
<1> QED  BY <1>3, <1>4, <1>5, <1>6, <1>7, Zenon DEF PyHttpInv

\* Every step of the request keeps PyHttpInv.
LEMMA PyHttpInductive == PyHttpInv /\ [PyHttpNext]_pyhttpVars => PyHttpInv'
<1> SUFFICES ASSUME PyHttpInv, [PyHttpNext]_pyhttpVars  PROVE PyHttpInv'
  OBVIOUS
<1>i. PyHttpTypeOK /\ PrereqsFirst /\ Progress /\ Unanswered /\ Streams /\ StreamGoesOn
  BY DEF PyHttpInv
<1>h. /\ handler \in Nat /\ handler = Prereqs + 1 /\ Prereqs \in Nat /\ MaxSleeps \in Nat
      /\ rqnext \in 1 .. handler /\ sleeps \in 0 .. MaxSleeps
      /\ py_coro \in {"none", "pre", "handler"} /\ asleep \in {"yes", "no"}
      /\ request \in {"active", "done", "freed"} /\ refused \in {"yes", "no"} /\ raised \in {"yes", "no"}
      /\ fsm \in {"INIT", "PREPROCESS", "RUN"} /\ inside \in {"yes", "no"}
  BY <1>i, PyHttpBounds DEF handler, PyHttpTypeOK
<1>1. ASSUME PreprocessPlain  PROVE PyHttpInv'
  <2>1. rqnext = Len(calls) + 1 /\ rqnext <= Prereqs /\ fsm # "RUN" /\ Scheduled /\ refused = "no" /\ py_coro = "none"
    BY <1>1, <1>i, <1>h DEF PreprocessPlain, Preprocessing, Progress, Scheduled
  <2>2. /\ calls' = Append(calls, rqnext) /\ rqnext' = rqnext + 1 /\ fsm' = "PREPROCESS"
        /\ (Answers \/ Silent) /\ UNCHANGED <<py_coro, asleep, raised, sleeps>>
        /\ \/ Silent /\ inside' = "yes" /\ UNCHANGED <<request, refused>>
           \/ refused' = "yes" /\ request' = "done" /\ inside' = "no"
    BY <1>1, Zenon DEF PreprocessPlain
  <2> QED  BY <1>h, <2>1, <2>2, Called DEF Scheduled
<1>2. ASSUME PreprocessCoro  PROVE PyHttpInv'
  <2>1. rqnext = Len(calls) + 1 /\ rqnext <= Prereqs /\ fsm # "RUN" /\ Scheduled /\ refused = "no" /\ py_coro = "none"
    BY <1>2, <1>i, <1>h DEF PreprocessCoro, Preprocessing, Progress, Scheduled
  <2>2. Answers \/ Silent
    BY <1>2, Zenon DEF PreprocessCoro, Answers
  <2>3. /\ calls' = Append(calls, rqnext) /\ rqnext' = rqnext + 1 /\ fsm' = "PREPROCESS"
        /\ UNCHANGED <<request, refused>> /\ inside' \in {"yes", "no"} /\ sleeps' \in 0 .. MaxSleeps
        /\ raised' \in {"yes", "no"} /\ (raised' = "no" => raised = "no" /\ Silent)
        /\ \/ py_coro' = "pre" /\ asleep' = "yes"
           \/ UNCHANGED <<py_coro, asleep>>
    BY <1>2, <1>h DEF PreprocessCoro
  <2> QED  BY <1>h, <2>1, <2>2, <2>3, Called DEF Scheduled
<1>3. ASSUME python_runtime_http_request  PROVE PyHttpInv'
  <2>1. Answers \/ Silent
    BY <1>3, Zenon DEF python_runtime_http_request, Answers
  <2>2. /\ Streams' /\ StreamGoesOn' /\ answers' \in Nat /\ answers' <= answers + 1
        /\ busy' \in {"yes", "no"} /\ items' \in 0 .. MaxItems /\ queued' \in {"yes", "no"}
        /\ remove' \in {"none", "no", "yes", "freed"} /\ ended' \in Nat
    BY <1>i, <2>1, AnswersKeep, Zenon DEF Answering
  <2>3. /\ request = "active" /\ asleep = "no" /\ py_coro # "none" /\ UNCHANGED <<fsm, rqnext, calls, refused, inside>>
        /\ \/ /\ sleeps' \in 0 .. MaxSleeps /\ asleep' = "yes" /\ Silent /\ UNCHANGED <<py_coro, request, raised>>
           \/ /\ py_coro' = "none" /\ asleep' = "no" /\ UNCHANGED sleeps
              /\ request' = (IF fsm # "PREPROCESS" THEN "done" ELSE request)
              /\ \/ py_coro = "pre" /\ Silent /\ UNCHANGED raised
                 \/ py_coro = "pre" /\ raised' = "yes"
                 \/ py_coro = "handler" /\ UNCHANGED raised
    BY <1>3, <1>h DEF python_runtime_http_request, Scheduled
  <2>4. PyHttpTypeOK'
    BY <1>i, <2>2, <2>3, Zenon DEF PyHttpTypeOK
  <2>5. /\ (py_coro = "handler" => fsm = "RUN") /\ (py_coro = "pre" => fsm = "PREPROCESS") /\ refused # "yes"
        /\ Len(calls) = (IF fsm = "RUN" THEN handler ELSE rqnext - 1) /\ (fsm = "RUN" => rqnext = handler)
    BY <1>i, <2>3, Zenon DEF Progress
  <2>6. PrereqsFirst'
    BY <1>i, <1>h, <2>3, <2>5, Zenon DEF PrereqsFirst
  <2>7. Progress'
    BY <1>h, <2>3, <2>5, Zenon DEF Progress
  <2>8. Unanswered'
    <3>1. answers \in Nat /\ (raised = "no" => answers = 0) /\ (Silent => answers' = answers)
      BY <1>i, <2>3, Zenon DEF Unanswered, PyHttpTypeOK, Silent
    <3> QED  BY <2>2, <2>3, <2>5, <3>1 DEF Unanswered
  <2> QED  BY <2>2, <2>4, <2>6, <2>7, <2>8 DEF PyHttpInv
<1>4. ASSUME CallsHandler  PROVE PyHttpInv'
  <2>1. handler = Len(calls) + 1 /\ rqnext = handler /\ Scheduled /\ refused = "no" /\ py_coro = "none"
    BY <1>4, <1>i, <1>h DEF CallsHandler, Preprocessing, Scheduled, Progress
  <2>2. /\ fsm' = "RUN" /\ calls' = Append(calls, handler) /\ inside' = "no"
        /\ UNCHANGED <<rqnext, refused, raised>> /\ sleeps' \in 0 .. MaxSleeps
        /\ \/ Answers /\ request' = "done" /\ UNCHANGED <<py_coro, asleep>>
           \/ py_coro' = "handler" /\ asleep' = "yes" /\ Silent /\ UNCHANGED request
    BY <1>4, <1>h DEF CallsHandler
  <2>3. handler \in 1 .. handler /\ (Answers \/ Silent)
    BY <1>h, <2>2
  <2> QED  BY <1>h, <2>1, <2>2, <2>3, Called, Zenon DEF Scheduled
<1>5. ASSUME Wakeup \/ http_request_free  PROVE PyHttpInv'
  <2>1. /\ UNCHANGED <<fsm, rqnext, calls, refused, raised, answers, stream, inside, sleeps>>
        /\ asleep' = "no" /\ request' \in {request, "freed"} /\ py_coro' \in {py_coro, "none"}
        /\ (request' # "freed" => request = "active" /\ py_coro' = py_coro)
        /\ (request' = "freed" => py_coro' = "none")
    BY <1>5, <1>h, Zenon DEF Wakeup, http_request_free
  <2>2. Streams' /\ StreamGoesOn'
    BY <1>i, <2>1, Zenon DEF stream, Streams, StreamGoesOn
  <2>3. PyHttpTypeOK'
    BY <1>i, <2>1 DEF stream, PyHttpTypeOK
  <2>4. PrereqsFirst'
    BY <1>i, <2>1, Zenon DEF PrereqsFirst
  <2>5. Progress'
    BY <1>i, <2>1, Zenon DEF Progress
  <2>6. Unanswered'
    BY <1>i, <2>1, Zenon DEF Unanswered
  <2> QED  BY <2>2, <2>3, <2>4, <2>5, <2>6 DEF PyHttpInv
<1>6. ASSUME pyhttp_iterobj_chunk_sent \/ IteratorFails \/ pyhttp_iterobj_disconnect  PROVE PyHttpInv'
  <2>1. UNCHANGED <<fsm, rqnext, py_coro, asleep, request, calls, refused, raised, answers, inside, sleeps>>
    BY <1>6, Zenon DEF pyhttp_iterobj_chunk_sent, IteratorFails, pyhttp_iterobj_disconnect
  <2>2. /\ busy \in {"yes", "no"} /\ items \in 0 .. MaxItems /\ queued \in {"yes", "no"}
        /\ remove \in {"none", "no", "yes", "freed"} /\ ended \in Nat
    BY <1>i DEF PyHttpTypeOK
  <2>3. /\ Streams' /\ StreamGoesOn'
        /\ busy' \in {"yes", "no"} /\ items' \in 0 .. MaxItems /\ queued' \in {"yes", "no"}
        /\ remove' \in {"none", "no", "yes", "freed"} /\ ended' \in Nat
    <3>1. CASE pyhttp_iterobj_chunk_sent
      <4>1. CASE remove = "no" /\ items > 0
        <5>1. items' = items - 1 /\ UNCHANGED <<busy, queued, remove, ended>>
          BY <3>1, <4>1, Zenon DEF pyhttp_iterobj_chunk_sent
        <5>2. items' \in 0 .. MaxItems
          BY <2>2, <4>1, <5>1, PyHttpBounds
        <5> QED  BY <1>i, <2>2, <3>1, <5>1, <5>2, Zenon DEF pyhttp_iterobj_chunk_sent, Streams, StreamGoesOn
      <4>2. CASE ~ (remove = "no" /\ items > 0)
        <5>1. /\ queued = "yes" /\ busy' = "no" /\ queued' = "no" /\ remove' = "freed" /\ ended' = ended + 1
              /\ UNCHANGED items
          BY <3>1, <4>2 DEF pyhttp_iterobj_chunk_sent
        <5> QED  BY <1>i, <2>2, <5>1 DEF Streams, StreamGoesOn
      <4> QED  BY <4>1, <4>2
    <3>2. CASE IteratorFails
      BY <1>i, <2>2, <3>2, PyHttpBounds DEF IteratorFails, Streams, StreamGoesOn
    <3>3. CASE pyhttp_iterobj_disconnect
      BY <1>i, <2>2, <3>3, Zenon DEF pyhttp_iterobj_disconnect, Streams, StreamGoesOn
    <3> QED  BY <1>6, <3>1, <3>2, <3>3, Zenon
  <2> QED  BY <2>1, <2>3, Undisturbed, Zenon
<1>7. ASSUME UNCHANGED pyhttpVars  PROVE PyHttpInv'
  <2>1. UNCHANGED <<fsm, rqnext, py_coro, asleep, request, calls, refused, raised, answers, inside, sleeps>>
        /\ UNCHANGED stream
    BY <1>7, Zenon DEF pyhttpVars, stream
  <2>2. Streams' /\ StreamGoesOn'
    BY <1>i, <2>1, Zenon DEF stream, Streams, StreamGoesOn
  <2> QED  BY <1>i, <2>1, <2>2, Undisturbed, Zenon DEF stream, PyHttpTypeOK
<1> QED  BY <1>1, <1>2, <1>3, <1>4, <1>5, <1>6, <1>7 DEF PyHttpNext

\* Whatever the number of prerequests, the chunks and the suspensions, an HTTP
\* request in the Python runtime calls its functions once and in order, is
\* answered once unless the coroutine of a prerequest failed, and its stream
\* goes on until it has ended once (pyhttp_preprocess, python_coro_run,
\* pyhttp_iterobj_chunk_sent).
THEOREM RequestServed == PyHttpSpec => [](PrereqsFirst /\ AnsweredOnce /\ StreamGoesOn)
<1>1. PyHttpInv => PrereqsFirst /\ AnsweredOnce /\ StreamGoesOn
  BY SMTT(30) DEF PyHttpInv, Unanswered, AnsweredOnce, PyHttpTypeOK
<1> QED  BY <1>1, PyHttpInitial, PyHttpInductive, PTL DEF PyHttpSpec

\* Timers, requests and coroutines of a Python application together, for any
\* number of them (kore_timer_run, python_runtime_http_request,
\* pysocket_op_iternext).
THEOREM ApplicationServed == PythonLoopSpec => []PythonServed
<1>1. ListSound /\ PrereqsFirst /\ AnsweredOnce /\ StreamGoesOn /\ PipeSeen /\ ReapSeen /\ NothingLeft
        => PythonServed
  BY DEF PythonServed
<1> QED  BY <1>1, TimersKept, RequestServed, CoroutineSees, PTL DEF PythonLoopSpec
=============================================================================
