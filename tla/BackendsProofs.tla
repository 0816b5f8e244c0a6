--------------------------- MODULE BackendsProofs ---------------------------
(***************************************************************************)
(* Proofs about what a worker uses on behalf of requests, for any number   *)
(* of requests, connections, transfers, threads, slots and faults.  In     *)
(* Pgsql, ConnSound and QueueSound carry each other: a waiter has no       *)
(* connection, so waking it or dropping it takes none away.  In Curl, the  *)
(* sockets that libcurl uses are the ones that are watched, and a call     *)
(* back is made for a transfer that is still there.  In Engines, SlotInv   *)
(* says what a chosen slot is until it is filled: free, and nobody else's, *)
(* unless overlap has it.                                                  *)
(***************************************************************************)
EXTENDS Backends, TLAPS

Chooses(c) == call[c].at \in {"chosen", "started"}
Has(c) == call[c].at \in {"holds", "waited"}
Same(c, d) == call[c].kind = call[d].kind /\ call[c].slot = call[d].slot
Shared(c) == <<call[c].kind, call[c].slot>> \in overlap

SlotInv ==
    /\ \A c \in Callers :
          /\ call[c].at # "idle" => call[c].slot \in Slots
          /\ call[c].at \in {"started", "holds", "waited"} => call[c].id # 0
          /\ Chooses(c) /\ ~ Shared(c) => table[call[c].kind][call[c].slot] = 0
          /\ call[c].at = "started" => \A k \in Kinds, s \in Slots : table[k][s] # call[c].id
          /\ Has(c) /\ ~ Shared(c) => table[call[c].kind][call[c].slot] = call[c].id
          /\ call[c].at = "waited" => call[c].kind = "browser"
          /\ call[c].at = "waited" /\ ~ Shared(c) => call[c].id \notin chromium \cup exited
    /\ \A c \in Callers, d \in Callers :
          /\ c # d /\ call[c].at # "idle" /\ call[d].at # "idle" /\ Same(c, d) => Shared(c)
          /\ c # d /\ call[c].at = "started" /\ call[d].at = "started" => call[c].id # call[d].id

Chromiums ==
    (\A s \in Slots : <<"browser", s>> \notin overlap) =>
          \A p \in chromium \cup exited :
             \/ \E c \in Callers : call[c].at = "started" /\ call[c].kind = "browser" /\ call[c].id = p
             \/ \E s \in Slots : table["browser"][s] = p /\ \A t \in Slots \ {s} : table["browser"][t] # p

EnginesInv == EnginesTypeOK /\ SlotInv /\ Chromiums

\* All slots are free at the start.
LEMMA EnginesInitial == EnginesInit => EnginesInv
  BY EngineBounds, SMTT(30) DEF EnginesInit, EnginesInv, EnginesTypeOK, SlotInv, Chromiums, Idle, Kinds, Chooses, Has, Same, Shared

\* Every call and every end of a process keeps the types.
LEMMA TypeStep ==
    ASSUME EnginesInv, EnginesNext PROVE EnginesTypeOK'
<1> USE EngineBounds DEF EnginesInv, EnginesTypeOK, SlotInv, Kinds
<1>1. ASSUME NEW c \in Callers, NEW k \in Kinds, Choose(c, k) PROVE EnginesTypeOK'
  BY <1>1, SMTT(30) DEF Choose, Free, Choosing
<1>2. ASSUME NEW c \in Callers, Start(c) PROVE EnginesTypeOK'
  BY <1>2 DEF Start
<1>3. ASSUME NEW c \in Callers, ForkFails(c) PROVE EnginesTypeOK'
  BY <1>3, SMTT(30) DEF ForkFails, Idle
<1>4. ASSUME NEW c \in Callers, Store(c) PROVE EnginesTypeOK'
  BY <1>4 DEF Store
<1>5. ASSUME NEW c \in Callers, CloseWaits(c) PROVE EnginesTypeOK'
  BY <1>5 DEF CloseWaits, Idle
<1>6. ASSUME NEW c \in Callers, CloseFrees(c) PROVE EnginesTypeOK'
  BY <1>6, SMTT(30) DEF CloseFrees, Idle
<1>7. ASSUME NEW c \in Callers, agent_task_cancel(c) PROVE EnginesTypeOK'
  BY <1>7, SMTT(30) DEF agent_task_cancel, Idle
<1>8. ASSUME NEW p \in chromium, Exits(p) PROVE EnginesTypeOK'
  BY <1>8, Zenon DEF Exits
<1> QED
  BY <1>1, <1>2, <1>3, <1>4, <1>5, <1>6, <1>7, <1>8, SMTT(30) DEF EnginesNext

\* A slot that was chosen is not chosen, filled or emptied by another call,
\* or overlap says so.
LEMMA SlotStep ==
    ASSUME EnginesInv, EnginesNext PROVE SlotInv'
<1> USE EngineBounds DEF EnginesInv, EnginesTypeOK, SlotInv, Kinds, Chooses, Has, Same, Shared
<1>1. ASSUME NEW c \in Callers, NEW k \in Kinds, Choose(c, k) PROVE SlotInv'
  BY <1>1, SMTT(30) DEF Choose, Free, Choosing
<1>2. ASSUME NEW c \in Callers, Start(c) PROVE SlotInv'
  BY <1>2 DEF Start
<1>3. ASSUME NEW c \in Callers, ForkFails(c) PROVE SlotInv'
  BY <1>3, SMTT(30) DEF ForkFails, Idle
<1>4. ASSUME NEW c \in Callers, Store(c) PROVE SlotInv'
  BY <1>4 DEF Store
<1>5. ASSUME NEW c \in Callers, CloseWaits(c) PROVE SlotInv'
  BY <1>5 DEF CloseWaits, Idle
<1>6. ASSUME NEW c \in Callers, CloseFrees(c) PROVE SlotInv'
  <2>1. call[c].slot \in Slots /\ call[c].kind = "browser" /\ call[c].at = "waited"
    BY <1>6, Zenon DEF CloseFrees
  <2>2. /\ table' = [table EXCEPT !["browser"][call[c].slot] = 0] /\ call' = [call EXCEPT ![c] = Idle]
        /\ UNCHANGED <<chromium, exited, overlap>>
    BY <1>6, Zenon DEF CloseFrees
  <2>3. \A k \in Kinds, s \in Slots :
           table'[k][s] = IF k = "browser" /\ s = call[c].slot THEN 0 ELSE table[k][s]
    BY <2>1, <2>2, Zenon
  <2>4. \A d \in Callers : call'[d] = IF d = c THEN Idle ELSE call[d]
    BY <2>2, Zenon
  <2> HIDE DEF EnginesTypeOK
  <2>5. \A d \in Callers : d # c /\ call[d].at # "idle" /\ ~ Shared(d) =>
           ~ (call[d].kind = "browser" /\ call[d].slot = call[c].slot)
    BY <2>1, Zenon
  <2> QED
    BY <2>1, <2>2, <2>3, <2>4, <2>5, SMTT(30) DEF Idle, EnginesTypeOK
<1>7. ASSUME NEW c \in Callers, agent_task_cancel(c) PROVE SlotInv'
  BY <1>7, SMTT(30) DEF agent_task_cancel, Idle
<1>8. ASSUME NEW p \in chromium, Exits(p) PROVE SlotInv'
  BY <1>8, SMTT(30) DEF Exits
<1> HIDE DEF EnginesInv, EnginesTypeOK, SlotInv, Chromiums
<1> QED
  BY <1>1, <1>2, <1>3, <1>4, <1>5, <1>6, <1>7, <1>8, Zenon DEF EnginesNext

\* A Chromium process stays named until browser_close has waited for it.
LEMMA ProcessStep ==
    ASSUME EnginesInv, EnginesNext PROVE Chromiums'
<1> USE EngineBounds DEF EnginesInv, EnginesTypeOK, SlotInv, Chromiums, Kinds, Chooses, Has, Same, Shared
<1>1. ASSUME NEW c \in Callers, NEW k \in Kinds, Choose(c, k) PROVE Chromiums'
  BY <1>1, SMTT(30) DEF Choose, Free, Choosing
<1>2. ASSUME NEW c \in Callers, Start(c) PROVE Chromiums'
  BY <1>2 DEF Start
<1>3. ASSUME NEW c \in Callers, ForkFails(c) PROVE Chromiums'
  <2>1. UNCHANGED <<table, chromium, exited, overlap>> /\ call[c].at = "chosen"
    BY <1>3, Zenon DEF ForkFails
  <2>2. \A d \in Callers : d # c => call'[d] = call[d]
    BY <1>3, Zenon DEF ForkFails, Idle
  <2>3. Chromiums
    BY Zenon
  <2> HIDE DEF EnginesInv, EnginesTypeOK, SlotInv
  <2> QED
    BY <2>1, <2>2, <2>3
<1>4. ASSUME NEW c \in Callers, Store(c) PROVE Chromiums'
  <2> SUFFICES ASSUME \A s \in Slots : <<"browser", s>> \notin overlap, NEW p \in chromium \cup exited
               PROVE  \/ \E d \in Callers : call'[d].at = "started" /\ call'[d].kind = "browser" /\ call'[d].id = p
                      \/ \E s \in Slots : table'["browser"][s] = p /\ \A t \in Slots \ {s} : table'["browser"][t] # p
    BY <1>4, Zenon DEF Store
  <2>0. p # 0
    <3>1. p \in 1 .. ids /\ ids \in 0 .. MaxIds
      BY Zenon
    <3> QED
      BY <3>1, SMTT(30)
  <2>1. call[c].slot \in Slots /\ call[c].at = "started" /\ call[c].id # 0
    BY <1>4, Zenon DEF Store
  <2>2. \A k \in Kinds, s \in Slots :
           table'[k][s] = IF k = call[c].kind /\ s = call[c].slot THEN call[c].id ELSE table[k][s]
    BY <1>4, <2>1 DEF Store
  <2>3. \A d \in Callers : d # c => call'[d] = call[d]
    BY <1>4 DEF Store
  <2>old. \/ \E d \in Callers : call[d].at = "started" /\ call[d].kind = "browser" /\ call[d].id = p
          \/ \E s \in Slots : table["browser"][s] = p /\ \A t \in Slots \ {s} : table["browser"][t] # p
    BY Zenon
  <2>4. CASE call[c].kind = "agent"
    <3>1. \A s \in Slots : table'["browser"][s] = table["browser"][s]
      BY <2>2, <2>4, Zenon
    <3> HIDE DEF EnginesInv, EnginesTypeOK, SlotInv, Chromiums
    <3>2. CASE \E d \in Callers : call[d].at = "started" /\ call[d].kind = "browser" /\ call[d].id = p
      BY <2>3, <2>4, <3>2, Zenon
    <3>3. CASE \E s \in Slots : table["browser"][s] = p /\ \A t \in Slots \ {s} : table["browser"][t] # p
      BY <3>1, <3>3, SMTT(30)
    <3> QED
      BY <2>old, <3>2, <3>3, Zenon
  <2>5. CASE call[c].kind = "browser" /\ p = call[c].id
    <3>1. \A t \in Slots : table["browser"][t] # p
      BY <2>1, <2>5, Zenon
    <3>2. table'["browser"][call[c].slot] = p /\ \A t \in Slots \ {call[c].slot} : table'["browser"][t] # p
      BY <2>1, <2>2, <2>5, <3>1, Zenon
    <3> QED
      BY <2>1, <3>2, Zenon
  <2>6. CASE call[c].kind = "browser" /\ p # call[c].id
    <3>1. table["browser"][call[c].slot] = 0
      BY <2>1, <2>6, Zenon
    <3>2. CASE \E d \in Callers : call[d].at = "started" /\ call[d].kind = "browser" /\ call[d].id = p
      BY <2>3, <2>6, <3>2, Zenon
    <3>3. CASE \E s \in Slots : table["browser"][s] = p /\ \A t \in Slots \ {s} : table["browser"][t] # p
      BY <2>0, <2>1, <2>2, <2>6, <3>1, <3>3, SMTT(30)
    <3> QED
      BY <2>old, <3>2, <3>3, Zenon
  <2> HIDE DEF EnginesInv, EnginesTypeOK, SlotInv, Chromiums
  <2>7. call[c].kind \in {"browser", "agent"}
    BY DEF EnginesInv, EnginesTypeOK, Kinds
  <2> QED
    BY <2>4, <2>5, <2>6, <2>7, Zenon
<1>5. ASSUME NEW c \in Callers, CloseWaits(c) PROVE Chromiums'
  <2>1. UNCHANGED <<table, overlap>> /\ call[c].at = "holds"
    BY <1>5, Zenon DEF CloseWaits
  <2>2. chromium' \cup exited' \subseteq chromium \cup exited
    BY <1>5, Zenon DEF CloseWaits
  <2>3. \A d \in Callers : d # c => call'[d] = call[d]
    BY <1>5, SMTT(30) DEF CloseWaits, Idle
  <2>4. Chromiums
    BY Zenon
  <2> HIDE DEF EnginesInv, EnginesTypeOK, SlotInv
  <2> QED
    BY <2>1, <2>2, <2>3, <2>4
<1>6. ASSUME NEW c \in Callers, CloseFrees(c) PROVE Chromiums'
  <2> SUFFICES ASSUME \A s \in Slots : <<"browser", s>> \notin overlap, NEW p \in chromium \cup exited
               PROVE  \/ \E d \in Callers : call'[d].at = "started" /\ call'[d].kind = "browser" /\ call'[d].id = p
                      \/ \E s \in Slots : table'["browser"][s] = p /\ \A t \in Slots \ {s} : table'["browser"][t] # p
    BY <1>6, Zenon DEF CloseFrees
  <2>0. p # 0
    <3>1. p \in 1 .. ids /\ ids \in 0 .. MaxIds
      BY Zenon
    <3> QED
      BY <3>1
  <2>1. /\ call[c].slot \in Slots /\ call[c].at = "waited" /\ call[c].kind = "browser"
        /\ call[c].id \notin chromium \cup exited /\ table["browser"][call[c].slot] = call[c].id
    BY <1>6, Zenon DEF CloseFrees
  <2>2. \A s \in Slots : table'["browser"][s] = IF s = call[c].slot THEN 0 ELSE table["browser"][s]
    <3>1. table' = [table EXCEPT !["browser"][call[c].slot] = 0]
      BY <1>6, Zenon DEF CloseFrees
    <3>2. table \in [{"browser", "agent"} -> [Slots -> 0 .. ids]]
      BY Zenon
    <3> HIDE DEF EnginesInv, EnginesTypeOK, SlotInv, Chromiums
    <3> QED
      BY <3>1, <3>2, Zenon
  <2>3. \A d \in Callers : d # c => call'[d] = call[d]
    BY <1>6, Zenon DEF CloseFrees
  <2>4. CASE \E d \in Callers : call[d].at = "started" /\ call[d].kind = "browser" /\ call[d].id = p
    <3> HIDE DEF EnginesInv, EnginesTypeOK, SlotInv, Chromiums
    <3> QED
      BY <2>1, <2>3, <2>4, Zenon
  <2>5. CASE \E s \in Slots : table["browser"][s] = p /\ \A t \in Slots \ {s} : table["browser"][t] # p
    BY <2>0, <2>1, <2>2, <2>5, SMTT(30)
  <2> QED
    BY <2>4, <2>5, Zenon
<1>7. ASSUME NEW c \in Callers, agent_task_cancel(c) PROVE Chromiums'
  BY <1>7, Zenon DEF agent_task_cancel, Idle
<1>8. ASSUME NEW p \in chromium, Exits(p) PROVE Chromiums'
  <2>1. chromium' \cup exited' = chromium \cup exited /\ UNCHANGED <<table, call, overlap>>
    BY <1>8 DEF Exits
  <2> HIDE DEF EnginesInv, EnginesTypeOK, SlotInv
  <2> QED
    BY <2>1, Zenon DEF EnginesInv
<1> HIDE DEF EnginesInv, EnginesTypeOK, SlotInv, Chromiums
<1> QED
  BY <1>1, <1>2, <1>3, <1>4, <1>5, <1>6, <1>7, <1>8 DEF EnginesNext

\* The slots stay as SlotInv says, whatever the threads do.
LEMMA EnginesInductive == ASSUME EnginesInv, [EnginesNext]_enginesVars PROVE EnginesInv'
<1>1. CASE EnginesNext
  BY <1>1, TypeStep, SlotStep, ProcessStep, SMTT(30) DEF EnginesInv
<1>2. CASE UNCHANGED enginesVars
  BY <1>2, SMTT(30) DEF enginesVars, EnginesInv, EnginesTypeOK, SlotInv, Chromiums, Kinds, Chooses, Has, Same, Shared
<1> QED
  BY <1>1, <1>2, SMTT(30)

\* browser_launch and agent_task_create give every caller a slot of its own,
\* which names its browser or task until it is closed, and no Chromium process
\* is forgotten, for any number of threads and slots, as long as no two calls
\* choose the same slot between the two times they hold the mutex.
THEOREM SlotsKept == EnginesSpec => []SlotsNamed
<1>1. EnginesInit => EnginesInv
  BY EnginesInitial
<1>2. EnginesInv /\ [EnginesNext]_enginesVars => EnginesInv'
  BY EnginesInductive
<1>3. EnginesInv => SlotsNamed
  BY Zenon DEF EnginesInv, SlotInv, Chromiums, SlotsNamed, Has, Shared
<1> QED
  BY <1>1, <1>2, <1>3, PTL DEF EnginesSpec
-----------------------------------------------------------------------------
Holds(s, x) == \E i \in DOMAIN s : s[i] = x

Pool ==
    /\ IsInjective(free)
    /\ \A c \in Conns : conn[c] = "free" <=> Holds(free, c)
    /\ \A c \in Conns : conn[c] = "used" <=> \E q \in Queries : sql[q].conn = c
    /\ \A p, q \in Queries : sql[p].conn # Nobody /\ sql[p].conn = sql[q].conn => p = q
    /\ \A q \in Queries : sql[q].conn # Nobody => req[q] # "over"

Line ==
    /\ IsInjective(queue) /\ Len(queue) <= QueueLimit
    /\ \A q \in Queries : Holds(queue, q) => req[q] \in {"asleep", "deleted"} /\ sql[q].state = "INIT"
    /\ \A q \in Queries : sql[q].state = "INIT" => sql[q].conn = Nobody

PgsqlInv == PgsqlTypeOK /\ Pool /\ Line
-----------------------------------------------------------------------------
\* What TAILQ_INSERT_TAIL keeps of a list.
LEMMA Appended ==
    ASSUME NEW S, NEW s \in Seq(S), NEW x \in S
    PROVE  /\ Append(s, x) \in Seq(S) /\ Len(Append(s, x)) = Len(s) + 1
           /\ \A y : Holds(Append(s, x), y) <=> Holds(s, y) \/ y = x
           /\ IsInjective(s) /\ ~ Holds(s, x) => IsInjective(Append(s, x))
<1>1. Append(s, x) \in Seq(S) /\ Len(Append(s, x)) = Len(s) + 1
  OBVIOUS
<1> DEFINE t == Append(s, x)
<1>a. /\ DOMAIN t = 1 .. Len(s) + 1 /\ DOMAIN s = 1 .. Len(s) /\ Len(s) \in Nat
      /\ t[Len(s) + 1] = x /\ \A i \in 1 .. Len(s) : t[i] = s[i]
  OBVIOUS
<1> HIDE DEF t
<1>b. \A y : Holds(t, y) <=> Holds(s, y) \/ y = x
  <2>1. ASSUME NEW y, Holds(t, y) PROVE Holds(s, y) \/ y = x
    BY <1>a, <2>1 DEF Holds
  <2>2. ASSUME NEW y, Holds(s, y) PROVE Holds(t, y)
    BY <1>a, <2>2 DEF Holds
  <2>3. Holds(t, x)
    BY <1>a DEF Holds
  <2> QED
    BY <2>1, <2>2, <2>3
<1>2. \A y : Holds(Append(s, x), y) <=> Holds(s, y) \/ y = x
  BY <1>b DEF t
<1>3. IsInjective(s) /\ ~ Holds(s, x) => IsInjective(Append(s, x))
  BY DEF Holds, IsInjective
<1> QED
  BY <1>1, <1>2, <1>3

\* ... and what the removal of its first element keeps.
LEMMA Tailed ==
    ASSUME NEW S, NEW s \in Seq(S), s # << >>
    PROVE  /\ Tail(s) \in Seq(S) /\ Head(s) \in S /\ Holds(s, Head(s))
           /\ \A y : Holds(Tail(s), y) => Holds(s, y)
           /\ \A y : Holds(s, y) /\ y # Head(s) => Holds(Tail(s), y)
           /\ IsInjective(s) => IsInjective(Tail(s)) /\ ~ Holds(Tail(s), Head(s))
<1>1. /\ Tail(s) \in Seq(S) /\ Head(s) \in S /\ Head(s) = s[1]
      /\ Len(s) \in Nat \ {0} /\ Len(Tail(s)) = Len(s) - 1
      /\ \A i \in 1 .. Len(s) - 1 : Tail(s)[i] = s[i + 1]
  OBVIOUS
<1>2. DOMAIN s = 1 .. Len(s) /\ DOMAIN Tail(s) = 1 .. Len(s) - 1
  BY <1>1
<1>3. Holds(s, Head(s))
  BY <1>1, <1>2 DEF Holds
<1>4. \A y : Holds(Tail(s), y) => Holds(s, y)
  BY <1>1, <1>2 DEF Holds
<1>5. ASSUME NEW y, Holds(s, y), y # Head(s) PROVE Holds(Tail(s), y)
  <2>1. PICK i \in 1 .. Len(s) : s[i] = y
    BY <1>2, <1>5 DEF Holds
  <2>2. i # 1
    BY <1>1, <1>5, <2>1
  <2>3. i - 1 \in 1 .. Len(s) - 1 /\ Tail(s)[i - 1] = y
    BY <1>1, <2>1, <2>2
  <2> QED
    BY <1>2, <2>3, Zenon DEF Holds
<1>6. IsInjective(s) => IsInjective(Tail(s)) /\ ~ Holds(Tail(s), Head(s))
  BY <1>1, <1>2 DEF Holds, IsInjective
<1> QED
  BY <1>1, <1>3, <1>4, <1>5, <1>6, Zenon

\* The rest of the queue behind a waiter.
LEMMA Behind ==
    ASSUME NEW S, NEW s \in Seq(S), IsInjective(s), NEW i \in DOMAIN s
    PROVE  LET t == SubSeq(s, i + 1, Len(s))
           IN  /\ t \in Seq(S) /\ Len(t) <= Len(s) /\ IsInjective(t) /\ ~ Holds(t, s[i])
               /\ \A y : Holds(t, y) => Holds(s, y)
<1> DEFINE t == SubSeq(s, i + 1, Len(s))
<1>1. i \in 1 .. Len(s) /\ Len(s) \in Nat /\ DOMAIN s = 1 .. Len(s)
  OBVIOUS
<1>2. t \in Seq(S) /\ Len(t) = Len(s) - i /\ DOMAIN t = 1 .. Len(s) - i
  BY <1>1
<1>3. \A j \in 1 .. Len(s) - i : t[j] = s[i + j]
  BY <1>1
<1> HIDE DEF t
<1>4. IsInjective(t)
  <2> SUFFICES ASSUME NEW j \in 1 .. Len(s) - i, NEW k \in 1 .. Len(s) - i, t[j] = t[k] PROVE j = k
    BY <1>2 DEF IsInjective
  <2>1. s[i + j] = s[i + k] /\ i + j \in DOMAIN s /\ i + k \in DOMAIN s
    BY <1>1, <1>3
  <2>2. i + j = i + k
    BY <2>1 DEF IsInjective
  <2> QED
    BY <1>1, <2>2
<1>5. ~ Holds(t, s[i])
  BY <1>1, <1>2, <1>3 DEF Holds, IsInjective
<1>6. \A y : Holds(t, y) => Holds(s, y)
  BY <1>1, <1>2, <1>3 DEF Holds
<1> QED
  BY <1>1, <1>2, <1>4, <1>5, <1>6, SMTT(30) DEF t

\* What pgsql_queue_remove keeps of the queue.
LEMMA Removed ==
    ASSUME NEW S, NEW s \in Seq(S), IsInjective(s), NEW x
    PROVE  /\ Without(s, x) \in Seq(S) /\ Len(Without(s, x)) <= Len(s)
           /\ IsInjective(Without(s, x)) /\ ~ Holds(Without(s, x), x)
           /\ \A y : Holds(Without(s, x), y) => Holds(s, y)
<1>1. CASE ~ Holds(s, x)
  BY <1>1 DEF Without, Holds
<1>2. CASE Holds(s, x)
  <2> DEFINE i == CHOOSE j \in DOMAIN s : s[j] = x
             a == SubSeq(s, 1, i - 1)
             b == SubSeq(s, i + 1, Len(s))
  <2>1. i \in DOMAIN s /\ s[i] = x /\ DOMAIN s = 1 .. Len(s) /\ Len(s) \in Nat
    BY <1>2 DEF Holds
  <2>2. Without(s, x) = a \o b
    BY <1>2, Zenon DEF Without, Holds
  <2> HIDE DEF i
  <2>3. /\ a \in Seq(S) /\ Len(a) = i - 1 /\ \A j \in 1 .. i - 1 : a[j] = s[j]
        /\ b \in Seq(S) /\ Len(b) = Len(s) - i /\ \A j \in 1 .. Len(s) - i : b[j] = s[i + j]
    BY <2>1, SMTT(30)
  <2> HIDE DEF a, b
  <2> DEFINE t == a \o b
  <2>4. t \in Seq(S) /\ Len(t) = Len(s) - 1 /\ DOMAIN t = 1 .. Len(s) - 1
    <3>1. t \in Seq(S) /\ Len(t) = Len(a) + Len(b) /\ DOMAIN t = 1 .. Len(t)
      BY <2>3, SMTT(30)
    <3> HIDE DEF t
    <3>2. Len(t) = Len(s) - 1
      BY <2>1, <2>3, <3>1
    <3> QED
      BY <3>1, <3>2
  <2>5. \A j \in 1 .. Len(s) - 1 : t[j] = IF j < i THEN s[j] ELSE s[j + 1]
    <3> SUFFICES ASSUME NEW j \in 1 .. Len(s) - 1 PROVE t[j] = IF j < i THEN s[j] ELSE s[j + 1]
      BY Zenon
    <3>1. t[j] = IF j <= Len(a) THEN a[j] ELSE b[j - Len(a)]
      BY <2>1, <2>3
    <3> HIDE DEF t
    <3>2. CASE j < i
      BY <2>1, <2>3, <3>1, <3>2
    <3>3. CASE ~ (j < i)
      <4>1. t[j] = b[j - (i - 1)] /\ j - (i - 1) \in 1 .. Len(s) - i
        BY <2>1, <2>3, <3>1, <3>3, SMTT(30)
      <4>2. b[j - (i - 1)] = s[i + (j - (i - 1))]
        BY <2>3, <4>1, Zenon
      <4>3. i + (j - (i - 1)) = j + 1
        BY <2>1
      <4> QED
        BY <3>3, <4>1, <4>2, <4>3, Zenon
    <3> QED
      BY <3>2, <3>3
  <2> HIDE DEF t
  <2>6. IsInjective(t)
    <3> SUFFICES ASSUME NEW j \in 1 .. Len(s) - 1, NEW k \in 1 .. Len(s) - 1, t[j] = t[k] PROVE j = k
      BY <2>4, Zenon DEF IsInjective
    <3> DEFINE at(m) == IF m < i THEN m ELSE m + 1
    <3>1. at(j) \in DOMAIN s /\ at(k) \in DOMAIN s /\ s[at(j)] = t[j] /\ s[at(k)] = t[k]
      BY <2>1, <2>5
    <3>2. at(j) = at(k)
      BY <3>1, Zenon DEF IsInjective
    <3> QED
      BY <2>1, <3>2
  <2>7. ~ Holds(t, x)
    <3> SUFFICES ASSUME NEW j \in 1 .. Len(s) - 1, t[j] = x PROVE FALSE
      BY <2>4 DEF Holds
    <3>1. PICK m \in DOMAIN s : m # i /\ s[m] = x
      BY <2>1, <2>5
    <3> QED
      BY <2>1, <3>1 DEF IsInjective
  <2>8. \A y : Holds(t, y) => Holds(s, y)
    BY <2>1, <2>4, <2>5, SMTT(30) DEF Holds
  <2>9. Len(t) <= Len(s)
    BY <2>1, <2>4, SMTT(30)
  <2> QED
    BY <2>2, <2>4, <2>6, <2>7, <2>8, <2>9, Zenon DEF t
<1> QED
  BY <1>1, <1>2
Reqs == {"new", "awake", "asleep", "deleted", "over"}

\* pgsql_queue_wakeup takes waiters from the queue and wakes at most one; who
\* stays in the queue is left alone.
LEMMA Wakeup ==
    ASSUME NEW w \in Seq(Queries), NEW r \in [Queries -> Reqs], IsInjective(w), pgsql_queue_wakeup(w, r)
    PROVE  /\ queue' \in Seq(Queries) /\ Len(queue') <= Len(w) /\ IsInjective(queue')
           /\ req' \in [Queries -> Reqs]
           /\ \A q \in Queries : req'[q] # "awake" => req'[q] = r[q]
           /\ \A q \in Queries : Holds(queue', q) => Holds(w, q) /\ req'[q] = r[q]
<1>1. CASE queue' = << >> /\ req' = r
  <2>1. queue' \in Seq(Queries) /\ Len(queue') = 0 /\ DOMAIN queue' = {}
    BY <1>1
  <2>2. Len(w) \in Nat
    OBVIOUS
  <2> QED
    BY <1>1, <2>1, <2>2, SMTT(30) DEF Holds, IsInjective
<1>2. ASSUME NEW i \in Waiters(w, r), queue' = SubSeq(w, i + 1, Len(w)), req' = [r EXCEPT ![w[i]] = "awake"]
      PROVE  /\ queue' \in Seq(Queries) /\ Len(queue') <= Len(w) /\ IsInjective(queue')
             /\ req' \in [Queries -> Reqs]
             /\ \A q \in Queries : req'[q] # "awake" => req'[q] = r[q]
             /\ \A q \in Queries : Holds(queue', q) => Holds(w, q) /\ req'[q] = r[q]
  <2>1. i \in DOMAIN w /\ w[i] \in Queries
    BY <1>2 DEF Waiters
  <2>2. /\ queue' \in Seq(Queries) /\ Len(queue') <= Len(w) /\ IsInjective(queue') /\ ~ Holds(queue', w[i])
        /\ \A y : Holds(queue', y) => Holds(w, y)
    BY <1>2, <2>1, Behind, Zenon
  <2>3. req' \in [Queries -> Reqs] /\ \A q \in Queries : req'[q] = IF q = w[i] THEN "awake" ELSE r[q]
    BY <1>2, <2>1 DEF Reqs
  <2> QED
    BY <2>2, <2>3, Zenon
<1> QED
  BY <1>1, <1>2, Zenon DEF pgsql_queue_wakeup

-----------------------------------------------------------------------------
\* No connection is made and no request waits at the start.
LEMMA PgsqlInitial == PgsqlInit => PgsqlInv
<1> SUFFICES ASSUME PgsqlInit PROVE PgsqlInv
  OBVIOUS
<1>1. PgsqlTypeOK
  BY PgsqlBounds DEF PgsqlInit, PgsqlTypeOK
<1>2. Pool
  BY PgsqlBounds, SMTT(30) DEF PgsqlInit, Pool, Holds, IsInjective
<1>3. Line
  BY PgsqlBounds DEF PgsqlInit, Line, Holds, IsInjective
<1> QED
  BY <1>1, <1>2, <1>3 DEF PgsqlInv

\* A handler that gets a connection, from the list or a new one.
LEMMA GetsStep ==
    ASSUME PgsqlInv, NEW q \in Queries, SetupFree(q) \/ SetupNew(q) PROVE PgsqlInv'
<1> USE PgsqlBounds
<1>1. PICK c \in Conns :
         /\ Sends(q, c) /\ conn[c] # "used" /\ UNCHANGED <<queue, lost, gone, fails>> /\ Starts(q)
         /\ free' \in Seq(Conns) /\ IsInjective(free') /\ \A d \in Conns : Holds(free', d) <=> d # c /\ Holds(free, d)
  <2>1. CASE SetupFree(q)
    <3>1. Head(free) \in Conns /\ conn[Head(free)] = "free"
      BY <2>1, Tailed, Zenon DEF SetupFree, Usable, PgsqlInv, PgsqlTypeOK, Pool
    <3>2. /\ free' \in Seq(Conns) /\ IsInjective(free')
          /\ \A d \in Conns : Holds(free', d) <=> d # Head(free) /\ Holds(free, d)
      BY <2>1, Tailed DEF SetupFree, Usable, PgsqlInv, PgsqlTypeOK, Pool
    <3> QED
      BY <2>1, <3>1, <3>2, Zenon DEF SetupFree
  <2>2. CASE SetupNew(q)
    <3>1. PICK c \in Conns : conn[c] = "none" /\ Sends(q, c)
      BY <2>2 DEF SetupNew
    <3>2. \A d \in Conns : Holds(free, d) <=> d # c /\ Holds(free, d)
      BY <3>1, Zenon DEF PgsqlInv, Pool
    <3>3. UNCHANGED <<free, queue, lost, gone, fails>> /\ Starts(q)
      BY <2>2 DEF SetupNew
    <3>4. free \in Seq(Conns) /\ IsInjective(free)
      BY Zenon DEF PgsqlInv, PgsqlTypeOK, Pool
    <3> QED
      BY <3>1, <3>2, <3>3, <3>4, Zenon
  <2> QED
    BY <2>1, <2>2, Zenon
<1>2. sql[q].conn = Nobody /\ sql[q].state = "INIT" /\ \A p \in Queries : sql[p].conn # c
  BY <1>1 DEF PgsqlInv, Pool, Line, Starts
<1>3. PgsqlTypeOK'
  BY <1>1, Zenon DEF PgsqlInv, PgsqlTypeOK, Sends
<1>4. Pool'
  BY <1>1, <1>2, SMTT(30) DEF PgsqlInv, PgsqlTypeOK, Pool, Sends
<1>5. Line'
  BY <1>1, <1>2 DEF PgsqlInv, PgsqlTypeOK, Line, Sends, Starts, Holds
<1> QED
  BY <1>3, <1>4, <1>5 DEF PgsqlInv

\* A handler that gets none, or goes to sleep in the queue; results that come;
\* a connection that is lost; a client that goes away.
LEMMA SimpleStep ==
    ASSUME PgsqlInv, NEW q \in Queries,
           \/ SetupFails(q) \/ SetupWaits(q) \/ Continues(q) \/ kore_pgsql_handle(q)
           \/ pgsql_conn_cleanup(q) \/ ClientGone(q)
    PROVE  PgsqlInv'
<1> USE PgsqlBounds DEF PgsqlInv
<1>1. CASE SetupFails(q)
  <2>1. PgsqlTypeOK'
    <3>1. req' \in [Queries -> {"new", "awake", "asleep", "deleted", "over"}]
      BY <1>1, Zenon DEF SetupFails, PgsqlTypeOK
    <3>2. sql' \in [Queries -> [state : {"INIT", "WAIT", "RESULT", "DONE", "ERROR", "COMPLETE"},
                                conn : Conns \cup {Nobody}]]
      BY <1>1 DEF SetupFails, PgsqlTypeOK
    <3>3. fails' \in 0 .. MaxFails
      BY <1>1 DEF SetupFails, Fail, PgsqlTypeOK
    <3>4. UNCHANGED <<conn, tx, free, queue, lost, gone>>
      BY <1>1, Zenon DEF SetupFails
    <3> QED
      BY <3>1, <3>2, <3>3, <3>4, Zenon DEF PgsqlTypeOK
  <2>2. Pool'
    BY <1>1 DEF SetupFails, Starts, PgsqlTypeOK, Pool, Line, Holds
  <2>3. Line'
    BY <1>1, SMTT(30) DEF SetupFails, Starts, PgsqlTypeOK, Line, Holds
  <2> QED
    BY <2>1, <2>2, <2>3
<1>2. CASE SetupWaits(q)
  <2>1. ~ Holds(queue, q) /\ q \in Queries /\ queue \in Seq(Queries) /\ queue' = Append(queue, q)
    BY <1>2, Zenon DEF SetupWaits, Starts, PgsqlTypeOK, Line
  <2>2. /\ queue' \in Seq(Queries) /\ Len(queue') = Len(queue) + 1 /\ IsInjective(queue')
        /\ \A y : Holds(queue', y) <=> Holds(queue, y) \/ y = q
    BY <2>1, Appended, Zenon DEF Line
  <2>3. PgsqlTypeOK'
    BY <1>2, <2>2, Zenon DEF SetupWaits, PgsqlTypeOK
  <2>4. Pool'
    BY <1>2 DEF SetupWaits, PgsqlTypeOK, Pool, Holds
  <2>5. Len(queue') <= QueueLimit
    BY <1>2, <2>1, <2>2, SMTT(30) DEF SetupWaits
  <2>6. Line'
    BY <1>2, <2>1, <2>2, <2>5, Zenon DEF SetupWaits, Starts, PgsqlTypeOK, Line
  <2> QED
    BY <2>3, <2>4, <2>6
<1>3. CASE Continues(q)
  <2>1. PgsqlTypeOK'
    <3>1. PICK s \in {"WAIT", "RESULT", "DONE", "ERROR"} :
             /\ sql' = [sql EXCEPT ![q].state = s]
             /\ req' = [req EXCEPT ![q] = IF s = "WAIT" THEN "asleep" ELSE "awake"]
      BY <1>3, Zenon DEF Continues
    <3>2. req' \in [Queries -> {"new", "awake", "asleep", "deleted", "over"}]
      BY <3>1 DEF PgsqlTypeOK
    <3>3. sql' \in [Queries -> [state : {"INIT", "WAIT", "RESULT", "DONE", "ERROR", "COMPLETE"},
                                conn : Conns \cup {Nobody}]]
      BY <3>1 DEF PgsqlTypeOK
    <3>4. UNCHANGED <<conn, tx, free, queue, lost, gone, fails>>
      BY <1>3, Zenon DEF Continues
    <3> QED
      BY <3>2, <3>3, <3>4, Zenon DEF PgsqlTypeOK
  <2>2. Pool'
    BY <1>3 DEF Continues, PgsqlTypeOK, Pool, Holds
  <2>3. Line'
    BY <1>3, SMTT(30) DEF Continues, PgsqlTypeOK, Line, Holds
  <2> QED
    BY <2>1, <2>2, <2>3
<1>4. CASE kore_pgsql_handle(q)
  <2>1. PgsqlTypeOK'
    <3>1. PICK s \in {"RESULT", "DONE", "ERROR"} : sql' = [sql EXCEPT ![q].state = s]
      BY <1>4, Zenon DEF kore_pgsql_handle
    <3>2. sql' \in [Queries -> [state : {"INIT", "WAIT", "RESULT", "DONE", "ERROR", "COMPLETE"},
                                conn : Conns \cup {Nobody}]]
      <4> DEFINE R == [state : {"INIT", "WAIT", "RESULT", "DONE", "ERROR", "COMPLETE"}, conn : Conns \cup {Nobody}]
      <4>1. sql \in [Queries -> R]
        BY DEF PgsqlTypeOK
      <4>2. [sql[q] EXCEPT !.state = s] \in R
        BY <4>1
      <4> HIDE DEF R
      <4>3. sql' \in [Queries -> R]
        BY <3>1, <4>1, <4>2
      <4> QED
        BY <4>3 DEF R
    <3>3. req' \in [Queries -> {"new", "awake", "asleep", "deleted", "over"}]
      BY <1>4, Zenon DEF kore_pgsql_handle, PgsqlTypeOK
    <3>4. UNCHANGED <<conn, tx, free, queue, lost, gone, fails>>
      BY <1>4, Zenon DEF kore_pgsql_handle
    <3> QED
      BY <3>2, <3>3, <3>4, Zenon DEF PgsqlTypeOK
  <2>2. Pool'
    BY <1>4 DEF kore_pgsql_handle, PgsqlTypeOK, Pool, Holds
  <2>3. Line'
    BY <1>4 DEF kore_pgsql_handle, PgsqlTypeOK, Line, Holds
  <2> QED
    BY <2>1, <2>2, <2>3
<1>5. CASE pgsql_conn_cleanup(q)
  <2>1. PgsqlTypeOK'
    BY <1>5 DEF pgsql_conn_cleanup, PgsqlTypeOK
  <2>2. Pool'
    <3> DEFINE c == sql[q].conn
    <3>1. c \in Conns /\ conn[c] = "used"
      BY <1>5, Zenon DEF pgsql_conn_cleanup, PgsqlTypeOK, Pool
    <3>2. \A d \in Conns : conn'[d] = IF d = c THEN "none" ELSE conn[d]
      BY <1>5, <3>1, Zenon DEF pgsql_conn_cleanup, PgsqlTypeOK
    <3>3. \A p \in Queries : sql'[p].conn = IF p = q THEN Nobody ELSE sql[p].conn
      BY <1>5, Zenon DEF pgsql_conn_cleanup, PgsqlTypeOK
    <3>4. \A p \in Queries : req'[p] = "over" => req[p] = "over"
      BY <1>5, Zenon DEF pgsql_conn_cleanup, PgsqlTypeOK
    <3>5. free' = free
      BY <1>5, Zenon DEF pgsql_conn_cleanup
    <3> HIDE DEF c
    <3>6. \A d \in Conns : conn'[d] = "free" <=> Holds(free', d)
      BY <3>1, <3>2, <3>5 DEF Pool
    <3>7. \A d \in Conns : conn'[d] = "used" <=> \E p \in Queries : sql'[p].conn = d
      <4> USE DEF c
      <4> QED
        BY <3>1, <3>2, <3>3, PgsqlBounds DEF Pool
    <3>8. \A p, u \in Queries : sql'[p].conn # Nobody /\ sql'[p].conn = sql'[u].conn => p = u
      BY <3>3 DEF Pool
    <3>9. \A p \in Queries : sql'[p].conn # Nobody => req'[p] # "over"
      BY <3>3, <3>4, Zenon DEF Pool
    <3> QED
      BY <3>5, <3>6, <3>7, <3>8, <3>9, Zenon DEF Pool
  <2>3. Line'
    BY <1>5 DEF pgsql_conn_cleanup, PgsqlTypeOK, Line, Holds
  <2> QED
    BY <2>1, <2>2, <2>3
<1>6. CASE ClientGone(q)
  <2>1. PgsqlTypeOK'
    BY <1>6 DEF ClientGone, Alive, PgsqlTypeOK
  <2>2. Pool'
    BY <1>6 DEF ClientGone, Alive, PgsqlTypeOK, Pool, Holds
  <2>3. Line'
    BY <1>6 DEF ClientGone, Alive, PgsqlTypeOK, Line, Holds
  <2> QED
    BY <2>1, <2>2, <2>3
<1> QED
  BY <1>1, <1>2, <1>3, <1>4, <1>5, <1>6, Zenon

\* A list whose first element goes to its end holds what it held.
LEMMA Rotated ==
    ASSUME NEW S, NEW s \in Seq(S), s # << >>, IsInjective(s)
    PROVE  LET t == Append(Tail(s), Head(s))
           IN  t \in Seq(S) /\ IsInjective(t) /\ \A y : Holds(t, y) <=> Holds(s, y)
<1>1. /\ Tail(s) \in Seq(S) /\ Head(s) \in S /\ IsInjective(Tail(s)) /\ ~ Holds(Tail(s), Head(s))
      /\ Holds(s, Head(s)) /\ \A y : Holds(Tail(s), y) => Holds(s, y)
      /\ \A y : Holds(s, y) /\ y # Head(s) => Holds(Tail(s), y)
  BY Tailed
<1> QED
  BY <1>1, Appended, Zenon

\* A connection goes back to the list: the end of a request that had one, or of
\* one that is freed.
LEMMA CleanupStep ==
    ASSUME PgsqlInv, NEW q \in Queries, kore_pgsql_cleanup(q, "over"), UNCHANGED <<lost, gone, fails>>
    PROVE  PgsqlInv'
<1> DEFINE w == Without(queue, q)
           r == [req EXCEPT ![q] = "over"]
<1>1. /\ w \in Seq(Queries) /\ Len(w) <= Len(queue) /\ IsInjective(w) /\ ~ Holds(w, q)
      /\ \A y : Holds(w, y) => Holds(queue, y)
  BY Removed, Zenon DEF PgsqlInv, PgsqlTypeOK, Line
<1>2. r \in [Queries -> Reqs] /\ \A p \in Queries : r[p] = IF p = q THEN "over" ELSE req[p]
  BY DEF PgsqlInv, PgsqlTypeOK, Reqs
<1>l. Len(queue) \in Nat /\ Len(queue) <= QueueLimit /\ QueueLimit \in Nat /\ Len(w) \in Nat
  BY <1>1, PgsqlBounds DEF PgsqlInv, PgsqlTypeOK, Line
<1> HIDE DEF w, r
<1>3. CASE sql[q].conn # Nobody
  <2> DEFINE c == sql[q].conn
  <2>1. PICK t \in {"idle", "inerror"} :
           /\ conn' = [conn EXCEPT ![c] = "free"] /\ free' = Append(free, c)
           /\ tx' = [tx EXCEPT ![c] = t]
           /\ sql' = [sql EXCEPT ![q] = [state |-> "COMPLETE", conn |-> Nobody]]
           /\ pgsql_queue_wakeup(w, r)
    BY <1>3, Zenon DEF kore_pgsql_cleanup, pgsql_conn_release, w, r
  <2>2. c \in Conns /\ conn[c] = "used" /\ ~ Holds(free, c)
    BY <1>3 DEF PgsqlInv, PgsqlTypeOK, Pool
  <2>3. /\ free' \in Seq(Conns) /\ IsInjective(free') /\ \A y : Holds(free', y) <=> Holds(free, y) \/ y = c
    BY <2>1, <2>2, Appended, SMTT(30) DEF PgsqlInv, PgsqlTypeOK, Pool
  <2>4. /\ queue' \in Seq(Queries) /\ Len(queue') <= Len(w) /\ IsInjective(queue')
        /\ req' \in [Queries -> Reqs]
        /\ \A p \in Queries : req'[p] # "awake" => req'[p] = r[p]
        /\ \A p \in Queries : Holds(queue', p) => Holds(w, p) /\ req'[p] = r[p]
    BY <1>1, <1>2, <2>1, Wakeup, Zenon
  <2>5. PgsqlTypeOK'
    BY <2>1, <2>2, <2>3, <2>4, Zenon DEF PgsqlInv, PgsqlTypeOK, Reqs
  <2>6. Pool'
    <3>1. \A p \in Queries : sql'[p].conn = IF p = q THEN Nobody ELSE sql[p].conn
      BY <2>1, Zenon DEF PgsqlInv, PgsqlTypeOK
    <3>2. \A d \in Conns : conn'[d] = IF d = c THEN "free" ELSE conn[d]
      BY <2>1, Zenon DEF PgsqlInv, PgsqlTypeOK
    <3>3. \A d \in Conns : conn'[d] = "free" <=> Holds(free', d)
      <4>1. \A d \in Conns : conn[d] = "free" <=> Holds(free, d)
        BY DEF PgsqlInv, Pool
      <4> HIDE DEF c
      <4> QED
        BY <2>2, <2>3, <3>2, <4>1, Zenon
    <3>4. \A d \in Conns : conn'[d] = "used" <=> \E p \in Queries : sql'[p].conn = d
      <4>1. /\ \A d \in Conns : conn[d] = "used" <=> \E p \in Queries : sql[p].conn = d
            /\ \A p, u \in Queries : sql[p].conn # Nobody /\ sql[p].conn = sql[u].conn => p = u
        BY Zenon DEF PgsqlInv, Pool
      <4>2. Nobody \notin Conns
        BY PgsqlBounds
      <4> QED
        BY <1>3, <2>2, <3>1, <3>2, <4>1, <4>2, SMTT(30)
    <3>5. \A p \in Queries : sql'[p].conn # Nobody => req'[p] # "over"
      BY <1>2, <2>4, <3>1 DEF PgsqlInv, Pool
    <3>6. \A p, u \in Queries : sql'[p].conn # Nobody /\ sql'[p].conn = sql'[u].conn => p = u
      BY <3>1 DEF PgsqlInv, Pool
    <3> QED
      BY <2>3, <3>3, <3>4, <3>5, <3>6, Zenon DEF Pool
  <2>7. Len(queue') <= QueueLimit
    <3>1. Len(queue') \in Nat
      BY <2>4
    <3> QED
      BY <1>1, <1>l, <2>4, <3>1
  <2>8. Line'
    BY <1>1, <1>2, <2>1, <2>4, <2>7, SMTT(30) DEF PgsqlInv, PgsqlTypeOK, Line
  <2> QED
    BY <2>5, <2>6, <2>8, SMTT(30) DEF PgsqlInv
<1>4. CASE sql[q].conn = Nobody
  <2>1. queue' = w /\ req' = r /\ UNCHANGED <<conn, tx, free, sql, lost, gone, fails>>
    BY <1>4 DEF kore_pgsql_cleanup, w, r
  <2>2. PgsqlTypeOK'
    BY <1>1, <1>2, <2>1, SMTT(30) DEF PgsqlInv, PgsqlTypeOK, Reqs
  <2>3. Pool'
    BY <1>2, <1>4, <2>1, SMTT(30) DEF PgsqlInv, PgsqlTypeOK, Pool
  <2>4. Len(queue') <= QueueLimit
    BY <1>1, <1>l, <2>1, SMTT(30)
  <2>5. Line'
    BY <1>1, <1>2, <2>1, <2>4, Zenon DEF PgsqlInv, PgsqlTypeOK, Line
  <2> QED
    BY <2>2, <2>3, <2>5, SMTT(30) DEF PgsqlInv
<1> QED
  BY <1>3, <1>4

\* A rollback, or a query that cannot be sent: the connection goes to the end
\* of the list, or is gone, or is new in it, and a waiter is woken.
LEMMA WakesStep ==
    ASSUME PgsqlInv, NEW q \in Queries, Rollback(q) \/ SendFails(q) PROVE PgsqlInv'
<1>1. /\ sql[q].state = "INIT" /\ sql[q].conn = Nobody /\ ~ Holds(queue, q)
  BY Zenon DEF Rollback, SendFails, Starts, PgsqlInv, Line
<1>2. \E u \in {"awake", "over"} : pgsql_queue_wakeup(queue, [req EXCEPT ![q] = u])
  BY Zenon DEF Rollback, SendFails
<1>3. PICK u \in {"awake", "over"} : pgsql_queue_wakeup(queue, [req EXCEPT ![q] = u])
  BY <1>2, Zenon
<1> DEFINE v == [req EXCEPT ![q] = u]
<1>4. v \in [Queries -> Reqs] /\ \A p \in Queries : v[p] = IF p = q THEN u ELSE req[p]
  BY DEF PgsqlInv, PgsqlTypeOK, Reqs
<1> HIDE DEF v
<1>5. /\ queue' \in Seq(Queries) /\ Len(queue') <= Len(queue) /\ IsInjective(queue')
      /\ req' \in [Queries -> Reqs]
      /\ \A p \in Queries : req'[p] # "awake" => req'[p] = v[p]
      /\ \A p \in Queries : Holds(queue', p) => Holds(queue, p) /\ req'[p] = v[p]
  <2>1. pgsql_queue_wakeup(queue, v)
    BY <1>3 DEF v
  <2> QED
    BY <1>4, <2>1, Wakeup DEF PgsqlInv, PgsqlTypeOK, Line
<1>6. /\ sql' \in [Queries -> [state : {"INIT", "WAIT", "RESULT", "DONE", "ERROR", "COMPLETE"}, conn : Conns \cup {Nobody}]]
      /\ \A p \in Queries : sql'[p].conn = sql[p].conn /\ (p # q => sql'[p].state = sql[p].state)
  <2>1. CASE sql' = sql
    BY <2>1 DEF PgsqlInv, PgsqlTypeOK
  <2>2. CASE sql' = [sql EXCEPT ![q].state = "ERROR"]
    BY <2>2 DEF PgsqlInv, PgsqlTypeOK
  <2> QED
    BY <2>1, <2>2, Zenon DEF Rollback, SendFails
<1>7. /\ conn' \in [Conns -> {"none", "free", "used"}] /\ free' \in Seq(Conns) /\ IsInjective(free')
      /\ \A c \in Conns : conn'[c] = "free" <=> Holds(free', c)
      /\ \A c \in Conns : conn'[c] = "used" <=> conn[c] = "used"
  <2>1. CASE free # << >> /\ free' = Append(Tail(free), Head(free)) /\ UNCHANGED conn
    BY <2>1, Rotated, Zenon DEF PgsqlInv, PgsqlTypeOK, Pool
  <2>2. CASE free # << >> /\ free' = Tail(free) /\ conn' = [conn EXCEPT ![Head(free)] = "none"]
    <3>1. /\ Tail(free) \in Seq(Conns) /\ Head(free) \in Conns /\ IsInjective(Tail(free))
          /\ ~ Holds(Tail(free), Head(free)) /\ Holds(free, Head(free))
          /\ \A y : Holds(Tail(free), y) => Holds(free, y)
          /\ \A y : Holds(free, y) /\ y # Head(free) => Holds(Tail(free), y)
      BY <2>2, Tailed, Zenon DEF PgsqlInv, PgsqlTypeOK, Pool
    <3> QED
      BY <2>2, <3>1, SMTT(30) DEF PgsqlInv, PgsqlTypeOK, Pool
  <2>3. ASSUME NEW c \in Conns, free = << >>, conn[c] = "none", conn' = [conn EXCEPT ![c] = "free"], free' = <<c>>
        PROVE  /\ conn' \in [Conns -> {"none", "free", "used"}] /\ free' \in Seq(Conns) /\ IsInjective(free')
               /\ \A e \in Conns : conn'[e] = "free" <=> Holds(free', e)
               /\ \A e \in Conns : conn'[e] = "used" <=> conn[e] = "used"
    <3>1. free' \in Seq(Conns) /\ DOMAIN free' = {1} /\ free'[1] = c
      BY <2>3
    <3>2. \A d \in Conns : ~ Holds(free, d)
      BY <2>3 DEF Holds
    <3> QED
      BY <2>3, <3>1, <3>2, SMTT(30) DEF PgsqlInv, PgsqlTypeOK, Pool, Holds, IsInjective
  <2> QED
    BY <2>1, <2>2, <2>3, Zenon DEF Rollback, SendFails, Usable
<1>8. /\ tx' \in [Conns -> {"idle", "inerror"}] /\ lost' \in 0 .. MaxLost /\ gone' \in 0 .. MaxGone
      /\ fails' \in 0 .. MaxFails
  BY SMTT(30), PgsqlBounds DEF Rollback, SendFails, Fail, PgsqlInv, PgsqlTypeOK
<1>9. PgsqlTypeOK'
  BY <1>5, <1>6, <1>7, <1>8, Zenon DEF PgsqlTypeOK, Reqs
<1>10. Pool'
  <2>a. \A p \in Queries : sql'[p].conn = sql[p].conn
    BY <1>6, Zenon
  <2>b. /\ \A c \in Conns : conn[c] = "used" <=> \E p \in Queries : sql[p].conn = c
        /\ \A p, w \in Queries : sql[p].conn # Nobody /\ sql[p].conn = sql[w].conn => p = w
    BY DEF PgsqlInv, Pool
  <2>c. \A c \in Conns : conn'[c] = "used" <=> conn[c] = "used"
    BY <1>7, Zenon
  <2>1. \A c \in Conns : conn'[c] = "used" <=> \E p \in Queries : sql'[p].conn = c
    BY <2>a, <2>b, <2>c
  <2>2. \A p, w \in Queries : sql'[p].conn # Nobody /\ sql'[p].conn = sql'[w].conn => p = w
    BY <2>a, <2>b
  <2>3. \A p \in Queries : sql'[p].conn # Nobody => p # q /\ req[p] # "over"
    BY <1>1, <1>6, Zenon DEF PgsqlInv, Pool
  <2>4. \A p \in Queries : sql'[p].conn # Nobody => req'[p] # "over"
    BY <1>4, <1>5, <2>3, Zenon
  <2> QED
    BY <1>7, <2>1, <2>2, <2>4, Zenon DEF Pool
<1>11. Len(queue') <= QueueLimit
  BY <1>5, PgsqlBounds DEF PgsqlInv, PgsqlTypeOK, Line
<1>12. Line'
  <2>1. \A p \in Queries : Holds(queue', p) => p # q /\ Holds(queue, p) /\ req'[p] = req[p]
    <3> SUFFICES ASSUME NEW p \in Queries, Holds(queue', p)
                 PROVE  p # q /\ Holds(queue, p) /\ req'[p] = req[p]
      OBVIOUS
    <3>1. Holds(queue, p) /\ req'[p] = v[p]
      BY <1>5, Zenon
    <3>2. p # q
      BY <1>1, <3>1, Zenon
    <3> QED
      BY <1>4, <3>1, <3>2, Zenon
  <2>2. \A p \in Queries : Holds(queue', p) => req'[p] \in {"asleep", "deleted"} /\ sql'[p].state = "INIT"
    BY <1>6, <2>1, Zenon DEF PgsqlInv, Line
  <2>3. \A p \in Queries : sql'[p].state = "INIT" => sql'[p].conn = Nobody
    BY <1>1, <1>6, Zenon DEF PgsqlInv, Line
  <2> QED
    BY <1>5, <1>11, <2>2, <2>3, Zenon DEF Line
<1> QED
  BY <1>9, <1>10, <1>12, SMTT(30) DEF PgsqlInv

\* Every step of a handler, of the database or of a client keeps the invariant.
LEMMA PgsqlInductive == ASSUME PgsqlInv, [PgsqlNext]_pgsqlVars PROVE PgsqlInv'
<1>1. ASSUME NEW q \in Queries, Handler(q) PROVE PgsqlInv'
  <2>1. CASE Finishes(q)
    BY <2>1, CleanupStep DEF Finishes
  <2> QED
    BY <1>1, <2>1, GetsStep, SimpleStep, WakesStep, Zenon DEF Handler
<1>2. ASSUME NEW q \in Queries, Reap(q) PROVE PgsqlInv'
  BY <1>2, CleanupStep, SMTT(30) DEF Reap
<1>3. CASE UNCHANGED pgsqlVars
  BY <1>3 DEF pgsqlVars, PgsqlInv, PgsqlTypeOK, Pool, Line, Holds
<1> QED
  BY <1>1, <1>2, <1>3, SimpleStep, Zenon DEF PgsqlNext

\* The invariant in the words of Pgsql.
LEMMA PgsqlPromised == PgsqlInv => ConnSound /\ QueueSound
<1> SUFFICES ASSUME PgsqlInv PROVE ConnSound /\ QueueSound
  BY SMTT(30)
<1>1. ConnSound
  <2> SUFFICES ASSUME NEW c \in Conns
               PROVE  LET users == {q \in Queries : sql[q].conn = c}
                      IN  /\ (conn[c] = "free") <=> (\E i \in DOMAIN free : free[i] = c)
                          /\ users # {} <=> conn[c] = "used"
                          /\ \A q \in users : req[q] # "over" /\ users = {q}
    BY Zenon DEF PgsqlInv, Pool, ConnSound
  <2>1. (conn[c] = "free") <=> (\E i \in DOMAIN free : free[i] = c)
    BY Zenon DEF PgsqlInv, Pool, Holds
  <2>2. c # Nobody
    BY PgsqlBounds
  <2>3. \A p, q \in Queries : sql[p].conn = c /\ sql[q].conn = c => p = q /\ req[q] # "over"
    BY <2>2 DEF PgsqlInv, Pool
  <2>4. (\E q \in Queries : sql[q].conn = c) <=> conn[c] = "used"
    BY Zenon DEF PgsqlInv, Pool
  <2> QED
    BY <2>1, <2>3, <2>4
<1>2. QueueSound
  <2> SUFFICES ASSUME NEW i \in DOMAIN queue
               PROVE  /\ req[queue[i]] \in {"asleep", "deleted"}
                      /\ sql[queue[i]] = [state |-> "INIT", conn |-> Nobody]
    BY DEF PgsqlInv, Line, QueueSound
  <2>1. queue[i] \in Queries /\ Holds(queue, queue[i])
    BY DEF PgsqlInv, PgsqlTypeOK, Holds
  <2>2. sql[queue[i]] \in [state : {"INIT", "WAIT", "RESULT", "DONE", "ERROR", "COMPLETE"},
                           conn : Conns \cup {Nobody}]
    BY <2>1 DEF PgsqlInv, PgsqlTypeOK
  <2> QED
    BY <2>1, <2>2, Zenon DEF PgsqlInv, Line
<1> QED
  BY <1>1, <1>2

\* pgsql_conn_free, pgsql_wait_queue and the queries agree for any number of
\* requests and connections: no connection serves two requests or is in the
\* list while it is used, and a request waits in the queue at most once and
\* has no connection there, also when transactions are rolled back,
\* connections are lost and clients go away.
THEOREM ConnectionsSound == PgsqlSpec => [](ConnSound /\ QueueSound)
<1>1. PgsqlInit => PgsqlInv
  BY PgsqlInitial
<1>2. PgsqlInv /\ [PgsqlNext]_pgsqlVars => PgsqlInv'
  BY PgsqlInductive
<1>3. PgsqlInv => ConnSound /\ QueueSound
  BY PgsqlPromised
<1> QED
  BY <1>1, <1>2, <1>3, PTL DEF PgsqlSpec
-----------------------------------------------------------------------------
\* A descriptor belongs to one transfer, which is running.
Sockets ==
    /\ \A k, j \in Clients : sock[k] = sock[j] /\ sock[k] # 0 => k = j
    /\ \A k \in Clients : sock[k] # 0 => client[k] = "running"

\* A message is pending only until curl_process, and libcurl will be called
\* for every transfer that a request waits for.
Called ==
    \A k \in Clients :
        /\ client[k] = "finished" => stage # "loop"
        /\ client[k] = "running" /\ requester[k] = "asleep" => curlTimer = "armed" \/ immediate = "yes"

CurlInv == CurlTypeOK /\ Sockets /\ Called /\ WatchedAgree /\ ToldOnce

\* No socket is watched and nobody waits at the start.
LEMMA CurlInitial == CurlInit => CurlInv
<1> SUFFICES ASSUME CurlInit  PROVE CurlInv
  OBVIOUS
<1> USE CurlBounds DEF CurlInit
<1>1. CurlTypeOK
  <2>1. << >> \in Seq(SockFds)  OBVIOUS
  <2> QED  BY <2>1 DEF CurlTypeOK
<1>2. Sockets /\ Called /\ ToldOnce  BY DEF Sockets, Called, ToldOnce
<1>3. WatchedAgree  BY DEF WatchedAgree, UsedFds
<1> QED  BY <1>1, <1>2, <1>3, SMTT(30) DEF CurlInv

\* What libcurl may do when it is called: a transfer keeps its state or ends,
\* and the descriptors stay in order.
LEMMA SocketAction ==
    ASSUME CurlInv, NEW K \in SUBSET Clients, NEW runs \in Seq(SockFds), curl_multi_socket_action(K, runs)
    PROVE  /\ client' \in [Clients -> {"none", "running", "finished", "told", "clean"}]
           /\ sock' \in [Clients -> SockFds \cup {0}] /\ cached' \subseteq SockFds /\ epoll' \subseteq SockFds
           /\ runlist' \in Seq(SockFds) /\ steps' \in 0 .. MaxSteps /\ fatal' \in {"yes", "no"}
           /\ \A k \in Clients : client'[k] = client[k] \/ (client[k] = "running" /\ client'[k] = "finished")
           /\ Sockets' /\ WatchedAgree'
<1> USE CurlBounds
<1>i. CurlTypeOK /\ Sockets /\ WatchedAgree  BY SMTT(30) DEF CurlInv
<1>1. CASE NothingNew(runs)
  <2>1. runlist' = runs /\ UNCHANGED <<client, sock, cached, epoll, steps, fatal>>
    BY <1>1 DEF NothingNew
  <2>2. Sockets' /\ WatchedAgree'
    BY <1>i, <2>1 DEF Sockets, WatchedAgree, UsedFds
  <2> QED
    BY <1>i, <2>1, <2>2, Zenon DEF CurlTypeOK
<1>2. ASSUME NEW k \in K, Watches(k, runs)
      PROVE  /\ client' \in [Clients -> {"none", "running", "finished", "told", "clean"}]
             /\ sock' \in [Clients -> SockFds \cup {0}] /\ cached' \subseteq SockFds /\ epoll' \subseteq SockFds
             /\ runlist' \in Seq(SockFds) /\ steps' \in 0 .. MaxSteps /\ fatal' \in {"yes", "no"}
             /\ \A c \in Clients : client'[c] = client[c] \/ (client[c] = "running" /\ client'[c] = "finished")
             /\ Sockets' /\ WatchedAgree'
  <2>0. PICK fd \in SockFds : /\ IF sock[k] # 0 THEN fd = sock[k] ELSE LowestFree(fd)
                              /\ sock' = [sock EXCEPT ![k] = fd] /\ curl_socket_poll(fd, runs)
    BY <1>2, Zenon DEF Watches
  <2>1. client' = client /\ client[k] = "running" /\ steps' \in 0 .. MaxSteps
    BY <1>i, <1>2 DEF Watches, Transferring, CurlTypeOK
  <2>2. fd \in SockFds /\ fd # 0 /\ (\A j \in Clients : sock[j] = fd => j = k)
    <3>1. CASE sock[k] # 0
      BY <1>i, <2>0, <3>1 DEF CurlTypeOK, Sockets
    <3>2. CASE sock[k] = 0
      BY <1>i, <2>0, <3>2 DEF LowestFree, UsedFds
    <3> QED  BY <3>1, <3>2, Zenon
  <2>3. sock' \in [Clients -> SockFds \cup {0}] /\ client' \in [Clients -> {"none", "running", "finished", "told", "clean"}]
    BY <1>i, <2>0, <2>1, <2>2, Zenon DEF CurlTypeOK
  <2>4. \A j \in Clients : sock'[j] = IF j = k THEN fd ELSE sock[j]
    BY <1>i, <2>0, <2>1, Zenon DEF CurlTypeOK
  <2>5. /\ cached' = cached \cup {fd} /\ epoll' = epoll \cup {fd} /\ fatal' = "no"
        /\ runlist' = Append(runs, fd)
    BY <1>i, <2>0, <2>1, Zenon DEF curl_socket_poll, WatchedAgree
  <2>6. cached' \subseteq SockFds /\ epoll' \subseteq SockFds /\ fatal' \in {"yes", "no"}
    BY <1>i, <2>2, <2>5, Zenon DEF CurlTypeOK
  <2>7. runlist' \in Seq(SockFds)
    BY <2>2, <2>5, SMTT(30)
  <2>8. Sockets'
    BY <1>i, <2>0, <2>1, <2>2, <2>4, SMTT(30) DEF Sockets
  <2>9. WatchedAgree'
    <3>1. ASSUME NEW f \in epoll'  PROVE f \in {sock'[j] : j \in Clients} \ {0}
      <4>1. CASE f = fd
        BY <4>1, <2>2, <2>4, Zenon
      <4>2. CASE f \in epoll /\ f # fd
        <5>1. PICK j \in Clients : sock[j] = f /\ f # 0
          BY <4>2, <1>i, Zenon DEF WatchedAgree, UsedFds
        <5>2. CASE j = k
          BY <2>0, <5>1, <5>2, <4>2
        <5>3. CASE j # k
          BY <5>1, <5>3, <2>4, SMTT(30)
        <5> QED  BY <5>2, <5>3, Zenon
      <4> QED  BY <3>1, <4>1, <4>2, <2>5, Zenon
    <3> QED  BY <3>1, <2>5, <1>i, Zenon DEF WatchedAgree, UsedFds
  <2> QED  BY <2>0, <2>1, <2>3, <2>6, <2>7, <2>8, <2>9, Zenon
<1>3. ASSUME NEW k \in K, TransferEnds(k, runs)
      PROVE  /\ client' \in [Clients -> {"none", "running", "finished", "told", "clean"}]
             /\ sock' \in [Clients -> SockFds \cup {0}] /\ cached' \subseteq SockFds /\ epoll' \subseteq SockFds
             /\ runlist' \in Seq(SockFds) /\ steps' \in 0 .. MaxSteps /\ fatal' \in {"yes", "no"}
             /\ \A c \in Clients : client'[c] = client[c] \/ (client[c] = "running" /\ client'[c] = "finished")
             /\ Sockets' /\ WatchedAgree'
  <2> USE <1>i, <1>3 DEF TransferEnds, Transferring
  <2>1. /\ client' \in [Clients -> {"none", "running", "finished", "told", "clean"}]
        /\ sock' \in [Clients -> SockFds \cup {0}] /\ steps' \in 0 .. MaxSteps
        /\ \A c \in Clients : client'[c] = client[c] \/ (client[c] = "running" /\ client'[c] = "finished")
    BY DEF CurlTypeOK
  <2>2. \A j \in Clients : sock'[j] = IF j = k THEN 0 ELSE sock[j]
    BY DEF CurlTypeOK
  <2>3. /\ cached' = cached \ {sock[k]} /\ epoll' = epoll \ {sock[k]} /\ fatal' = "no" /\ runlist' = runs
    BY DEF curl_socket_remove, WatchedAgree, UsedFds
  <2>4. cached' \subseteq SockFds /\ epoll' \subseteq SockFds /\ fatal' \in {"yes", "no"} /\ runlist' \in Seq(SockFds)
    BY <2>3, Zenon DEF CurlTypeOK
  <2>5. Sockets'
    BY <2>2 DEF Sockets, CurlTypeOK
  <2>6. WatchedAgree'
    <3>1. ASSUME NEW f \in epoll'  PROVE f \in {sock'[j] : j \in Clients} \ {0}
      <4>1. f \in epoll /\ f # sock[k]  BY <2>3, Zenon
      <4>2. PICK j \in Clients : sock[j] = f /\ f # 0
        BY <4>1 DEF WatchedAgree, UsedFds
      <4>3. sock'[j] = f
        BY <4>1, <4>2, <2>2, Zenon
      <4> QED  BY <4>2, <4>3, Zenon
    <3> QED  BY <3>1, <2>3, Zenon DEF WatchedAgree, UsedFds
  <2> QED  BY <2>1, <2>4, <2>5, <2>6, Zenon
<1> QED  BY <1>1, <1>2, <1>3, Zenon DEF curl_multi_socket_action

\* Every call of libcurl, of its callbacks and of the loop keeps CurlInv.
LEMMA CurlInductive == CurlInv /\ [CurlNext]_curlVars => CurlInv'
<1> SUFFICES ASSUME CurlInv, [CurlNext]_curlVars  PROVE CurlInv'
  OBVIOUS
<1>i. CurlTypeOK /\ Sockets /\ Called /\ WatchedAgree /\ ToldOnce  BY DEF CurlInv
<1> USE CurlBounds, <1>i
<1>1. ASSUME NEW k \in Clients, kore_curl_run(k)  PROVE CurlInv'
  <2> USE <1>1 DEF kore_curl_run, curl_timer
  <2>1. CurlTypeOK'  BY Zenon DEF CurlTypeOK
  <2>2. Sockets'  BY Zenon DEF Sockets, CurlTypeOK
  <2>3. Called'  BY Zenon DEF Called, CurlTypeOK
  <2>4. WatchedAgree'  BY SMTT(30) DEF WatchedAgree, UsedFds
  <2>5. ToldOnce'  BY Zenon DEF ToldOnce, CurlTypeOK
  <2> QED  BY <2>1, <2>2, <2>3, <2>4, <2>5, Zenon DEF CurlInv
<1>2. ASSUME NEW k \in Clients, RequestGone(k)  PROVE CurlInv'
  <2> USE <1>2 DEF RequestGone
  <2>1. CurlTypeOK'  BY Zenon DEF CurlTypeOK
  <2>2. Sockets'  BY DEF Sockets
  <2>3. Called'  BY DEF Called, CurlTypeOK
  <2>4. WatchedAgree'  BY SMTT(30) DEF WatchedAgree, UsedFds
  <2>5. ToldOnce'  BY Zenon DEF ToldOnce, CurlTypeOK
  <2> QED  BY <2>1, <2>2, <2>3, <2>4, <2>5, Zenon DEF CurlInv
<1>3. ASSUME NEW k \in Clients, kore_curl_cleanup(k)  PROVE CurlInv'
  <2> USE <1>3 DEF kore_curl_cleanup
  <2>1. /\ cached' = cached \ {sock[k]} /\ epoll' = epoll \ {sock[k]} /\ fatal' = "no" /\ runlist' = runlist
    BY Zenon DEF curl_socket_remove, WatchedAgree, UsedFds
  <2>2. \A j \in Clients : sock'[j] = IF j = k THEN 0 ELSE sock[j]
    BY Zenon DEF CurlTypeOK
  <2>3. CurlTypeOK'  BY <2>1, Zenon DEF CurlTypeOK
  <2>4. Sockets'  BY <2>2 DEF Sockets, CurlTypeOK
  <2>5. Called'  BY Zenon DEF Called, CurlTypeOK
  <2>6. WatchedAgree'
    <3>1. ASSUME NEW f \in epoll'  PROVE f \in {sock'[j] : j \in Clients} \ {0}
      <4>1. f \in epoll /\ f # sock[k]  BY <2>1, Zenon
      <4>2. PICK j \in Clients : sock[j] = f /\ f # 0
        BY <4>1, Zenon DEF WatchedAgree, UsedFds
      <4>3. sock'[j] = f
        BY <4>1, <4>2, <2>2, Zenon
      <4> QED  BY <4>2, <4>3, Zenon
    <3>2. cached' = epoll' /\ fatal' = "no"
      BY <2>1, Zenon DEF WatchedAgree
    <3> QED  BY <3>1, <3>2, Zenon DEF WatchedAgree, UsedFds
  <2>7. ToldOnce'  BY DEF ToldOnce, Called, CurlTypeOK
  <2> QED  BY <2>3, <2>4, <2>5, <2>6, <2>7, Zenon DEF CurlInv
<1>4. ASSUME NEW fd \in SockFds, Event(fd)  PROVE CurlInv'
  <2> USE <1>4 DEF Event
  <2>1. CurlTypeOK'  BY SMTT(30) DEF CurlTypeOK
  <2>2. Sockets' /\ Called' /\ WatchedAgree' /\ ToldOnce'
    BY Zenon DEF Sockets, Called, WatchedAgree, UsedFds, ToldOnce
  <2> QED  BY <2>1, <2>2, Zenon DEF CurlInv
<1>5. ASSUME curl_timeout  PROVE CurlInv'
  <2> USE <1>5 DEF curl_timeout
  <2>1. PICK K \in {{k} : k \in Clients} \cup {{}} : curl_multi_socket_action(K, runlist)
    OBVIOUS
  <2>2. K \in SUBSET Clients /\ runlist \in Seq(SockFds)  BY SMTT(30) DEF CurlTypeOK
  <2>3. /\ client' \in [Clients -> {"none", "running", "finished", "told", "clean"}]
        /\ sock' \in [Clients -> SockFds \cup {0}] /\ cached' \subseteq SockFds /\ epoll' \subseteq SockFds
        /\ runlist' \in Seq(SockFds) /\ steps' \in 0 .. MaxSteps /\ fatal' \in {"yes", "no"}
        /\ \A k \in Clients : client'[k] = client[k] \/ (client[k] = "running" /\ client'[k] = "finished")
        /\ Sockets' /\ WatchedAgree'
    BY <2>1, <2>2, SocketAction, Zenon
  <2>4. CurlTypeOK'  BY <2>3, Zenon DEF CurlTypeOK, curl_timer
  <2>5. Called'  BY <2>3, Zenon DEF Called, curl_timer
  <2>6. ToldOnce'  BY <2>3, SMTT(30) DEF ToldOnce, CurlTypeOK
  <2> QED  BY <2>3, <2>4, <2>5, <2>6, Zenon DEF CurlInv
<1>6. ASSUME kore_curl_run_scheduled  PROVE CurlInv'
  BY <1>6, Zenon DEF kore_curl_run_scheduled, CurlInv, CurlTypeOK, Sockets, Called, WatchedAgree, UsedFds, ToldOnce
<1>7. ASSUME curl_run_handle  PROVE CurlInv'
  <2> USE <1>7 DEF curl_run_handle
  <2> DEFINE K == {k \in Clients : sock[k] = Head(runlist)}
  <2>1. curl_multi_socket_action(K, Tail(runlist))  OBVIOUS
  <2>2. K \in SUBSET Clients /\ Tail(runlist) \in Seq(SockFds)  BY SMTT(30) DEF CurlTypeOK
  <2> HIDE DEF K
  <2>3. /\ client' \in [Clients -> {"none", "running", "finished", "told", "clean"}]
        /\ sock' \in [Clients -> SockFds \cup {0}] /\ cached' \subseteq SockFds /\ epoll' \subseteq SockFds
        /\ runlist' \in Seq(SockFds) /\ steps' \in 0 .. MaxSteps /\ fatal' \in {"yes", "no"}
        /\ \A k \in Clients : client'[k] = client[k] \/ (client[k] = "running" /\ client'[k] = "finished")
        /\ Sockets' /\ WatchedAgree'
    BY <2>1, <2>2, SocketAction, Zenon
  <2>4. CurlTypeOK'  BY <2>3, Zenon DEF CurlTypeOK
  <2>5. Called'  BY <2>3, Zenon DEF Called
  <2>6. ToldOnce'  BY <2>3 DEF ToldOnce, CurlTypeOK
  <2> QED  BY <2>3, <2>4, <2>5, <2>6, Zenon DEF CurlInv
<1>8. ASSUME Process  PROVE CurlInv'
  <2> USE <1>8 DEF Process, curl_process
  <2>1. CurlTypeOK'  BY SMTT(30) DEF CurlTypeOK
  <2>2. Sockets'  BY Zenon DEF Sockets, CurlTypeOK
  <2>3. Called'  BY Zenon DEF Called, CurlTypeOK
  <2>4. WatchedAgree'  BY Zenon DEF WatchedAgree, UsedFds
  <2>5. ToldOnce'  BY SMTT(30) DEF ToldOnce, Called, CurlTypeOK
  <2> QED  BY <2>1, <2>2, <2>3, <2>4, <2>5, Zenon DEF CurlInv
<1>9. ASSUME UNCHANGED curlVars  PROVE CurlInv'
  BY <1>9, Zenon DEF curlVars, CurlInv, CurlTypeOK, Sockets, Called, WatchedAgree, UsedFds, ToldOnce
<1> QED  BY <1>1, <1>2, <1>3, <1>4, <1>5, <1>6, <1>7, <1>8, <1>9, Zenon DEF CurlNext

\* Whatever libcurl asks for, epoll_ctl refuses no descriptor of a transfer,
\* and a request that sleeps for a transfer is told of its end once and has a
\* timeout through which libcurl is called (curl_socket, curl_timer,
\* curl_process, kore_curl_cleanup).
THEOREM TransfersTold == CurlSpec => [](WatchedAgree /\ ToldOnce)
<1>1. CurlInv => WatchedAgree /\ ToldOnce
  BY SMTT(30) DEF CurlInv
<1> QED  BY <1>1, CurlInitial, CurlInductive, PTL DEF CurlSpec


\* The connections, transfers and browsers of a worker stay as BackendsSound
\* says, for any number of them and whatever fails (pgsql_queue_wakeup,
\* curl_socket, browser_launch).
THEOREM BackendsKept == BackendsSpec => []BackendsSound
<1>1. PgsqlSpec => []ConnSound /\ []QueueSound
  BY ConnectionsSound, PTL
<1>2. CurlSpec => []WatchedAgree /\ []ToldOnce
  BY TransfersTold, PTL
<1>3. ConnSound /\ QueueSound /\ WatchedAgree /\ ToldOnce /\ SlotsNamed => BackendsSound
  BY DEF BackendsSound
<1> QED  BY <1>1, <1>2, <1>3, SlotsKept, PTL DEF BackendsSpec
=============================================================================
