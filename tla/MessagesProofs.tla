--------------------------- MODULE MessagesProofs ---------------------------
(***************************************************************************)
(* Proofs about Messages, for any number of workers, messages and          *)
(* restarts.  What worker w has been given and what is on its way down to  *)
(* it are one sequence: Receive only moves the border between the two.     *)
(***************************************************************************)
EXTENDS Messages, FiniteSetTheorems, TLAPS

Traffic(w) == log[w] \o down[w]

\* The entries of conncache for worker w.
Entries(w) == {k \in DOMAIN conncache : owner[conncache[k]] = w}

\* Every worker, running or not, has the connection that names it, and every
\* restart so far has left at most one more entry in conncache.
Connected ==
    /\ \A w \in Workers : owner[msg0[w]] = w
    /\ \A w \in Workers : \E i \in DOMAIN conncache : conncache[i] = msg0[w]
    /\ \A i \in DOMAIN freelist : owner[freelist[i]] = "none"
    /\ \A w \in Workers :
          Cardinality(Entries(w)) <= IF w \in alive THEN 1 + restarts ELSE restarts

\* A message that the parent has yet to relay is newer than all it relayed for
\* the same sender, and no other message has its number.
Upwards ==
    /\ \A v \in Workers : \A j \in DOMAIN up[v] : up[v][j].src = v /\ up[v][j].num <= sent
    /\ \A v \in Workers : \A i, j \in DOMAIN up[v] : i < j => up[v][i].num < up[v][j].num
    /\ \A v, w \in Workers : \A i \in DOMAIN up[v], j \in DOMAIN up[w] :
          v # w => up[v][i].num # up[w][j].num

Downwards ==
    \A w \in Workers :
        /\ \A i \in DOMAIN Traffic(w) :
              /\ Traffic(w)[i].dst = w /\ Traffic(w)[i].to \in {"all", w}
              /\ Traffic(w)[i].num <= sent
        /\ \A i, j \in DOMAIN Traffic(w) :
              i < j /\ Traffic(w)[i].src = Traffic(w)[j].src
                => Traffic(w)[i].num <= Traffic(w)[j].num
        /\ \A i \in DOMAIN Traffic(w), v \in Workers : \A j \in DOMAIN up[v] :
              /\ Traffic(w)[i].num # up[v][j].num
              /\ Traffic(w)[i].src = v => Traffic(w)[i].num < up[v][j].num

Numbered(s, n) == {i \in DOMAIN s : s[i].num = n}

Counted ==
    \A w \in Workers : \A n \in 1 .. MaxSends :
        Cardinality(Numbered(Traffic(w), n)) <= 1 + restarts

MessagesInv == MessagesTypeOK /\ Connected /\ Upwards /\ Downwards /\ Counted
-----------------------------------------------------------------------------
\* What the sequence operations of the queues do to their elements.
LEMMA Headless ==
  ASSUME NEW S, NEW s \in Seq(S), s # << >>
  PROVE  /\ Tail(s) \in Seq(S) /\ Len(Tail(s)) = Len(s) - 1 /\ Head(s) = s[1] /\ s[1] \in S
         /\ \A i \in DOMAIN Tail(s) : i + 1 \in DOMAIN s /\ Tail(s)[i] = s[i + 1]
         /\ 1 \in DOMAIN s
  OBVIOUS

\* A pipe with one more message.
LEMMA Lengthened ==
  ASSUME NEW S, NEW s \in Seq(S), NEW x \in S
  PROVE  /\ Append(s, x) \in Seq(S) /\ Len(Append(s, x)) = Len(s) + 1
         /\ DOMAIN Append(s, x) = DOMAIN s \cup {Len(s) + 1}
         /\ \A i \in DOMAIN s : Append(s, x)[i] = s[i] /\ i < Len(s) + 1
         /\ Append(s, x)[Len(s) + 1] = x
  OBVIOUS

\* A message that is relayed at most once.
LEMMA Once ==
  ASSUME NEW S, NEW s \in Seq(S), NEW x \in S, NEW n \in {0, 1}
  PROVE  s \o [i \in 1 .. n |-> x] = IF n = 0 THEN s ELSE Append(s, x)
  <1>1. CASE n = 0
    <2>1. [i \in 1 .. n |-> x] = << >>
      BY <1>1
    <2> QED BY <1>1, <2>1
  <1>2. CASE n = 1
    <2>1. [i \in 1 .. n |-> x] = <<x>>
      BY <1>2
    <2>2. s \o <<x>> = Append(s, x)
      OBVIOUS
    <2> QED BY <1>2, <2>1, <2>2
  <1> QED BY <1>1, <1>2, Zenon

\* The elements of a concatenation.
LEMMA Glued ==
  ASSUME NEW S, NEW s \in Seq(S), NEW r \in Seq(S)
  PROVE  /\ s \o r \in Seq(S) /\ Len(s \o r) = Len(s) + Len(r)
         /\ \A i \in DOMAIN s : i \in DOMAIN (s \o r) /\ (s \o r)[i] = s[i]
         /\ \A i \in DOMAIN (s \o r) :
               i \notin DOMAIN s => /\ i > Len(s) /\ i - Len(s) \in DOMAIN r
                                    /\ (s \o r)[i] = r[i - Len(s)]
         /\ \A i \in DOMAIN r : Len(s) + i \in DOMAIN (s \o r) /\ (s \o r)[Len(s) + i] = r[i]
  BY SMTT(30)

\* Concatenation is associative.
LEMMA Reglued ==
  ASSUME NEW S, NEW s \in Seq(S), NEW r \in Seq(S), NEW q \in Seq(S)
  PROVE  s \o (r \o q) = (s \o r) \o q
  OBVIOUS

\* An element moves from the head of one sequence to the end of the one before.
LEMMA Moved ==
  ASSUME NEW S, NEW s \in Seq(S), NEW r \in Seq(S), r # << >>
  PROVE  Append(s, Head(r)) \o Tail(r) = s \o r
  <1>1. Append(s, Head(r)) \in Seq(S) /\ Len(Append(s, Head(r))) = Len(s) + 1
    OBVIOUS
  <1>2. Tail(r) \in Seq(S) /\ Len(Tail(r)) = Len(r) - 1
    OBVIOUS
  <1>3. Len(Append(s, Head(r)) \o Tail(r)) = Len(s \o r)
    BY <1>1, <1>2
  <1>4. ASSUME NEW i \in 1 .. Len(s) + Len(r)
        PROVE  (Append(s, Head(r)) \o Tail(r))[i] = (s \o r)[i]
    <2>1. CASE i <= Len(s) + 1
      BY <1>1, <1>2, <2>1
    <2>2. CASE i > Len(s) + 1
      <3>1. Tail(r)[i - (Len(s) + 1)] = r[i - Len(s)]
        BY <2>2
      <3>2. (Append(s, Head(r)) \o Tail(r))[i] = Tail(r)[i - (Len(s) + 1)]
        BY <1>1, <1>2, <2>2
      <3>3. (s \o r)[i] = r[i - Len(s)]
        BY <2>2
      <3> QED BY <3>1, <3>2, <3>3
    <2>3. i <= Len(s) + 1 \/ i > Len(s) + 1
      OBVIOUS
    <2> QED BY <2>1, <2>2, <2>3, Zenon
  <1> QED BY <1>1, <1>2, <1>3, <1>4

\* Places in a sequence can be counted.
LEMMA Indices ==
  ASSUME NEW S, NEW s \in Seq(S), NEW T \in SUBSET DOMAIN s
  PROVE  IsFiniteSet(T) /\ Cardinality(T) \in Nat
  <1>1. IsFiniteSet(1 .. Len(s))
    BY FS_Interval
  <1>2. T \in SUBSET (1 .. Len(s))
    OBVIOUS
  <1> QED BY <1>1, <1>2, FS_Subset, FS_CardinalityType

\* No message was sent at the start.
LEMMA MessagesInitial == MessagesInit => MessagesInv
  <1> SUFFICES ASSUME MessagesInit PROVE MessagesInv
    OBVIOUS
  <1> USE MessageBounds
  <1> DEFINE N == Cardinality(Workers)
  <1>0. N \in Nat /\ N <= PoolSize
    BY FS_CardinalityType
  <1>1. \A e \in 1 .. N : \E w \in Workers : msg0[w] = e
    <2>1. msg0 \in Injection(Workers, 1 .. N)
      BY DEF MessagesInit, Injection, IsInjective
    <2>2. IsFiniteSet(1 .. N) /\ Cardinality(1 .. N) = N
      BY <1>0, FS_Interval
    <2>3. msg0 \in Surjection(Workers, 1 .. N)
      BY <2>1, <2>2, FS_Injection
    <2> QED BY <2>3 DEF Surjection
  <1>2. \A e \in 1 .. N : owner[e] \in Workers /\ msg0[owner[e]] = e
    BY <1>0, <1>1 DEF MessagesInit, Elements
  <1>3. \A w \in Workers : owner[msg0[w]] = w
    <2> TAKE w \in Workers
    <2>1. msg0[w] \in 1 .. N
      BY DEF MessagesInit
    <2>2. \A v, u \in Workers : msg0[v] = msg0[u] => v = u
      BY DEF MessagesInit
    <2>3. owner[msg0[w]] \in Workers /\ msg0[owner[msg0[w]]] = msg0[w]
      BY <1>2, <2>1, Zenon
    <2> QED BY <2>2, <2>3
  <1>4. MessagesTypeOK
    <2>1. owner \in [Elements -> Workers \cup {"none"}]
      <3>1. ASSUME NEW e \in Elements
            PROVE  owner[e] \in Workers \cup {"none"}
        BY <1>0, <1>2 DEF MessagesInit, Elements
      <3> QED BY <3>1, Zenon DEF MessagesInit
    <2>2. freelist \in Seq(Elements) /\ conncache \in Seq(Elements)
      <3>1. freelist \in [1 .. PoolSize - N -> Elements] /\ PoolSize - N \in Nat
        BY <1>0 DEF MessagesInit, Elements
      <3>2. conncache \in [1 .. N -> Elements]
        BY <1>0 DEF MessagesInit, Elements
      <3> QED BY <1>0, <3>1, <3>2
    <2>3. msg0 \in [Workers -> Elements]
      BY <1>0 DEF MessagesInit, Elements
    <2> QED BY <2>1, <2>2, <2>3 DEF MessagesTypeOK, MessagesInit
  <1>5. \A w \in Workers : Traffic(w) = << >> /\ up[w] = << >>
    BY DEF Traffic, MessagesInit
  <1>6. Connected
    <2>1. \A w \in Workers : \E i \in DOMAIN conncache : conncache[i] = msg0[w]
      BY <1>0, Zenon DEF MessagesInit
    <2>2. \A i \in DOMAIN freelist : owner[freelist[i]] = "none"
      BY <1>0 DEF MessagesInit, Elements
    <2>3. ASSUME NEW w \in Workers
          PROVE  Cardinality(Entries(w)) <= IF w \in alive THEN 1 + restarts ELSE restarts
      <3>1. Entries(w) = {msg0[w]}
        <4>1. DOMAIN conncache = 1 .. N /\ (\A k \in 1 .. N : conncache[k] = k) /\ msg0[w] \in 1 .. N
          BY <1>0, Zenon DEF MessagesInit
        <4> QED BY <1>2, <1>3, <4>1 DEF Entries
      <3>2. Cardinality(Entries(w)) = 1
        BY <3>1, FS_Singleton, Zenon
      <3> QED BY <3>2 DEF MessagesInit
    <2> QED BY <1>3, <2>1, <2>2, <2>3 DEF Connected
  <1>7. Upwards /\ Downwards
    BY <1>5 DEF Upwards, Downwards
  <1>8. Counted
    <2>1. \A w \in Workers : \A n \in 1 .. MaxSends : Numbered(Traffic(w), n) = {}
      BY <1>5 DEF Numbered
    <2>2. Cardinality({}) = 0
      BY FS_EmptySet
    <2>3. restarts = 0
      BY DEF MessagesInit
    <2> QED BY <2>1, <2>2, <2>3 DEF Counted
  <1> QED BY <1>4, <1>6, <1>7, <1>8 DEF MessagesInv

\* No connection of the pool serves two workers.
LEMMA OneEach ==
  ASSUME MessagesInv
  PROVE  \A v, w \in Workers : msg0[v] = msg0[w] => v = w
  BY DEF MessagesInv, Connected

\* kore_msg_send: a message with the next number.
LEMMA SendKeeps ==
  ASSUME MessagesInv, NEW w \in Workers, NEW to \in Dst, Send(w, to)
  PROVE  MessagesInv'
  <1> DEFINE m == [num |-> sent + 1, src |-> w, to |-> to, dst |-> to]
  <1> USE MessageBounds DEF MessagesInv
  <1>1. sent \in Nat /\ sent < MaxSends /\ sent' = sent + 1 /\ m \in Message
    BY DEF Send, MessagesTypeOK, Message, Dst
  <1>2. /\ up'[w] = Append(up[w], m) /\ \A v \in Workers \ {w} : up'[v] = up[v]
        /\ UNCHANGED <<freelist, owner, msg0, conncache, down, alive, log, restarts>>
        /\ up' \in [Workers -> Seq(Message)]
    BY <1>1 DEF Send, MessagesTypeOK, poolVars
  <1>3. MessagesTypeOK'
    BY <1>1, <1>2, SMTT(30) DEF MessagesTypeOK
  <1>4. Connected' /\ Counted'
    <2>1. \A v \in Workers : Entries(v)' = Entries(v) /\ Traffic(v)' = Traffic(v)
      BY <1>2, Zenon DEF Entries, Traffic
    <2> QED BY <1>2, <2>1, Zenon DEF Connected, Counted
  <1>5. ASSUME NEW v \in Workers, NEW j \in DOMAIN up'[v]
        PROVE  \/ v = w /\ j = Len(up[w]) + 1 /\ up'[v][j] = m
               \/ j \in DOMAIN up[v] /\ up'[v][j] = up[v][j]
    <2>1. CASE v = w
      <3>1. up[w] \in Seq(Message)
        BY Zenon DEF MessagesTypeOK
      <3> QED BY <1>1, <1>2, <2>1, <3>1, Lengthened
    <2>2. CASE v # w
      BY <1>2, <2>2, Zenon
    <2> QED BY <2>1, <2>2, Zenon
  <1>6. \A v \in Workers : \A j \in DOMAIN up[v] : up[v][j].num <= sent /\ up[v][j].num \in Nat
    <2> TAKE v \in Workers
    <2> TAKE j \in DOMAIN up[v]
    <2>1. up[v] \in Seq(Message)
      BY DEF MessagesTypeOK
    <2>2. up[v][j] \in Message
      BY <2>1, SMTT(30)
    <2> QED BY <2>2 DEF Upwards, Message
  <1>7. Upwards'
    <2>1. ASSUME NEW v \in Workers, NEW j \in DOMAIN up'[v]
          PROVE  up'[v][j].src = v /\ up'[v][j].num <= sent'
      BY <1>1, <1>5, <1>6, <2>1, SMTT(30) DEF Upwards
    <2>2. ASSUME NEW v \in Workers, NEW i \in DOMAIN up'[v], NEW j \in DOMAIN up'[v], i < j
          PROVE  up'[v][i].num < up'[v][j].num
      <3>1. i \in DOMAIN up[v] /\ up'[v][i] = up[v][i]
        <4>1. Len(up[v]) \in Nat /\ DOMAIN up[v] = 1 .. Len(up[v])
          BY DEF MessagesTypeOK
        <4> QED BY <1>5, <2>2, <4>1
      <3> QED BY <1>1, <1>5, <1>6, <2>2, <3>1, SMTT(30) DEF Upwards
    <2>3. ASSUME NEW v \in Workers, NEW u \in Workers, v # u, NEW i \in DOMAIN up'[v], NEW j \in DOMAIN up'[u]
          PROVE  up'[v][i].num # up'[u][j].num
      BY <1>1, <1>5, <1>6, <2>3, SMTT(30) DEF Upwards
    <2> QED BY <2>1, <2>2, <2>3, SMTT(30) DEF Upwards
  <1>8. Downwards'
    <2>1. \A v \in Workers : Traffic(v)' = Traffic(v)
      BY <1>2, Zenon DEF Traffic
    <2>2. \A v \in Workers : \A i \in DOMAIN Traffic(v) : Traffic(v)[i].num \in Nat /\ Traffic(v)[i].num <= sent
      <3>1. \A v \in Workers : Traffic(v) \in Seq(Message)
        BY Glued, Zenon DEF Traffic, MessagesTypeOK
      <3> TAKE v \in Workers
      <3> TAKE i \in DOMAIN Traffic(v)
      <3>2. Traffic(v)[i] \in Message
        BY <3>1, SMTT(30)
      <3> QED BY <3>2, SMTT(30) DEF Downwards, Message
    <2>3. ASSUME NEW v \in Workers, NEW i \in DOMAIN Traffic(v), NEW u \in Workers, NEW j \in DOMAIN up'[u]
          PROVE  /\ Traffic(v)[i].num # up'[u][j].num
                 /\ Traffic(v)[i].src = u => Traffic(v)[i].num < up'[u][j].num
      BY <1>1, <1>5, <2>2, <2>3, SMTT(30) DEF Downwards
    <2>4. \A v \in Workers : \A i \in DOMAIN Traffic(v) : Traffic(v)[i].num <= sent'
      BY <1>1, <2>2, SMTT(30)
    <2> QED BY <2>1, <2>3, <2>4 DEF Downwards
  <1> QED BY <1>3, <1>4, <1>7, <1>8

\* Steps that leave the traffic to each worker as it is, or empty it.
LEMMA ReceiveKeeps ==
  ASSUME MessagesInv, NEW w \in Workers, Receive(w)
  PROVE  MessagesInv'
  <1> USE DEF MessagesInv
  <1>1. /\ UNCHANGED <<freelist, owner, msg0, conncache, up, alive, sent, restarts>> /\ down[w] # << >>
        /\ log[w] \in Seq(Message) /\ down[w] \in Seq(Message)
        /\ down'[w] = Tail(down[w]) /\ log'[w] = Append(log[w], Head(down[w]))
        /\ \A v \in Workers \ {w} : down'[v] = down[v] /\ log'[v] = log[v]
    BY Zenon DEF Receive, MessagesTypeOK, poolVars
  <1>2. MessagesTypeOK'
    <2>1. Tail(down[w]) \in Seq(Message) /\ Append(log[w], Head(down[w])) \in Seq(Message)
      BY <1>1
    <2> QED BY <1>1, <2>1, Zenon DEF Receive, MessagesTypeOK
  <1>3. ASSUME NEW v \in Workers
        PROVE  Traffic(v)' = Traffic(v)
    <2>1. CASE v = w
      <3>1. Append(log[w], Head(down[w])) \o Tail(down[w]) = log[w] \o down[w]
        BY <1>1, Moved, Zenon
      <3> QED BY <1>1, <2>1, <3>1, Zenon DEF Traffic
    <2>2. CASE v # w
      BY <1>1, <2>2, Zenon DEF Traffic
    <2> QED BY <2>1, <2>2
  <1>4. Connected' /\ Upwards'
    BY <1>1, SMTT(30) DEF Connected, Entries, Upwards
  <1>5. Downwards' /\ Counted'
    BY <1>1, <1>3 DEF Downwards, Counted
  <1> QED BY <1>2, <1>4, <1>5

\* A worker dies: what it sent is relayed before its connection goes.
LEMMA CrashKeeps ==
  ASSUME MessagesInv, NEW w \in Workers, Crash(w)
  PROVE  MessagesInv'
  <1> USE MessageBounds DEF MessagesInv
  <1>1. /\ UNCHANGED <<freelist, owner, msg0, conncache, up, sent>> /\ w \in alive
        /\ restarts \in Nat /\ restarts' = restarts + 1 /\ restarts < MaxRestarts
        /\ alive' = alive \ {w} /\ down'[w] = << >> /\ log'[w] = << >>
        /\ \A v \in Workers \ {w} : down'[v] = down[v] /\ log'[v] = log[v]
    BY DEF Crash, MessagesTypeOK, poolVars
  <1>2. MessagesTypeOK'
    BY <1>1 DEF Crash, MessagesTypeOK
  <1>3. \A v \in Workers : Entries(v)' = Entries(v) /\ Cardinality(Entries(v)) \in Nat
    <2>1. \A v \in Workers : Entries(v)' = Entries(v)
      BY <1>1, Zenon DEF Entries
    <2>2. ASSUME NEW v \in Workers
          PROVE  Cardinality(Entries(v)) \in Nat
      <3>1. conncache \in Seq(Elements) /\ Entries(v) \in SUBSET DOMAIN conncache
        BY DEF MessagesTypeOK, Entries
      <3> QED BY <3>1, Indices
    <2> QED BY <2>1, <2>2, Zenon
  <1>4. Connected'
    <2>1. ASSUME NEW v \in Workers
          PROVE  Cardinality(Entries(v)) <= IF v \in alive' THEN 1 + restarts' ELSE restarts'
      <3>1. Cardinality(Entries(v)) <= 1 + restarts
        BY <1>1, <1>3, SMTT(30) DEF Connected
      <3> QED BY <1>1, <1>3, <3>1
    <2> QED BY <1>1, <1>3, <2>1, Zenon DEF Connected
  <1>5. Upwards'
    BY <1>1 DEF Upwards
  <1>6. \A v \in Workers : Traffic(v)' = IF v = w THEN << >> ELSE Traffic(v)
    <2> TAKE v \in Workers
    <2>1. CASE v = w
      <3>1. Traffic(v)' = << >> \o << >>
        BY <1>1, <2>1 DEF Traffic
      <3> QED BY <2>1, <3>1
    <2>2. CASE v # w
      BY <1>1, <2>2, Zenon DEF Traffic
    <2> QED BY <2>1, <2>2
  <1>7. Downwards'
    <2>1. ASSUME NEW v \in Workers, v = w
          PROVE  DOMAIN Traffic(v)' = {}
      BY <1>6, <2>1
    <2> QED BY <1>1, <1>6, <2>1 DEF Downwards
  <1>8. Counted'
    <2> SUFFICES ASSUME NEW v \in Workers, NEW n \in 1 .. MaxSends
                 PROVE  Cardinality(Numbered(Traffic(v)', n)) <= 1 + restarts'
      BY DEF Counted, Numbered
    <2>1. CASE v = w
      <3>1. Numbered(Traffic(v)', n) = {}
        BY <1>6, <2>1 DEF Numbered
      <3>2. Cardinality({}) = 0
        BY FS_EmptySet, Zenon
      <3> QED BY <1>1, <3>1, <3>2
    <2>2. CASE v # w
      <3>1. Traffic(v) \in Seq(Message) /\ Numbered(Traffic(v), n) \in SUBSET DOMAIN Traffic(v)
        BY Glued, Zenon DEF Traffic, MessagesTypeOK, Numbered
      <3>2. Cardinality(Numbered(Traffic(v), n)) \in Nat
        BY <3>1, Indices
      <3>3. Cardinality(Numbered(Traffic(v), n)) <= 1 + restarts
        BY DEF Counted
      <3> QED BY <1>1, <1>6, <2>2, <3>2, <3>3, SMTT(30)
    <2> QED BY <2>1, <2>2
  <1> QED BY <1>2, <1>4, <1>5, <1>7, <1>8

\* The new process is given the connection of the old one: the element that
\* has just been put back is the first on the free list.
LEMMA RestartKeeps ==
  ASSUME MessagesInv, NEW w \in Workers, Restart(w)
  PROVE  MessagesInv'
  <1> USE MessageBounds DEF MessagesInv
  <1>1. /\ UNCHANGED <<up, down, log, sent, restarts>> /\ w \notin alive /\ alive' = alive \cup {w}
        /\ restarts \in Nat /\ msg0[w] \in Elements /\ owner[msg0[w]] = w
    BY DEF Restart, MessagesTypeOK, Connected
  <1>2. UNCHANGED <<freelist, owner, msg0>> /\ conncache' = Append(conncache, msg0[w])
    <2>1. Head(<<msg0[w]>> \o freelist) = msg0[w] /\ Tail(<<msg0[w]>> \o freelist) = freelist
      BY <1>1, SMTT(30) DEF MessagesTypeOK
    <2>2. freelist' = freelist /\ conncache' = Append(conncache, msg0[w])
      BY <2>1, Zenon DEF Restart, Readd
    <2>3. msg0' = msg0
      BY <2>1, Zenon DEF Restart, Readd, MessagesTypeOK
    <2>4. owner' = owner
      BY <1>1, <2>1, SMTT(30) DEF Restart, Readd, MessagesTypeOK
    <2> QED BY <2>2, <2>3, <2>4
  <1>3. /\ conncache \in Seq(Elements) /\ conncache' \in Seq(Elements) /\ Len(conncache) \in Nat
        /\ DOMAIN conncache' = DOMAIN conncache \cup {Len(conncache) + 1}
        /\ \A i \in DOMAIN conncache : conncache'[i] = conncache[i]
        /\ conncache'[Len(conncache) + 1] = msg0[w] /\ Len(conncache) + 1 \notin DOMAIN conncache
    BY <1>1, <1>2, SMTT(30) DEF MessagesTypeOK
  <1>4. MessagesTypeOK'
    BY <1>1, <1>2, <1>3, Zenon DEF MessagesTypeOK
  <1>5. ASSUME NEW v \in Workers
        PROVE  Cardinality(Entries(v)') <= IF v \in alive' THEN 1 + restarts' ELSE restarts'
    <2>1. IsFiniteSet(Entries(v)) /\ Cardinality(Entries(v)) \in Nat
      <3>1. Entries(v) \in SUBSET DOMAIN conncache
        BY DEF Entries
      <3> QED BY <1>3, <3>1, Indices
    <2>2. Cardinality(Entries(v)) <= IF v \in alive THEN 1 + restarts ELSE restarts
      BY DEF Connected
    <2>3. CASE v = w
      <3>1. Entries(v)' = Entries(v) \cup {Len(conncache) + 1}
        BY <1>1, <1>2, <1>3, <2>3, Zenon DEF Entries
      <3>2. Len(conncache) + 1 \notin Entries(v)
        BY <1>3 DEF Entries
      <3>3. Cardinality(Entries(v) \cup {Len(conncache) + 1}) = Cardinality(Entries(v)) + 1
        BY <2>1, <3>2, FS_AddElement, Zenon
      <3> QED BY <1>1, <2>1, <2>2, <2>3, <3>1, <3>3, SMTT(30)
    <2>4. CASE v # w
      <3>1. Entries(v)' = Entries(v)
        BY <1>1, <1>2, <1>3, <2>4 DEF Entries
      <3> QED BY <1>1, <2>2, <2>4, <3>1
    <2> QED BY <2>3, <2>4
  <1>6. Connected'
    BY <1>2, <1>3, <1>5, SMTT(30) DEF Connected
  <1>7. Upwards'
    BY <1>1, SMTT(30) DEF Upwards
  <1>8. Downwards' /\ Counted'
    <2>1. \A v \in Workers : Traffic(v)' = Traffic(v)
      BY <1>1, Zenon DEF Traffic
    <2> QED BY <1>1, <2>1, SMTT(30) DEF Downwards, Counted
  <1> QED BY <1>4, <1>6, <1>7, <1>8, SMTT(30)

\* Each worker that runs is given one copy for each of its entries.
LEMMA Copied ==
  ASSUME MessagesInv, NEW m \in Message, NEW v \in Workers
  PROVE  \E n \in 0 .. 1 + restarts :
            /\ Copies(m, v) = [i \in 1 .. n |-> [m EXCEPT !.dst = v]]
            /\ n # 0 => m.to \in {"all", v}
  <1> USE DEF MessagesInv
  <1>1. restarts \in Nat
    BY MessageBounds DEF MessagesTypeOK
  <1>2. CASE v \notin alive
    <2>1. [i \in 1 .. 0 |-> [m EXCEPT !.dst = v]] = << >>
      OBVIOUS
    <2>2. Copies(m, v) = << >>
      BY <1>2 DEF Copies
    <2>3. 0 \in 0 .. 1 + restarts
      BY <1>1
    <2> QED BY <2>1, <2>2, <2>3
  <1>3. CASE v \in alive
    <2> DEFINE K == {k \in Targets(m) : owner[conncache[k]] = v}
    <2>1. K \in SUBSET Entries(v) /\ Entries(v) \in SUBSET DOMAIN conncache
      BY DEF Entries, Targets
    <2>2. conncache \in Seq(Elements)
      BY DEF MessagesTypeOK
    <2>3. IsFiniteSet(Entries(v)) /\ Cardinality(Entries(v)) \in Nat
      BY <2>1, <2>2, Indices, SMTT(30)
    <2>4. IsFiniteSet(K) /\ Cardinality(K) \in Nat /\ Cardinality(K) <= Cardinality(Entries(v))
      BY <2>1, <2>3, FS_Subset, FS_CardinalityType
    <2>5. Cardinality(Entries(v)) <= 1 + restarts
      BY <1>3 DEF Connected
    <2>6. Cardinality(K) # 0 => m.to \in {"all", v}
      <3>1. Cardinality(K) # 0 => K # {}
        BY FS_EmptySet
      <3>2. K # {} => m.to \in {"all", v}
        BY DEF Targets
      <3> QED BY <3>1, <3>2
    <2>7. Cardinality(K) \in 0 .. 1 + restarts
      BY <1>1, <2>3, <2>4, <2>5
    <2>8. Copies(m, v) = [i \in 1 .. Cardinality(K) |-> [m EXCEPT !.dst = v]]
      BY <1>3 DEF Copies
    <2> HIDE DEF K
    <2> WITNESS Cardinality(K) \in 0 .. 1 + restarts
    <2> QED BY <2>6, <2>8
  <1> QED BY <1>2, <1>3

\* The relayed message is the last of its sender's in the traffic to each
\* worker, and the first time its number appears there.
LEMMA RelayKeeps ==
  ASSUME MessagesInv, NEW w \in Workers, Relay(w)
  PROVE  MessagesInv'
  <1> DEFINE m == Head(up[w])
             Copy(v) == [m EXCEPT !.dst = v]
  <1> USE MessageBounds DEF MessagesInv
  <1>1. /\ UNCHANGED <<freelist, owner, msg0, conncache, alive, log, sent, restarts>>
        /\ up[w] # << >> /\ up[w] \in Seq(Message) /\ restarts \in Nat
        /\ up'[w] = Tail(up[w]) /\ \A v \in Workers \ {w} : up'[v] = up[v]
    BY DEF Relay, MessagesTypeOK, poolVars
  <1>2. /\ m = up[w][1] /\ 1 \in DOMAIN up[w] /\ m \in Message
        /\ \A i \in DOMAIN up'[w] : i + 1 \in DOMAIN up[w] /\ up'[w][i] = up[w][i + 1] /\ 1 < i + 1
    <2>1. \A i \in DOMAIN Tail(up[w]) : 1 < i + 1
      BY <1>1
    <2> QED BY <1>1, <2>1, Headless
  <1>3. /\ m.src = w /\ m.num \in 1 .. MaxSends /\ m.num <= sent /\ sent \in Nat
        /\ \A v \in Workers : Copy(v) \in Message /\ Copy(v).num = m.num /\ Copy(v).src = w
                              /\ Copy(v).dst = v /\ Copy(v).to = m.to
    <2>1. m.src = w /\ m.num <= sent
      BY <1>2 DEF Upwards
    <2>2. sent \in Nat
      BY DEF MessagesTypeOK
    <2>3. ASSUME NEW q \in Message, NEW v \in Workers
          PROVE  /\ [q EXCEPT !.dst = v] \in Message /\ [q EXCEPT !.dst = v].num = q.num
                 /\ [q EXCEPT !.dst = v].src = q.src /\ [q EXCEPT !.dst = v].dst = v
                 /\ [q EXCEPT !.dst = v].to = q.to /\ q.num \in 1 .. MaxSends
      BY DEF Message, Dst
    <2>4. m \in Message
      BY <1>2
    <2> HIDE DEF m
    <2> QED BY <2>1, <2>2, <2>3, <2>4, Zenon
  <1>4. ASSUME NEW v \in Workers, NEW j \in DOMAIN up'[v]
        PROVE  \E i \in DOMAIN up[v] : up'[v][j] = up[v][i] /\ (v = w => i = j + 1)
                                       /\ (v # w => i = j)
    <2>1. CASE v = w
      BY <1>2, <2>1
    <2>2. CASE v # w
      BY <1>1, <2>2, Zenon
    <2> QED BY <2>1, <2>2, Zenon
  <1>5. Upwards'
    <2>1. ASSUME NEW v \in Workers, NEW j \in DOMAIN up'[v]
          PROVE  up'[v][j].src = v /\ up'[v][j].num <= sent'
      BY <1>1, <1>4, <2>1, SMTT(30) DEF Upwards
    <2>2. ASSUME NEW v \in Workers, NEW i \in DOMAIN up'[v], NEW j \in DOMAIN up'[v], i < j
          PROVE  up'[v][i].num < up'[v][j].num
      <3>1. CASE v = w
        <4>1. i + 1 < j + 1
          <5>1. DOMAIN Tail(up[w]) \subseteq Nat
            BY <1>1
          <5>2. up'[v] = Tail(up[w])
            BY <1>1, <3>1, Zenon
          <5>3. i \in Nat /\ j \in Nat
            BY <5>1, <5>2, Zenon
          <5> HIDE DEF MessagesInv
          <5> QED BY <2>2, <5>3, SMTT(30)
        <4> QED BY <1>2, <2>2, <3>1, <4>1, SMTT(30) DEF Upwards
      <3>2. CASE v # w
        BY <1>1, <2>2, <3>2 DEF Upwards
      <3> QED BY <3>1, <3>2, Zenon
    <2>3. ASSUME NEW v \in Workers, NEW u \in Workers, v # u, NEW i \in DOMAIN up'[v], NEW j \in DOMAIN up'[u]
          PROVE  up'[v][i].num # up'[u][j].num
      BY <1>4, <2>3 DEF Upwards
    <2> QED BY <2>1, <2>2, <2>3, SMTT(30) DEF Upwards
  <1>6. \A v \in Workers : Traffic(v) \in Seq(Message) /\ Len(Traffic(v)) \in Nat
                           /\ DOMAIN Traffic(v) = 1 .. Len(Traffic(v))
    <2>1. \A v \in Workers : Traffic(v) \in Seq(Message)
      BY Glued, Zenon DEF Traffic, MessagesTypeOK
    <2> QED BY <2>1
  <1>7. ASSUME NEW v \in Workers
        PROVE  \E n \in 0 .. 1 + restarts :
                 /\ down'[v] \in Seq(Message) /\ Traffic(v)' \in Seq(Message)
                 /\ Len(Traffic(v)') = Len(Traffic(v)) + n
                 /\ \A i \in DOMAIN Traffic(v) : Traffic(v)'[i] = Traffic(v)[i]
                 /\ \A i \in Len(Traffic(v)) + 1 .. Len(Traffic(v)) + n : Traffic(v)'[i] = Copy(v)
                 /\ n # 0 => m.to \in {"all", v}
    <2>1. PICK n \in 0 .. 1 + restarts :
            Copies(m, v) = [i \in 1 .. n |-> Copy(v)] /\ (n # 0 => m.to \in {"all", v})
      BY <1>2, Copied, Zenon
    <2> DEFINE c == [i \in 1 .. n |-> Copy(v)]
    <2>2. c \in Seq(Message) /\ Len(c) = n /\ \A i \in 1 .. n : c[i] = Copy(v)
      <3>1. Copy(v) \in Message /\ n \in Nat
        BY <1>1, <1>3
      <3> HIDE DEF Copy
      <3> QED BY <3>1
    <2>3. log[v] \in Seq(Message) /\ down[v] \in Seq(Message)
      BY DEF MessagesTypeOK
    <2>4. down'[v] = down[v] \o c
      BY <2>1, Zenon DEF Relay
    <2> HIDE DEF c
    <2>5. Traffic(v)' = Traffic(v) \o c
      <3>1. c \in Seq(Message)
        BY <2>2
      <3>2. \A s, r, q \in Seq(Message) : s \o (r \o q) = (s \o r) \o q
        BY Reglued
      <3>3. log[v] \o (down[v] \o c) = (log[v] \o down[v]) \o c
        BY <2>3, <3>1, <3>2, Zenon
      <3> QED BY <1>1, <2>4, <3>3, Zenon DEF Traffic
    <2>6. down'[v] \in Seq(Message) /\ Traffic(v)' \in Seq(Message)
      BY <1>6, <2>2, <2>3, <2>4, <2>5, Glued
    <2>7. /\ Len(Traffic(v)') = Len(Traffic(v)) + n
          /\ \A i \in DOMAIN Traffic(v) : Traffic(v)'[i] = Traffic(v)[i]
      <3>1. Traffic(v) \in Seq(Message) /\ c \in Seq(Message)
        BY <1>6, <2>2
      <3>2. /\ Len(Traffic(v) \o c) = Len(Traffic(v)) + Len(c)
            /\ \A i \in DOMAIN Traffic(v) : (Traffic(v) \o c)[i] = Traffic(v)[i]
        BY <3>1, Glued
      <3> QED BY <2>2, <2>5, <3>2, Zenon
    <2>8. ASSUME NEW i \in Len(Traffic(v)) + 1 .. Len(Traffic(v)) + n
          PROVE  Traffic(v)'[i] = Copy(v)
      <3>1. i \in DOMAIN Traffic(v)' /\ i \notin DOMAIN Traffic(v)
        BY <1>6, <2>6, <2>7
      <3>2. i - Len(Traffic(v)) \in 1 .. n
        BY <1>6
      <3> HIDE DEF Copy
      <3> QED BY <1>6, <2>2, <2>5, <3>1, <3>2, Glued
    <2> HIDE DEF Copy, m
    <2> QED BY <2>1, <2>6, <2>7, <2>8, Zenon
  <1>8. MessagesTypeOK'
    <2>1. down' \in [Workers -> Seq(Message)]
      <3>1. down' = [v \in Workers |-> down'[v]]
        BY Zenon DEF Relay
      <3> QED BY <1>7, <3>1, Zenon
    <2>2. up' \in [Workers -> Seq(Message)]
      <3>1. Tail(up[w]) \in Seq(Message)
        BY <1>1, SMTT(30)
      <3> QED BY <3>1, Zenon DEF Relay, MessagesTypeOK
    <2> QED BY <1>1, <2>1, <2>2, Zenon DEF MessagesTypeOK
  <1>9. Connected'
    BY <1>1, SMTT(30) DEF Connected, Entries
  <1>10. Downwards'
    <2> SUFFICES ASSUME NEW v \in Workers
                 PROVE  /\ \A i \in DOMAIN Traffic(v)' :
                              /\ Traffic(v)'[i].dst = v /\ Traffic(v)'[i].to \in {"all", v}
                              /\ Traffic(v)'[i].num <= sent
                        /\ \A i, j \in DOMAIN Traffic(v)' :
                              i < j /\ Traffic(v)'[i].src = Traffic(v)'[j].src
                                => Traffic(v)'[i].num <= Traffic(v)'[j].num
                        /\ \A i \in DOMAIN Traffic(v)', u \in Workers : \A j \in DOMAIN up'[u] :
                              /\ Traffic(v)'[i].num # up'[u][j].num
                              /\ Traffic(v)'[i].src = u => Traffic(v)'[i].num < up'[u][j].num
      BY <1>1, Zenon DEF Downwards
    <2>1. \A i \in DOMAIN Traffic(v)' :
             \/ i \in DOMAIN Traffic(v) /\ Traffic(v)'[i] = Traffic(v)[i]
             \/ i > Len(Traffic(v)) /\ Traffic(v)'[i] = Copy(v) /\ m.to \in {"all", v}
      <3> HIDE DEF Copy, m
      <3>1. PICK n \in 0 .. 1 + restarts :
              /\ Traffic(v)' \in Seq(Message) /\ Len(Traffic(v)') = Len(Traffic(v)) + n
              /\ \A i \in DOMAIN Traffic(v) : Traffic(v)'[i] = Traffic(v)[i]
              /\ \A i \in Len(Traffic(v)) + 1 .. Len(Traffic(v)) + n : Traffic(v)'[i] = Copy(v)
              /\ n # 0 => m.to \in {"all", v}
        BY <1>7, Zenon
      <3>2. DOMAIN Traffic(v)' = 1 .. Len(Traffic(v)) + n
        BY <3>1
      <3> QED BY <1>6, <3>1, <3>2, SMTT(30)
    <2>2. \A i \in DOMAIN Traffic(v)' :
              /\ Traffic(v)'[i].dst = v /\ Traffic(v)'[i].to \in {"all", v}
              /\ Traffic(v)'[i].num <= sent
      <3> HIDE DEF Copy, m
      <3> QED BY <1>3, <2>1, SMTT(30) DEF Downwards
    <2>3. ASSUME NEW i \in DOMAIN Traffic(v)', NEW j \in DOMAIN Traffic(v)', i < j,
                 Traffic(v)'[i].src = Traffic(v)'[j].src
          PROVE  Traffic(v)'[i].num <= Traffic(v)'[j].num
      <3> HIDE DEF Copy
      <3>1. CASE j \in DOMAIN Traffic(v)
        <4>1. i \in DOMAIN Traffic(v)
          BY <1>6, <2>1, <2>3, <3>1, SMTT(30)
        <4> QED BY <1>7, <2>3, <3>1, <4>1, SMTT(30) DEF Downwards
      <3>2. CASE j \notin DOMAIN Traffic(v)
        <4>1. Traffic(v)'[j].num = m.num /\ Traffic(v)'[j].src = w
          BY <1>3, <2>1, <3>2
        <4>2. CASE i \in DOMAIN Traffic(v)
          <5>1. Traffic(v)[i].num < m.num
            BY <1>2, <1>7, <2>3, <4>1, <4>2, SMTT(30) DEF Downwards
          <5>2. Traffic(v)[i] \in Message
            BY <1>6, <4>2
          <5>3. Traffic(v)'[i] = Traffic(v)[i]
            BY <1>7, <4>2
          <5> HIDE DEF m
          <5> QED BY <1>3, <4>1, <5>1, <5>2, <5>3, SMTT(30) DEF Message
        <4>3. CASE i \notin DOMAIN Traffic(v)
          BY <1>3, <2>1, <4>1, <4>3, SMTT(30)
        <4> QED BY <4>2, <4>3
      <3> QED BY <3>1, <3>2, Zenon
    <2>4. ASSUME NEW i \in DOMAIN Traffic(v)', NEW u \in Workers, NEW j \in DOMAIN up'[u]
          PROVE  /\ Traffic(v)'[i].num # up'[u][j].num
                 /\ Traffic(v)'[i].src = u => Traffic(v)'[i].num < up'[u][j].num
      <3>1. PICK k \in DOMAIN up[u] : up'[u][j] = up[u][k] /\ (u = w => k = j + 1)
        BY <1>4, SMTT(30)
      <3>2. CASE i \in DOMAIN Traffic(v)
        <4>1. Traffic(v)'[i] = Traffic(v)[i]
          BY <1>7, <3>2, Zenon
        <4> QED BY <3>1, <3>2, <4>1 DEF Downwards
      <3>3. CASE i \notin DOMAIN Traffic(v)
        <4>1. Traffic(v)'[i].num = m.num /\ Traffic(v)'[i].src = w
          BY <1>3, <2>1, <3>3, Zenon
        <4>2. u = w => m.num < up[u][k].num
          BY <1>2, <2>4, <3>1, SMTT(30) DEF Upwards
        <4>3. u # w => m.num # up[u][k].num
          BY <1>2, <3>1, SMTT(30) DEF Upwards
        <4>4. up[u][k] \in Message
          BY <3>1 DEF MessagesTypeOK
        <4> HIDE DEF m
        <4> QED BY <1>3, <3>1, <4>1, <4>2, <4>3, <4>4 DEF Message
      <3> QED BY <3>2, <3>3, Zenon
    <2> QED BY <2>2, <2>3, <2>4, Zenon
  <1>11. Counted'
    <2> SUFFICES ASSUME NEW v \in Workers, NEW n \in 1 .. MaxSends
                 PROVE  Cardinality(Numbered(Traffic(v)', n)) <= 1 + restarts
      BY <1>1, Zenon DEF Counted, Numbered
    <2> DEFINE T == Traffic(v)
    <2>1. PICK k \in 0 .. 1 + restarts :
              /\ Traffic(v)' \in Seq(Message) /\ Len(Traffic(v)') = Len(T) + k
              /\ \A i \in DOMAIN T : Traffic(v)'[i] = T[i]
              /\ \A i \in Len(T) + 1 .. Len(T) + k : Traffic(v)'[i] = Copy(v)
      BY <1>7, Zenon
    <2>2. DOMAIN Traffic(v)' = DOMAIN T \cup (Len(T) + 1 .. Len(T) + k) /\ DOMAIN T = 1 .. Len(T) /\ Len(T) \in Nat
      BY <1>6, <2>1, SMTT(30)
    <2> HIDE DEF T, Copy, m
    <2>3. CASE n = m.num
      <3>1. \A i \in DOMAIN T : T[i].num # n
        BY <1>2, <2>3, SMTT(30) DEF Downwards, T
      <3>2. Numbered(Traffic(v)', n) = Len(T) + 1 .. Len(T) + k
        BY <1>3, <2>1, <2>2, <2>3, <3>1 DEF Numbered
      <3>3. Cardinality(Len(T) + 1 .. Len(T) + k) = k
        <4>1. Len(T) + 1 \in Int /\ Len(T) + k \in Int /\ k \in Nat
          BY <1>1, <2>2
        <4>2. Cardinality(Len(T) + 1 .. Len(T) + k) =
                IF Len(T) + 1 > Len(T) + k THEN 0 ELSE (Len(T) + k) - (Len(T) + 1) + 1
          BY <4>1, FS_Interval
        <4> QED BY <2>2, <4>1, <4>2
      <3> QED BY <1>1, <3>2, <3>3, SMTT(30)
    <2>4. CASE n # m.num
      <3>1. Numbered(Traffic(v)', n) = Numbered(T, n)
        BY <1>3, <2>1, <2>2, <2>4 DEF Numbered
      <3> QED BY <3>1, Zenon DEF Counted, T
    <2> QED BY <2>3, <2>4, Zenon
  <1> QED BY <1>5, <1>8, <1>9, <1>10, <1>11

\* Every step of a worker and of the parent keeps MessagesInv.
LEMMA MessagesInductive ==
  ASSUME MessagesInv, [MessagesNext]_messagesVars
  PROVE  MessagesInv'
  <1>1. ASSUME NEW w \in Workers, NEW to \in Dst, Send(w, to)
        PROVE  MessagesInv'
    BY <1>1, SendKeeps
  <1>2. ASSUME NEW w \in Workers, Relay(w) \/ Receive(w) \/ Crash(w) \/ Restart(w)
        PROVE  MessagesInv'
    BY <1>2, RelayKeeps, ReceiveKeeps, CrashKeeps, RestartKeeps
  <1>3. CASE UNCHANGED messagesVars
    <2>1. UNCHANGED <<freelist, owner, msg0, conncache, up, down, alive, log, sent, restarts>>
      BY <1>3, SMTT(30) DEF messagesVars, poolVars
    <2>2. \A w \in Workers : Traffic(w)' = Traffic(w) /\ Entries(w)' = Entries(w)
      BY <2>1, SMTT(30) DEF Traffic, Entries
    <2>3. MessagesTypeOK' /\ Upwards'
      BY <2>1, SMTT(30) DEF MessagesInv, MessagesTypeOK, Upwards
    <2>4. Connected' /\ Downwards' /\ Counted'
      BY <2>1, <2>2, SMTT(30) DEF MessagesInv, Connected, Downwards, Counted
    <2> QED BY <2>3, <2>4 DEF MessagesInv
  <1> QED BY <1>1, <1>2, <1>3 DEF MessagesNext

\* What msg_recv_data, kore_msg_parent_remove and kore_msg_parent_add promise
\* each worker, for any number of workers, messages and restarts: only what is
\* meant for it, in the order of each sender, through a connection of its own,
\* and no more often than once and once more for each restart.
LEMMA MessagesPromised == MessagesInv => RightWorker /\ Reachable /\ InOrder /\ CopiesBounded
  <1> SUFFICES ASSUME MessagesInv PROVE RightWorker /\ Reachable /\ InOrder /\ CopiesBounded
    OBVIOUS
  <1> USE DEF MessagesInv
  <1>1. ASSUME NEW w \in Workers
        PROVE  /\ log[w] \in Seq(Message) /\ down[w] \in Seq(Message) /\ Traffic(w) \in Seq(Message)
               /\ \A i \in DOMAIN log[w] : i \in DOMAIN Traffic(w) /\ Traffic(w)[i] = log[w][i]
               /\ \A i \in DOMAIN down[w] : Len(log[w]) + i \in DOMAIN Traffic(w)
                                            /\ Traffic(w)[Len(log[w]) + i] = down[w][i]
    <2>1. log[w] \in Seq(Message) /\ down[w] \in Seq(Message)
      BY DEF MessagesTypeOK
    <2>2. \A s, r \in Seq(Message) :
             /\ s \o r \in Seq(Message)
             /\ \A i \in DOMAIN s : i \in DOMAIN (s \o r) /\ (s \o r)[i] = s[i]
             /\ \A i \in DOMAIN r : Len(s) + i \in DOMAIN (s \o r) /\ (s \o r)[Len(s) + i] = r[i]
      BY Glued, SMTT(30)
    <2> QED BY <2>1, <2>2, Zenon DEF Traffic
  <1>2. RightWorker
    BY <1>1, SMTT(30) DEF RightWorker, Downwards
  <1>3. Reachable
    BY OneEach, Zenon DEF Reachable, Connected, MessagesTypeOK
  <1>4. InOrder
    BY <1>1 DEF InOrder, Downwards
  <1>5. ASSUME NEW w \in Workers, NEW n \in 1 .. MaxSends
        PROVE  Cardinality(Numbered(log[w], n)) <= 1 + restarts
    <2>1. Numbered(log[w], n) \in SUBSET Numbered(Traffic(w), n)
      BY <1>1 DEF Numbered
    <2>2. Numbered(log[w], n) \in SUBSET DOMAIN log[w] /\ Numbered(Traffic(w), n) \in SUBSET DOMAIN Traffic(w)
      BY SMTT(30) DEF Numbered
    <2>3. /\ IsFiniteSet(Numbered(Traffic(w), n)) /\ Cardinality(Numbered(Traffic(w), n)) \in Nat
          /\ Cardinality(Numbered(log[w], n)) \in Nat
      BY <1>1, <2>2, Indices
    <2>4. Cardinality(Numbered(log[w], n)) <= Cardinality(Numbered(Traffic(w), n))
      BY <2>1, <2>3, FS_Subset
    <2>5. Cardinality(Numbered(Traffic(w), n)) <= 1 + restarts /\ restarts \in Nat
      BY MessageBounds DEF Counted, MessagesTypeOK
    <2> QED BY <2>3, <2>4, <2>5
  <1> QED BY <1>2, <1>3, <1>4, <1>5 DEF CopiesBounded, Numbered

\* A message reaches only workers it was sent to, of a sender's messages none
\* before an older one, and none more often than once and once for every
\* restart; a worker that runs has one connection to the parent
\* (msg_recv_data, kore_msg_parent_add), for any number of workers, messages
\* and restarts.
THEOREM MessagesMeant == MessagesSpec => []TrafficSound
<1>1. MessagesInv => TrafficSound
  BY MessagesPromised, Zenon DEF TrafficSound
<1> QED
  BY <1>1, MessagesInitial, MessagesInductive, PTL DEF MessagesSpec
=============================================================================
