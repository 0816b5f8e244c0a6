----------------------------- MODULE HttpProofs -----------------------------
(***************************************************************************)
(* Proofs about the life of HTTP requests, for any number of connections   *)
(* and requests.  The four invariants are not inductive one by one: that   *)
(* nothing dangles rests on the lists being sound, that a woken request    *)
(* was awaited on who may be in the queue of the lock, and that a          *)
(* connection answers in order on what its receive buffer is for.          *)
(***************************************************************************)
EXTENDS HttpRequests, TLAPS

\* What a request that was taken from the pool still has.
Flags ==
    /\ complete \subseteq live /\ deleted \subseteq live /\ bare \subseteq live
    /\ sleeping \subseteq complete
    /\ \A r \in Requests \ live : owner[r] = None

\* The queue of the runlock.
Queue == IsInjective(waiters) /\ \A r \in Range(waiters) : ~ Pending(r)

\* What a connection receives.
Receives ==
    /\ \A r \in live \ deleted : Open(owner[r]) => conn[owner[r]].recv # "header"
    /\ \A c \in Conns : Open(c) /\ conn[c].recv = "body" =>
          /\ conn[c].extra \in live \ deleted /\ owner[conn[c].extra] = c => conn[c].extra \notin complete
          /\ conn[c].send # "close" => conn[c].extra \notin deleted

IInv ==
    TypeOK /\ ListsSound /\ NoDangling /\ SleepersAwaited /\ OneUnanswered /\ Flags /\ Queue /\ Receives
-----------------------------------------------------------------------------
\* A list of requests that holds each of them at most once, seen as a set.
Lists(s, requests) == s \in Seq(Requests) /\ IsInjective(s) /\ Range(s) = requests

\* What a list put behind another holds.
LEMMA Concatenated ==
    ASSUME NEW s, NEW t, NEW S, NEW T, Lists(s, S), Lists(t, T), S \cap T = {}
    PROVE  Lists(s \o t, S \cup T)
<1> DEFINE u == s \o t
<1>1. /\ u \in Seq(Requests) /\ Len(u) = Len(s) + Len(t) /\ DOMAIN u = 1 .. Len(s) + Len(t)
      /\ Len(s) \in Nat /\ Len(t) \in Nat /\ DOMAIN s = 1 .. Len(s) /\ DOMAIN t = 1 .. Len(t)
  BY DEF Lists
<1>2. \A i \in 1 .. Len(s) + Len(t) : u[i] = IF i <= Len(s) THEN s[i] ELSE t[i - Len(s)]
  BY DEF Lists
<1> HIDE DEF u
<1>3. \A i \in 1 .. Len(s) : u[i] = s[i] /\ u[i] \in S
  <2>1. \A i \in 1 .. Len(s) : s[i] \in S
    BY <1>1, Zenon DEF Lists, Range
  <2> QED
    BY <1>1, <1>2, <2>1
<1>4. \A i \in 1 .. Len(t) : u[i + Len(s)] = t[i] /\ t[i] \in T
  <2>1. \A i \in 1 .. Len(t) : t[i] \in T
    BY <1>1, Zenon DEF Lists, Range
  <2> SUFFICES ASSUME NEW i \in 1 .. Len(t) PROVE u[i + Len(s)] = t[i]
    BY <2>1
  <2>2. i + Len(s) \in 1 .. Len(s) + Len(t) /\ ~ (i + Len(s) <= Len(s)) /\ (i + Len(s)) - Len(s) = i
    BY <1>1
  <2> QED
    BY <1>2, <2>2
<1>5. \A i \in 1 .. Len(s) + Len(t) : i > Len(s) => i - Len(s) \in 1 .. Len(t) /\ u[i] = t[i - Len(s)]
  BY <1>1, <1>2
<1>6. Range(u) = S \cup T
  <2>1. ASSUME NEW x \in Range(u) PROVE x \in S \cup T
    <3>1. PICK i \in 1 .. Len(s) + Len(t) : u[i] = x
      BY <1>1, <2>1 DEF Range
    <3> QED
      BY <1>1, <1>3, <1>4, <1>5, <3>1
  <2>2. ASSUME NEW x \in S PROVE x \in Range(u)
    <3>1. PICK i \in 1 .. Len(s) : s[i] = x
      BY <1>1 DEF Lists, Range
    <3> QED
      BY <1>1, <1>3, <3>1 DEF Range
  <2>3. ASSUME NEW x \in T PROVE x \in Range(u)
    <3>1. PICK i \in 1 .. Len(t) : t[i] = x
      BY <1>1 DEF Lists, Range
    <3>2. i + Len(s) \in DOMAIN u /\ u[i + Len(s)] = x
      BY <1>1, <1>4, <3>1
    <3> QED
      BY <3>2 DEF Range
  <2> QED
    BY <2>1, <2>2, <2>3
<1>7. IsInjective(u)
  <2> SUFFICES ASSUME NEW i \in 1 .. Len(s) + Len(t), NEW j \in 1 .. Len(s) + Len(t), u[i] = u[j]
               PROVE  i = j
    BY <1>1 DEF IsInjective
  <2>1. CASE i <= Len(s) /\ j <= Len(s)
    BY <1>1, <1>3, <2>1 DEF Lists, IsInjective
  <2>2. CASE i > Len(s) /\ j > Len(s)
    <3>1. i - Len(s) = j - Len(s)
      BY <1>1, <1>5, <2>2, Zenon DEF Lists, IsInjective
    <3> QED
      BY <1>1, <3>1
  <2>3. CASE i <= Len(s) /\ j > Len(s)
    BY <1>1, <1>3, <1>4, <1>5, <2>3
  <2>4. CASE i > Len(s) /\ j <= Len(s)
    BY <1>1, <1>3, <1>4, <1>5, <2>4
  <2> QED
    BY <1>1, <2>1, <2>2, <2>3, <2>4
<1> QED
  BY <1>1, <1>6, <1>7 DEF Lists, u

\* TAILQ_INSERT_HEAD and TAILQ_INSERT_TAIL.
LEMMA Inserted ==
    ASSUME NEW s, NEW S, Lists(s, S), NEW r \in Requests, r \notin S
    PROVE  Lists(<<r>> \o s, S \cup {r}) /\ Lists(Append(s, r), S \cup {r})
<1>1. Lists(<<r>>, {r})
  <2>1. <<r>> \in Seq(Requests) /\ DOMAIN <<r>> = {1} /\ <<r>>[1] = r
    OBVIOUS
  <2> QED
    BY <2>1 DEF Lists, IsInjective, Range
<1>2. Append(s, r) = s \o <<r>>
  BY DEF Lists
<1> QED
  BY <1>1, <1>2, Concatenated

\* TAILQ_REMOVE.
LEMMA Removed ==
    ASSUME NEW s, NEW S, Lists(s, S), NEW r
    PROVE  Lists(Without(s, r), S \ {r})
<1>1. CASE r \notin S
  BY <1>1, Zenon DEF Without, Lists, Range
<1>2. CASE r \in S
  <2> DEFINE i == CHOOSE j \in DOMAIN s : s[j] = r
             a == SubSeq(s, 1, i - 1)
             b == SubSeq(s, i + 1, Len(s))
  <2>1. i \in DOMAIN s /\ s[i] = r /\ DOMAIN s = 1 .. Len(s) /\ Len(s) \in Nat
    BY <1>2 DEF Lists, Range
  <2>2. Without(s, r) = a \o b
    BY <1>2, Zenon DEF Without, Lists, Range
  <2> HIDE DEF i
  <2>3. /\ a \in Seq(Requests) /\ Len(a) = i - 1 /\ \A j \in 1 .. i - 1 : a[j] = s[j]
        /\ b \in Seq(Requests) /\ Len(b) = Len(s) - i /\ \A j \in 1 .. Len(s) - i : b[j] = s[i + j]
    BY <2>1, SMTT(30) DEF Lists
  <2>4. DOMAIN a = 1 .. i - 1 /\ DOMAIN b = 1 .. Len(s) - i
    BY <2>1, <2>3
  <2> HIDE DEF a, b
  <2>5. IsInjective(a) /\ IsInjective(b)
    <3>1. IsInjective(a)
      BY <2>1, <2>3, <2>4 DEF Lists, IsInjective
    <3>2. ASSUME NEW j \in 1 .. Len(s) - i, NEW k \in 1 .. Len(s) - i, b[j] = b[k] PROVE j = k
      <4>1. i + j \in DOMAIN s /\ i + k \in DOMAIN s /\ s[i + j] = s[i + k]
        BY <2>1, <2>3, <3>2
      <4>2. i + j = i + k
        BY <4>1 DEF Lists, IsInjective
      <4> QED
        BY <2>1, <4>2
    <3> QED
      BY <2>4, <3>1, <3>2 DEF IsInjective
  <2>6. Range(a) \cap Range(b) = {}
    <3> SUFFICES ASSUME NEW j \in 1 .. i - 1, NEW k \in 1 .. Len(s) - i, a[j] = b[k] PROVE FALSE
      BY <2>4 DEF Range
    <3>1. j \in DOMAIN s /\ i + k \in DOMAIN s /\ s[j] = s[i + k]
      BY <2>1, <2>3
    <3>2. j = i + k
      BY <3>1 DEF Lists, IsInjective
    <3> QED
      BY <2>1, <3>2
  <2>7. Range(a) \cup Range(b) = S \ {r}
    <3>1. ASSUME NEW j \in 1 .. i - 1 PROVE a[j] \in S \ {r}
      <4>1. j \in DOMAIN s /\ j # i /\ a[j] = s[j]
        BY <2>1, <2>3
      <4> QED
        BY <2>1, <4>1 DEF Lists, Range, IsInjective
    <3>2. ASSUME NEW j \in 1 .. Len(s) - i PROVE b[j] \in S \ {r}
      <4>1. i + j \in DOMAIN s /\ i + j # i /\ b[j] = s[i + j]
        BY <2>1, <2>3
      <4> QED
        BY <2>1, <4>1, Zenon DEF Lists, Range, IsInjective
    <3>3. ASSUME NEW x \in S \ {r} PROVE x \in Range(a) \cup Range(b)
      <4>1. PICK j \in 1 .. Len(s) : s[j] = x
        BY <2>1 DEF Lists, Range
      <4>2. CASE j < i
        BY <2>1, <2>3, <2>4, <4>1, <4>2 DEF Range
      <4>3. CASE j > i
        <5>1. j - i \in 1 .. Len(s) - i /\ i + (j - i) = j
          BY <2>1, <4>1, <4>3
        <5>2. b[j - i] = x
          BY <2>3, <4>1, <5>1, Zenon
        <5> QED
          BY <2>4, <5>1, <5>2 DEF Range
      <4> QED
        BY <2>1, <4>1, <4>2, <4>3
    <3> QED
      BY <2>4, <3>1, <3>2, <3>3 DEF Range
  <2>8. Lists(a, Range(a)) /\ Lists(b, Range(b))
    BY <2>3, <2>5 DEF Lists
  <2> QED
    BY <2>2, <2>6, <2>7, <2>8, Concatenated
<1> QED
  BY <1>1, <1>2

\* TAILQ_FIRST and the list behind it; TAILQ_NEXT.
LEMMA Walked ==
    ASSUME NEW s, NEW S, Lists(s, S)
    PROVE  /\ s # << >> => First(s) \in S /\ Lists(Tail(s), S \ {First(s)})
           /\ s = << >> => S = {} /\ First(s) = None
           /\ \A r \in S : After(s, r) \in (S \ {r}) \cup {None}
<1>1. ASSUME s # << >> PROVE First(s) \in S /\ Lists(Tail(s), S \ {First(s)})
  <2>1. /\ Tail(s) \in Seq(Requests) /\ Head(s) = s[1] /\ Len(s) \in Nat \ {0}
        /\ DOMAIN s = 1 .. Len(s) /\ DOMAIN Tail(s) = 1 .. Len(s) - 1
        /\ \A i \in 1 .. Len(s) - 1 : Tail(s)[i] = s[i + 1]
    BY <1>1 DEF Lists
  <2>2. First(s) = s[1] /\ s[1] \in S
    BY <1>1, <2>1 DEF First, Lists, Range
  <2>3. IsInjective(Tail(s))
    BY <2>1 DEF Lists, IsInjective
  <2>4. ASSUME NEW i \in 1 .. Len(s) - 1 PROVE Tail(s)[i] \in S \ {s[1]}
    <3>1. i + 1 \in DOMAIN s /\ 1 \in DOMAIN s /\ i + 1 # 1
      BY <2>1
    <3> QED
      BY <2>1, <3>1 DEF Lists, Range, IsInjective
  <2>5. ASSUME NEW x \in S \ {s[1]} PROVE x \in Range(Tail(s))
    <3>1. PICK i \in 1 .. Len(s) : s[i] = x
      BY <2>1 DEF Lists, Range
    <3>2. i - 1 \in 1 .. Len(s) - 1 /\ Tail(s)[i - 1] = x
      BY <2>1, <2>5, <3>1
    <3> QED
      BY <2>1, <3>2, Zenon DEF Range
  <2>6. Range(Tail(s)) = S \ {s[1]}
    BY <2>1, <2>4, <2>5 DEF Range
  <2> QED
    BY <2>1, <2>2, <2>3, <2>6 DEF Lists
<1>2. ASSUME s = << >> PROVE S = {} /\ First(s) = None
  <2>1. DOMAIN s = {}
    BY <1>2
  <2> QED
    BY <1>2, <2>1 DEF Lists, Range, First
<1>3. ASSUME NEW r \in S PROVE After(s, r) \in (S \ {r}) \cup {None}
  <2> DEFINE i == CHOOSE j \in DOMAIN s : s[j] = r
             t == SubSeq(s, i + 1, Len(s))
  <2>1. i \in DOMAIN s /\ s[i] = r /\ DOMAIN s = 1 .. Len(s) /\ Len(s) \in Nat
    BY <1>3 DEF Lists, Range
  <2>2. After(s, r) = First(t)
    BY DEF After
  <2> HIDE DEF i
  <2>3. t \in Seq(Requests) /\ Len(t) = Len(s) - i /\ \A j \in 1 .. Len(s) - i : t[j] = s[i + j]
    BY <2>1 DEF Lists
  <2> HIDE DEF t
  <2>4. CASE t = << >>
    BY <2>2, <2>4 DEF First
  <2>5. CASE t # << >>
    <3>1. Head(t) = t[1] /\ Len(t) \in Nat \ {0}
      BY <2>3, <2>5
    <3>2. 1 \in 1 .. Len(s) - i /\ i + 1 \in DOMAIN s /\ i + 1 # i
      BY <2>1, <2>3, <3>1
    <3>3. First(t) = s[i + 1]
      BY <2>3, <2>5, <3>1, <3>2 DEF First
    <3> QED
      BY <2>1, <2>2, <3>2, <3>3 DEF Lists, Range, IsInjective
  <2> QED
    BY <2>4, <2>5
<1> QED
  BY <1>1, <1>2, <1>3

\* The list of the requests of a connection that ends.
LEMMA Ordered ==
    ASSUME NEW S, S \subseteq Requests, NEW s \in Orders(S)
    PROVE  Lists(s, S)
<1>1. PICK n \in 0 .. Cardinality(Requests) : s \in [1 .. n -> S]
  BY DEF Orders
<1>2. s \in Seq(Requests)
  BY <1>1, HttpAssumption
<1> QED
  BY <1>2 DEF Lists, Orders
-----------------------------------------------------------------------------
\* What net_send_flush leaves of a connection, after anything and after a
\* response.
LEMMA Sent ==
    ASSUME NEW k \in Connection, k.state = "open"
    PROVE  /\ Gone \in Connection /\ Gone.state = "disconnecting" /\ Gone.timer = 0
           /\ \A x \in Flushed(k, TRUE) : x = Gone \/
                 /\ x \in Connection /\ x.state = "open" /\ x.recv = k.recv /\ x.timer = k.timer
                 /\ x.extra = k.extra /\ x.send = "close"
           /\ \A x \in Flushed(k, FALSE) : x = Gone \/
                 /\ x \in Connection /\ x.state = "open" /\ x.recv = k.recv /\ x.timer = k.timer
                 /\ x.extra = k.extra /\ x.send # "close"
           /\ \A x \in Responded(k) : x = Gone \/
                 /\ x \in Connection /\ x.state = "open" /\ x.extra = k.extra
                 /\ \/ x.recv = k.recv /\ x.timer = k.timer /\ x.send = "close"
                    \/ x.recv = "header"
<1>1. Gone \in Connection /\ Gone.state = "disconnecting" /\ Gone.timer = 0
  BY DEF Gone, NotOpen, Connection
<1>2. ASSUME NEW j \in Connection, j.state = "open", NEW x \in Flushed(j, TRUE)
      PROVE  x = Gone \/
                 /\ x \in Connection /\ x.state = "open" /\ x.recv = j.recv /\ x.timer = j.timer
                 /\ x.extra = j.extra /\ x.send = "close"
  BY <1>2 DEF Flushed, Connection
<1>3. ASSUME NEW j \in Connection, j.state = "open", NEW x \in Flushed(j, FALSE)
      PROVE  x = Gone \/
                 /\ x \in Connection /\ x.state = "open" /\ x.recv = j.recv /\ x.timer = j.timer
                 /\ x.extra = j.extra /\ x.send # "close"
  BY <1>3 DEF Flushed, Connection
<1>4. ASSUME NEW x \in Responded(k)
      PROVE  x = Gone \/
                 /\ x \in Connection /\ x.state = "open" /\ x.extra = k.extra
                 /\ \/ x.recv = k.recv /\ x.timer = k.timer /\ x.send = "close"
                    \/ x.recv = "header"
  <2> DEFINE j == [k EXCEPT !.recv = "header", !.timer = 1]
  <2>1. j \in Connection /\ j.state = "open" /\ j.recv = "header" /\ j.extra = k.extra
    BY Zenon DEF Connection
  <2>2. x \in Flushed(k, TRUE) \/ x \in Flushed(j, FALSE)
    BY <1>4, Zenon DEF Responded
  <2> HIDE DEF j
  <2> QED
    BY <1>2, <1>3, <2>1, <2>2, Zenon
<1> QED
  BY <1>1, <1>2, <1>3, <1>4, Zenon

\* A step that changes connection c, which had no request to answer or goes
\* on to receive the same.
LEMMA ConnStep ==
    ASSUME IInv, NEW c \in Conns, NEW k \in Connection, Becomes(c, k), k.state # "free",
           k.state = "open" /\ k.recv = "body" =>
              /\ Open(c) /\ conn[c].recv = "body" /\ conn[c].extra = k.extra
              /\ k.send # "close" => conn[c].send # "close",
           \/ \A r \in live \ deleted : owner[r] # c
           \/ (k.state = "open" => k.recv = conn[c].recv /\ Open(c)) /\ (k.timer = 0 \/ k.timer = conn[c].timer),
           UNCHANGED <<listVars, flagVars, task, lockVars, loopVars>>
    PROVE  IInv'
<1> USE DEF listVars, flagVars, lockVars, loopVars
<1>1. conn' \in [Conns -> Connection] /\ conn'[c] = k /\ \A d \in Conns : d # c => conn'[d] = conn[d]
  BY Zenon DEF IInv, TypeOK, Becomes
<1>2. TypeOK' /\ ListsSound' /\ Flags' /\ Queue' /\ SleepersAwaited'
  BY <1>1, Zenon DEF IInv, TypeOK, ListsSound, Flags, Queue, SleepersAwaited, Pending
<1>3. \A r \in live \ deleted : owner[r] \in Conns
  BY DEF IInv, TypeOK, NoDangling
<1>4. NoDangling'
  <2>1. \A r \in live : owner[r] # None => owner[r] \in Conns /\ conn'[owner[r]].state # "free"
    BY <1>1 DEF IInv, TypeOK, NoDangling
  <2>2. \A d \in Conns : conn'[d].state = "open" /\ conn'[d].recv = "body" /\ conn'[d].send # "close" =>
            conn'[d].extra \in live /\ owner[conn'[d].extra] = d
    BY <1>1 DEF IInv, NoDangling, Open
  <2> QED
    BY <2>1, <2>2, Zenon DEF IInv, NoDangling, Open
<1>5. OneUnanswered'
  <2>1. ASSUME NEW r \in complete \ (deleted \cup bare) PROVE conn'[owner[r]].timer = 0
    BY <1>1, <1>3 DEF IInv, OneUnanswered, Flags
  <2> QED
    BY <2>1 DEF IInv, OneUnanswered
<1>6. Receives'
  <2>1. ASSUME NEW r \in live \ deleted, conn'[owner[r]].state = "open" PROVE conn'[owner[r]].recv # "header"
    BY <1>1, <1>3, <2>1, Zenon DEF IInv, Receives, Open
  <2>2. ASSUME NEW d \in Conns, conn'[d].state = "open", conn'[d].recv = "body"
        PROVE  /\ Open(d) /\ conn[d].recv = "body" /\ conn[d].extra = conn'[d].extra
               /\ conn'[d].send # "close" => conn[d].send # "close"
    BY <1>1, <2>2, Zenon DEF Open
  <2> QED
    BY <2>1, <2>2, Zenon DEF IInv, Receives, Open
<1> QED
  BY <1>2, <1>4, <1>5, <1>6, Zenon DEF IInv

\* Nobody waits for an answer on a connection that receives headers.
LEMMA HeadersFirst ==
    ASSUME IInv, NEW c \in Conns, Open(c), conn[c].recv = "header"
    PROVE  \A r \in live \ deleted : owner[r] # c
BY DEF IInv, Receives

\* The events of a connection that concern no request.
LEMMA QuietStep ==
    ASSUME IInv, NEW c \in Conns,
           \/ Accept(c) \/ PeerGone(c) \/ Writable(c) \/ HeaderRejected(c) \/ HeaderRedirected(c)
    PROVE  IInv'
<1>0. conn[c] \in Connection
  BY DEF IInv, TypeOK
<1>1. CASE Accept(c)
  <2>1. Fresh \in Connection /\ Fresh.state = "open" /\ Fresh.recv = "header"
    BY DEF Fresh, Connection
  <2>2. \A r \in live \ deleted : owner[r] # c
    BY <1>1 DEF Accept, IInv, TypeOK, NoDangling
  <2> QED
    BY <1>1, <2>1, <2>2, ConnStep, Zenon DEF Accept, Event
<1>2. CASE PeerGone(c)
  <2>1. Open(c) /\ Becomes(c, Gone) /\ UNCHANGED <<listVars, flagVars, task, lockVars, loopVars>>
    BY <1>2 DEF PeerGone, Event
  <2>2. Gone \in Connection /\ Gone.state = "disconnecting" /\ Gone.timer = 0
    BY <1>0, <2>1, Sent, Zenon DEF Open
  <2> QED
    BY <2>1, <2>2, ConnStep, Zenon
<1>3. CASE Writable(c)
  <2>1. /\ Open(c) /\ UNCHANGED <<listVars, flagVars, task, lockVars, loopVars>>
        /\ \E k \in Flushed(conn[c], conn[c].send = "close") : Becomes(c, k)
    BY <1>3 DEF Writable, Event
  <2>2. CASE conn[c].send = "close"
    <3>1. PICK k \in Flushed(conn[c], TRUE) : Becomes(c, k)
      BY <2>1, <2>2, Zenon
    <3>2. \/ k = Gone /\ Gone \in Connection /\ Gone.state = "disconnecting" /\ Gone.timer = 0
          \/ /\ k \in Connection /\ k.state = "open" /\ k.recv = conn[c].recv /\ k.timer = conn[c].timer
             /\ k.extra = conn[c].extra /\ k.send = "close"
      BY <1>0, <2>1, <3>1, Sent, Zenon DEF Open
    <3> QED
      BY <2>1, <3>1, <3>2, ConnStep, Zenon
  <2>3. CASE conn[c].send # "close"
    <3>0. (conn[c].send = "close") = FALSE
      BY <2>3
    <3>1. PICK k \in Flushed(conn[c], FALSE) : Becomes(c, k)
      BY <2>1, <3>0, Zenon
    <3>2. \/ k = Gone /\ Gone \in Connection /\ Gone.state = "disconnecting" /\ Gone.timer = 0
          \/ /\ k \in Connection /\ k.state = "open" /\ k.recv = conn[c].recv /\ k.timer = conn[c].timer
             /\ k.extra = conn[c].extra
      BY <1>0, <2>1, <3>1, Sent, Zenon DEF Open
    <3> QED
      BY <2>1, <2>3, <3>1, <3>2, ConnStep, Zenon
  <2> QED
    BY <2>2, <2>3
<1>4. CASE HeaderRejected(c)
  <2>1. /\ Open(c) /\ conn[c].recv = "header" /\ UNCHANGED <<listVars, flagVars, task, lockVars, loopVars>>
        /\ \E k \in Flushed(conn[c], TRUE) : Becomes(c, k)
    BY <1>4, Zenon DEF HeaderRejected, HeaderExpected, Event, ErrorResponse
  <2>2. PICK k \in Flushed(conn[c], TRUE) : Becomes(c, k)
    BY <2>1, Zenon
  <2>3. \/ k = Gone /\ Gone \in Connection /\ Gone.state = "disconnecting"
        \/ k \in Connection /\ k.state = "open" /\ k.recv = "header"
    BY <1>0, <2>1, <2>2, Sent, Zenon DEF Open
  <2> QED
    BY <2>1, <2>2, <2>3, HeadersFirst, ConnStep, Zenon
<1>5. CASE HeaderRedirected(c)
  <2>1. /\ Open(c) /\ conn[c].recv = "header" /\ UNCHANGED <<listVars, flagVars, task, lockVars, loopVars>>
        /\ \E k \in Responded(conn[c]) : Becomes(c, k)
    BY <1>5 DEF HeaderRedirected, HeaderExpected, Event
  <2>2. PICK k \in Responded(conn[c]) : Becomes(c, k)
    BY <2>1
  <2>3. \/ k = Gone /\ Gone \in Connection /\ Gone.state = "disconnecting"
        \/ k \in Connection /\ k.state = "open" /\ k.recv = "header"
    BY <1>0, <2>1, <2>2, Sent, Zenon DEF Open
  <2> QED
    BY <2>1, <2>2, <2>3, HeadersFirst, ConnStep, Zenon
<1> QED
  BY <1>1, <1>2, <1>3, <1>4, <1>5

\* A step that makes request r on connection c.
LEMMA NewStep ==
    ASSUME IInv, NEW c \in Conns, NEW r \in Requests, NEW k \in Connection, Becomes(c, k), NewRequest(c, r),
           complete \subseteq complete' /\ complete' \subseteq complete \cup {r},
           deleted \subseteq deleted' /\ deleted' \subseteq deleted \cup {r},
           bare \subseteq bare' /\ bare' \subseteq bare \cup {r},
           k.state # "free",
           k.state = "open" /\ k.recv = "body" =>
              k.extra = r /\ r \notin complete' /\ (k.send # "close" => r \notin deleted'),
           r \in deleted' \/ (k.state = "open" => k.recv # "header"),
           r \in complete' /\ r \notin deleted' \cup bare' => k.timer = 0
    PROVE  IInv'
<1> USE DEF lockVars, loopVars
<1>1. conn' \in [Conns -> Connection] /\ conn'[c] = k /\ \A d \in Conns : d # c => conn'[d] = conn[d]
  BY DEF IInv, TypeOK, Becomes
<1>2. /\ Open(c) /\ conn[c].recv = "header" /\ r \notin live /\ live' = live \cup {r} /\ run' = <<r>> \o run
      /\ owner' = [owner EXCEPT ![r] = c] /\ UNCHANGED <<sleeping, task, lock, waiters, pc, cursor, spent>>
  BY DEF NewRequest, HeaderExpected, Event
<1>3. /\ owner' \in [Requests -> Conns \cup {None}] /\ owner'[r] = c
      /\ \A q \in Requests : q # r => owner'[q] = owner[q]
  BY <1>2, Zenon DEF IInv, TypeOK
<1>4. Lists(run', Range(run) \cup {r})
  <2>1. Lists(run, Range(run)) /\ r \notin Range(run)
    BY <1>2, Zenon DEF IInv, TypeOK, ListsSound, Lists
  <2> QED
    BY <1>2, <2>1, Inserted, Zenon
<1>5. \A q \in live \ deleted : owner[q] # c /\ owner[q] \in Conns
  BY <1>2, HeadersFirst DEF IInv, TypeOK, NoDangling
<1>6. /\ live \subseteq Requests /\ complete \subseteq live /\ deleted \subseteq live /\ bare \subseteq live
      /\ sleeping \subseteq live /\ Range(waiters) \subseteq live
  BY Zenon DEF IInv, TypeOK, Flags, NoDangling
<1>7. TypeOK'
  BY <1>1, <1>2, <1>3, <1>4, <1>6 DEF IInv, TypeOK, Lists
<1>8. ListsSound' /\ Flags'
  <2>1. Range(run') = Range(run) \cup {r} /\ IsInjective(run')
    BY <1>4 DEF Lists
  <2>2. ListsSound'
    BY <1>2, <1>6, <2>1 DEF IInv, ListsSound
  <2>3. Flags'
    BY <1>2, <1>3, <1>6, SMTT(30) DEF IInv, Flags
  <2> QED
    BY <2>2, <2>3
<1>9. Queue' /\ SleepersAwaited'
  BY <1>2, <1>6 DEF IInv, Queue, SleepersAwaited, Pending
<1>10. NoDangling'
  <2>1. \A q \in live' : q \notin deleted' => owner'[q] # None
    BY <1>2, <1>3, <1>6, HttpAssumption DEF IInv, NoDangling
  <2>2. \A q \in live' : owner'[q] # None => conn'[owner'[q]].state # "free"
    <3>1. \A q \in live : owner[q] # None => owner[q] \in Conns /\ conn[owner[q]].state # "free"
      BY <1>6 DEF IInv, TypeOK, NoDangling
    <3> QED
      BY <1>1, <1>2, <1>3, <1>6, <3>1
  <2>3. ASSUME NEW d \in Conns, conn'[d].state = "open", conn'[d].recv = "body", conn'[d].send # "close"
        PROVE  conn'[d].extra \in live' /\ owner'[conn'[d].extra] = d
    <3>1. CASE d = c
      BY <1>1, <1>2, <1>3, <2>3, <3>1, Zenon
    <3>2. CASE d # c
      <4>1. conn[d].extra \in live /\ owner[conn[d].extra] = d
        BY <1>1, <2>3, <3>2 DEF IInv, NoDangling, Open
      <4> QED
        BY <1>1, <1>2, <1>3, <1>6, <3>2, <4>1
    <3> QED
      BY <3>1, <3>2, Zenon
  <2>4. \A q \in Requests \ live' : task'[q] = "none" /\ lock' # q /\ cursor' # q
    BY <1>2, Zenon DEF IInv, NoDangling
  <2>5. Range(waiters') \subseteq live'
    BY <1>2, <1>6, Zenon
  <2> QED
    BY <2>1, <2>2, <2>3, <2>4, <2>5, Zenon DEF NoDangling, Open
<1>11. OneUnanswered'
  <2>1. ASSUME NEW p \in live' \ deleted', NEW q \in live' \ deleted', owner'[p] = owner'[q] PROVE p = q
    BY <1>2, <1>3, <1>5, <1>6, <2>1 DEF IInv, OneUnanswered
  <2>2. ASSUME NEW q \in complete' \ (deleted' \cup bare') PROVE conn'[owner'[q]].timer = 0
    <3>1. CASE q = r
      BY <1>1, <1>3, <2>2, <3>1, Zenon
    <3>2. CASE q # r
      <4>1. q \in complete \ (deleted \cup bare) /\ q \in live \ deleted /\ q \in Requests
        BY <1>6, <2>2, <3>2, Zenon
      <4> QED
        BY <1>1, <1>3, <1>5, <3>2, <4>1 DEF IInv, OneUnanswered
    <3> QED
      BY <3>1, <3>2, Zenon
  <2> QED
    BY <2>1, <2>2, Zenon DEF OneUnanswered
<1>12. Receives'
  <2>1. ASSUME NEW q \in live' \ deleted', conn'[owner'[q]].state = "open" PROVE conn'[owner'[q]].recv # "header"
    <3>1. CASE q = r
      BY <1>1, <1>3, <2>1, <3>1, Zenon
    <3>2. CASE q # r
      <4>1. q \in live \ deleted /\ q \in Requests
        BY <1>2, <1>6, <2>1, <3>2, Zenon
      <4> QED
        BY <1>1, <1>3, <1>5, <2>1, <3>2, <4>1, SMTT(30) DEF IInv, Receives, Open
    <3> QED
      BY <3>1, <3>2, Zenon
  <2>2. ASSUME NEW d \in Conns, conn'[d].state = "open", conn'[d].recv = "body"
        PROVE  /\ conn'[d].extra \in live' \ deleted' /\ owner'[conn'[d].extra] = d
                     => conn'[d].extra \notin complete'
               /\ conn'[d].send # "close" => conn'[d].extra \notin deleted'
    <3>1. CASE d = c
      BY <1>1, <2>2, <3>1, Zenon
    <3>2. CASE d # c
      <4>1. /\ conn[d].extra \in live \ deleted /\ owner[conn[d].extra] = d => conn[d].extra \notin complete
            /\ conn[d].send # "close" => conn[d].extra \in live /\ conn[d].extra \notin deleted
        BY <1>1, <2>2, <3>2, Zenon DEF IInv, Receives, NoDangling, Open
      <4> QED
        BY <1>1, <1>2, <1>3, <1>6, <3>2, <4>1, SMTT(30)
    <3> QED
      BY <3>1, <3>2, Zenon
  <2> QED
    BY <2>1, <2>2, Zenon DEF Receives, Open
<1> QED
  BY <1>7, <1>8, <1>9, <1>10, <1>11, <1>12, Zenon DEF IInv

\* http_header_recv with headers that make a request.
LEMMA HeaderStep ==
    ASSUME IInv, NEW c \in Conns, NEW r \in Requests,
           HeaderComplete(c, r) \/ HeaderBody(c, r) \/ HeaderFailed(c, r) \/ HeaderRefused(c, r)
    PROVE  IInv'
<1>0. conn[c] \in Connection
  BY DEF IInv, TypeOK
<1>1. Open(c) /\ conn[c].recv = "header" /\ r \notin live
  BY Zenon DEF HeaderComplete, HeaderBody, HeaderFailed, HeaderRefused, NewRequest, HeaderExpected
<1> DEFINE taken == [Taken(c) EXCEPT !.timer = 0]
<1>2. /\ taken \in Connection /\ taken.state = "open" /\ taken.recv = "taken" /\ taken.timer = 0
      /\ Taken(c) \in Connection /\ Taken(c).state = "open" /\ Taken(c).recv = "taken"
      /\ AwaitBody(c, r) \in Connection /\ AwaitBody(c, r).state = "open"
      /\ AwaitBody(c, r).recv = "body" /\ AwaitBody(c, r).extra = r
  BY <1>0, <1>1, Zenon DEF Taken, AwaitBody, Connection, Open
<1>3. r \notin complete /\ r \notin deleted /\ r \notin bare
  BY <1>1 DEF IInv, Flags
<1> HIDE DEF taken
<1>4. CASE HeaderComplete(c, r)
  <2>1. NewRequest(c, r) /\ complete' = complete \cup {r} /\ deleted' = deleted
    BY <1>4 DEF HeaderComplete
  <2>2. \/ Becomes(c, taken) /\ bare' = bare
        \/ Becomes(c, Taken(c)) /\ bare' = bare \cup {r}
    BY <1>4 DEF HeaderComplete, taken
  <2>3. CASE Becomes(c, taken) /\ bare' = bare
    BY <1>2, <2>1, <2>3, NewStep, Zenon
  <2>4. CASE Becomes(c, Taken(c)) /\ bare' = bare \cup {r}
    BY <1>2, <2>1, <2>4, NewStep, Zenon
  <2> QED
    BY <2>2, <2>3, <2>4
<1>5. CASE HeaderBody(c, r)
  <2>1. NewRequest(c, r) /\ Becomes(c, AwaitBody(c, r)) /\ UNCHANGED <<complete, deleted, bare>>
    BY <1>5 DEF HeaderBody
  <2> QED
    BY <1>2, <1>3, <2>1, NewStep, Zenon
<1>6. CASE HeaderFailed(c, r)
  <2>1. NewRequest(c, r) /\ deleted' = deleted \cup {r} /\ UNCHANGED <<complete, bare>>
    BY <1>6 DEF HeaderFailed
  <2>2. PICK k \in Flushed(Taken(c), TRUE) : Becomes(c, k)
    BY <1>6, Zenon DEF HeaderFailed, ErrorResponse
  <2>3. \/ k = Gone /\ Gone \in Connection /\ Gone.state = "disconnecting"
        \/ k \in Connection /\ k.state = "open" /\ k.recv = "taken"
    BY <1>2, <2>2, Sent, Zenon
  <2> QED
    BY <1>3, <2>1, <2>2, <2>3, NewStep, Zenon
<1>7. CASE HeaderRefused(c, r)
  <2>1. NewRequest(c, r) /\ deleted' = deleted \cup {r} /\ UNCHANGED <<complete, bare>>
    BY <1>7 DEF HeaderRefused
  <2>2. PICK h \in {taken, AwaitBody(c, r)} : \E k \in Responded(h) : Becomes(c, k)
    BY <1>7 DEF HeaderRefused, taken
  <2>3. PICK k \in Responded(h) : Becomes(c, k)
    BY <2>2
  <2>4. h \in Connection /\ h.state = "open" /\ (h.recv = "body" => h.extra = r)
    BY <1>2, <2>2
  <2>5. \/ k = Gone /\ Gone \in Connection /\ Gone.state = "disconnecting"
        \/ /\ k \in Connection /\ k.state = "open"
           /\ k.recv = "body" => k.extra = r /\ k.send = "close"
    BY <2>3, <2>4, Sent, Zenon
  <2> QED
    BY <1>3, <2>1, <2>3, <2>5, NewStep, Zenon
<1> QED
  BY <1>4, <1>5, <1>6, <1>7

\* http_request_wakeup.
LEMMA Woken ==
    ASSUME IInv, NEW r \in Requests, Wakeup(r)
    PROVE  /\ run' \in Seq(Requests) /\ IsInjective(run') /\ sleeping' = sleeping \ {r}
           /\ Range(run') \cap sleeping' = {} /\ Range(run') \cup sleeping' = live
           /\ Range(run) \subseteq Range(run')
<1>1. Lists(run, Range(run)) /\ Range(run) \cap sleeping = {} /\ Range(run) \cup sleeping = live
  BY DEF IInv, TypeOK, ListsSound, Lists
<1>2. CASE r \in sleeping
  <2>1. run' = Append(run, r) /\ r \notin Range(run) /\ sleeping' = sleeping \ {r}
    BY <1>1, <1>2 DEF Wakeup
  <2>2. Lists(run', Range(run) \cup {r})
    BY <1>1, <2>1, Inserted, Zenon
  <2>3. run' \in Seq(Requests) /\ IsInjective(run') /\ Range(run') = Range(run) \cup {r}
    BY <2>2 DEF Lists
  <2> QED
    BY <1>1, <1>2, <2>1, <2>3
<1>3. CASE r \notin sleeping
  <2>1. run' = run /\ sleeping' = sleeping
    BY <1>3 DEF Wakeup
  <2> QED
    BY <1>1, <1>3, <2>1 DEF Lists
<1> QED
  BY <1>2, <1>3

\* The request whose body is received is awake.
LEMMA BodyAwake ==
    ASSUME IInv, NEW c \in Conns, BodyExpected(c)
    PROVE  /\ conn[c] \in Connection /\ conn[c].extra \in live /\ conn[c].extra \in Requests
           /\ owner[conn[c].extra] = c /\ conn[c].extra \notin sleeping
<1>1. Open(c) /\ conn[c].recv = "body" /\ conn[c].extra \in live /\ owner[conn[c].extra] = c
  BY DEF BodyExpected
<1>2. conn[c].extra \notin sleeping
  BY <1>1, Zenon DEF IInv, Receives, SleepersAwaited, Flags
<1> QED
  BY <1>1, <1>2, Zenon DEF IInv, TypeOK

\* http_body_recv.
LEMMA BodyStep ==
    ASSUME IInv, NEW c \in Conns, BodyLast(c) \/ BodyFailed(c)
    PROVE  IInv'
<1> USE DEF listVars, flagVars, lockVars, loopVars
<1> DEFINE r == conn[c].extra
<1>1. BodyExpected(c) /\ UNCHANGED <<live, bare, owner, task, lock, waiters, pc, cursor, spent>>
  BY Zenon DEF BodyLast, BodyFailed, BodyExpected, Event
<1>2. conn[c] \in Connection /\ r \in live /\ r \in Requests /\ owner[r] = c /\ r \notin sleeping
  BY <1>1, BodyAwake, Zenon
<1>3. PICK k \in Connection :
         /\ Becomes(c, k) /\ k.state # "free" /\ k.timer = 0 /\ UNCHANGED <<run, sleeping>>
         /\ k.state = "open" => k.recv = "taken"
         /\ \/ complete' = complete \cup {r} /\ deleted' = deleted
            \/ complete' = complete /\ deleted' = deleted \cup {r}
  <2>1. CASE BodyLast(c)
    <3> DEFINE k == [Taken(c) EXCEPT !.timer = 0, !.extra = None]
    <3>1. Open(c)
      BY <1>1 DEF BodyExpected
    <3>2. k \in Connection /\ k.state = "open" /\ k.timer = 0 /\ k.recv = "taken"
      BY <1>2, <3>1, Zenon DEF Taken, Connection, Open
    <3>3. Becomes(c, k) /\ complete' = complete \cup {r} /\ deleted' = deleted /\ Wakeup(r)
      BY <2>1 DEF BodyLast
    <3>4. UNCHANGED <<run, sleeping>>
      BY <1>2, <3>3 DEF Wakeup
    <3> HIDE DEF k, r
    <3> QED
      BY <3>2, <3>3, <3>4
  <2>2. CASE BodyFailed(c)
    <3>1. Gone \in Connection /\ Gone.state = "disconnecting" /\ Gone.timer = 0
      BY DEF Gone, NotOpen, Connection
    <3>2. Becomes(c, Gone) /\ deleted' = deleted \cup {r} /\ UNCHANGED <<run, sleeping, complete>>
      BY <2>2 DEF BodyFailed
    <3> HIDE DEF r
    <3> QED
      BY <3>1, <3>2
  <2> QED
    BY <2>1, <2>2, Zenon
<1>4. conn' \in [Conns -> Connection] /\ conn'[c] = k /\ \A d \in Conns : d # c => conn'[d] = conn[d]
  BY <1>3, Zenon DEF IInv, TypeOK, Becomes
<1> HIDE DEF r
<1>5. live \subseteq Requests /\ \A q \in live \ deleted : owner[q] \in Conns
  BY DEF IInv, TypeOK, NoDangling
<1>6. TypeOK'
  BY <1>1, <1>2, <1>3, <1>4 DEF IInv, TypeOK
<1>7. ListsSound' /\ Flags' /\ Queue' /\ SleepersAwaited'
  BY <1>1, <1>2, <1>3 DEF IInv, ListsSound, Flags, Queue, SleepersAwaited, Pending
<1>8. NoDangling'
  <2>1. \A q \in live : owner[q] # None => owner[q] \in Conns /\ conn'[owner[q]].state # "free"
    BY <1>3, <1>4, <1>5 DEF IInv, TypeOK, NoDangling
  <2>2. ASSUME NEW d \in Conns, conn'[d].state = "open", conn'[d].recv = "body", conn'[d].send # "close"
        PROVE  conn'[d].extra \in live /\ owner[conn'[d].extra] = d
    <3>1. d # c
      BY <1>3, <1>4, <2>2, Zenon
    <3> QED
      BY <1>4, <2>2, <3>1 DEF IInv, NoDangling, Open
  <2>3. \A q \in live : q \notin deleted' => owner[q] # None
    BY <1>3, Zenon DEF IInv, NoDangling
  <2>4. \A q \in Requests \ live : task[q] = "none" /\ lock # q /\ cursor # q
    BY DEF IInv, NoDangling
  <2>5. Range(waiters) \subseteq live
    BY DEF IInv, NoDangling
  <2> QED
    BY <1>1, <2>1, <2>2, <2>3, <2>4, <2>5, Zenon DEF NoDangling, Open
<1>9. OneUnanswered'
  <2>1. ASSUME NEW q \in complete' \ (deleted' \cup bare) PROVE conn'[owner[q]].timer = 0
    <3>1. CASE q = r
      BY <1>2, <1>3, <1>4, <3>1, Zenon
    <3>2. CASE q # r
      <4>1. q \in complete \ (deleted \cup bare) /\ owner[q] \in Conns
        BY <1>3, <1>5, <2>1, <3>2 DEF IInv, Flags
      <4>2. conn[owner[q]].timer = 0
        BY <4>1 DEF IInv, OneUnanswered
      <4> QED
        BY <1>3, <1>4, <4>1, <4>2, Zenon
    <3> QED
      BY <3>1, <3>2
  <2>2. \A p, q \in live \ deleted' : owner[p] = owner[q] => p = q
    BY <1>3 DEF IInv, OneUnanswered
  <2> QED
    BY <1>1, <2>1, <2>2 DEF OneUnanswered
<1>10. Receives'
  <2>1. ASSUME NEW q \in live \ deleted', conn'[owner[q]].state = "open" PROVE conn'[owner[q]].recv # "header"
    <3>1. q \in live \ deleted /\ owner[q] \in Conns
      BY <1>3, <1>5, Zenon
    <3> QED
      BY <1>3, <1>4, <2>1, <3>1, Zenon DEF IInv, Receives, Open
  <2>2. ASSUME NEW d \in Conns, conn'[d].state = "open", conn'[d].recv = "body"
        PROVE  /\ conn'[d].extra \in live \ deleted' /\ owner[conn'[d].extra] = d => conn'[d].extra \notin complete'
               /\ conn'[d].send # "close" => conn'[d].extra \notin deleted'
    <3>1. d # c
      BY <1>3, <1>4, <2>2, Zenon
    <3>2. /\ conn[d].extra \in live \ deleted /\ owner[conn[d].extra] = d => conn[d].extra \notin complete
          /\ conn[d].send # "close" => conn[d].extra \notin deleted /\ owner[conn[d].extra] = d
      BY <1>4, <2>2, <3>1, Zenon DEF IInv, Receives, NoDangling, Open
    <3> QED
      BY <1>2, <1>3, <1>4, <3>1, <3>2, Zenon
  <2> QED
    BY <1>1, <2>1, <2>2, Zenon DEF Receives, Open
<1> QED
  BY <1>6, <1>7, <1>8, <1>9, <1>10 DEF IInv

\* A step that leaves the connections and the flags of the requests alone.
LEMMA Kept ==
    ASSUME IInv, UNCHANGED <<conn, flagVars>>, TypeOK', ListsSound', sleeping' \subseteq complete,
           Queue', SleepersAwaited', Range(waiters') \subseteq live,
           \A r \in Requests \ live : task'[r] = "none" /\ lock' # r /\ cursor' # r
    PROVE  IInv'
<1> USE DEF flagVars
<1>1. NoDangling'
  BY Zenon DEF IInv, NoDangling, Open
<1>2. OneUnanswered' /\ Receives'
  BY Zenon DEF IInv, OneUnanswered, Receives, Open
<1>3. Flags'
  BY DEF IInv, Flags
<1> QED
  BY <1>1, <1>2, <1>3, Zenon DEF IInv

\* Tasks: their threads and kore_task_handle.
LEMMA TaskStep ==
    ASSUME IInv, NEW r \in Requests, TaskEnds(r) \/ TaskData(r) \/ TaskFinished(r)
    PROVE  IInv'
<1> USE DEF flagVars, lockVars, loopVars, listVars
<1>1. r \in live /\ Pending(r) /\ r \notin Range(waiters)
  BY Zenon DEF TaskEnds, TaskData, TaskFinished, Pending, IInv, NoDangling, Queue
<1>2. UNCHANGED <<conn, flagVars, lock, waiters, pc, cursor, spent>>
  BY DEF TaskEnds, TaskData, TaskFinished, Event
<1>3. /\ task' \in [Requests -> {"none", "running", "closed", "finished", "destroyed"}]
      /\ \A q \in Requests : q # r => task'[q] = task[q]
      /\ Wakeup(r) \/ (UNCHANGED <<run, sleeping>> /\ task'[r] \in {"running", "closed"})
  BY Zenon DEF TaskEnds, TaskData, TaskFinished, IInv, TypeOK
<1>4. /\ run' \in Seq(Requests) /\ ListsSound' /\ sleeping' \subseteq sleeping
      /\ r \in sleeping' => task'[r] \in {"running", "closed"}
  <2>1. CASE Wakeup(r)
    BY <1>2, <2>1, Woken DEF ListsSound
  <2>2. CASE UNCHANGED <<run, sleeping>> /\ task'[r] \in {"running", "closed"}
    BY <1>2, <2>2, Zenon DEF IInv, TypeOK, ListsSound
  <2> QED
    BY <1>3, <2>1, <2>2
<1>5. sleeping' = sleeping \/ sleeping' = sleeping \ {r}
  BY <1>3 DEF Wakeup
<1>6. TypeOK'
  BY <1>2, <1>3, <1>4, <1>5, Zenon DEF IInv, TypeOK
<1>7. Range(waiters) \subseteq live /\ live \subseteq Requests
  BY Zenon DEF IInv, TypeOK, NoDangling
<1>8. Queue'
  BY <1>1, <1>2, <1>3, <1>7, Zenon DEF IInv, Queue, Pending
<1>9. SleepersAwaited'
  <2>1. ASSUME NEW q \in sleeping' PROVE task'[q] \in {"running", "closed"} \/ q \in Range(waiters)
    BY <1>3, <1>4, <2>1 DEF IInv, TypeOK, SleepersAwaited, Pending
  <2>2. sleeping' \cap deleted = {} /\ Range(waiters) \subseteq sleeping' \cup deleted
    BY <1>1, <1>5 DEF IInv, SleepersAwaited
  <2> QED
    BY <1>2, <2>1, <2>2 DEF SleepersAwaited, Pending
<1>10. \A q \in Requests \ live : task'[q] = "none" /\ lock' # q /\ cursor' # q
  BY <1>1, <1>2, <1>3, Zenon DEF IInv, NoDangling
<1>11. sleeping' \subseteq complete
  BY <1>4 DEF IInv, Flags
<1> QED
  BY <1>2, <1>4, <1>6, <1>7, <1>8, <1>9, <1>10, <1>11, Kept, Zenon

\* The request that http_process looks at, and the next one.
LEMMA Visited ==
    ASSUME IInv, NEW r \in Requests, Visit(r)
    PROVE  /\ r \in Range(run) /\ r \in live /\ r \notin sleeping /\ (r \in Range(waiters) => r \in deleted)
           /\ cursor' \in (live \ {r}) \cup {None} /\ pc' = pc
<1>1. /\ r \in Range(run) /\ cursor' = After(run, r) /\ pc' = pc
      /\ Lists(run, Range(run)) /\ Range(run) \subseteq live
  BY DEF Visit, IInv, TypeOK, ListsSound, Lists
<1>2. cursor' \in (Range(run) \ {r}) \cup {None}
  BY <1>1, Walked, Zenon
<1>3. r \notin sleeping /\ (r \in Range(waiters) => r \in deleted)
  BY <1>1 DEF IInv, ListsSound, SleepersAwaited
<1> QED
  BY <1>1, <1>2, <1>3

\* http_request_sleep.
LEMMA Slept ==
    ASSUME IInv, NEW r \in Requests, r \in Range(run), Sleep(r)
    PROVE  /\ run' \in Seq(Requests) /\ IsInjective(run') /\ sleeping' = sleeping \cup {r}
           /\ Range(run') \cap sleeping' = {} /\ Range(run') \cup sleeping' = live
<1>1. /\ Lists(run, Range(run)) /\ Range(run) \cap sleeping = {} /\ Range(run) \cup sleeping = live
      /\ run' = Without(run, r) /\ sleeping' = sleeping \cup {r}
  BY DEF IInv, TypeOK, ListsSound, Lists, Sleep
<1>2. Lists(run', Range(run) \ {r})
  BY <1>1, Removed
<1>3. run' \in Seq(Requests) /\ IsInjective(run') /\ Range(run') = Range(run) \ {r}
  BY <1>2 DEF Lists
<1> QED
  BY <1>1, <1>3

\* The steps of http_process that free nothing.
LEMMA ProcessStep ==
    ASSUME IInv,
           \/ StartProcess \/ EndProcess
           \/ \E r \in Requests : \/ NotComplete(r) \/ HandlerRetry(r) \/ HandlerAcquire(r)
                                  \/ HandlerTask(r) \/ HandlerAwaits(r)
    PROVE  IInv'
<1> USE DEF flagVars, lockVars, loopVars, listVars
<1>0. /\ TypeOK /\ ListsSound /\ Queue /\ SleepersAwaited /\ sleeping \subseteq complete
      /\ Range(waiters) \subseteq live /\ live \subseteq Requests
      /\ \A r \in Requests \ live : task[r] = "none" /\ lock # r /\ cursor # r
  BY Zenon DEF IInv, TypeOK, Flags, NoDangling
<1>a. ASSUME UNCHANGED <<conn, flagVars, task, lockVars, listVars>>, cursor' \in live \cup {None},
             pc' \in {"events", "process", "prune"}, spent' \in {0, 1}
      PROVE  IInv'
  <2>1. TypeOK'
    BY <1>0, <1>a, Zenon DEF TypeOK
  <2>2. ListsSound' /\ Queue' /\ SleepersAwaited'
    BY <1>0, <1>a, Zenon DEF ListsSound, Queue, SleepersAwaited, Pending
  <2>3. \A r \in Requests \ live : task'[r] = "none" /\ lock' # r /\ cursor' # r
    BY <1>0, <1>a, HttpAssumption, Zenon
  <2> QED
    BY <1>0, <1>a, <2>1, <2>2, <2>3, Kept, Zenon
<1>1. CASE StartProcess
  <2>1. Lists(run, Range(run)) /\ Range(run) \subseteq live
    BY <1>0 DEF TypeOK, ListsSound, Lists
  <2>2. First(run) \in live \cup {None}
    BY <2>1, Walked, Zenon
  <2> QED
    BY <1>0, <1>1, <1>a, <2>2, Zenon DEF StartProcess, TypeOK
<1>2. CASE EndProcess
  BY <1>2, <1>a, Zenon DEF EndProcess
<1>3. ASSUME NEW r \in Requests, NotComplete(r) \/ HandlerRetry(r) PROVE IInv'
  <2>1. /\ Visit(r) /\ UNCHANGED <<conn, flagVars, task, lockVars, listVars>>
        /\ spent' = 1 \/ spent' = spent
    BY <1>3, Zenon DEF NotComplete, HandlerRetry, Handler
  <2>2. cursor' \in live \cup {None} /\ pc' = pc
    BY <2>1, Visited
  <2> QED
    BY <1>0, <1>a, <2>1, <2>2, Zenon DEF TypeOK
<1>4. ASSUME NEW r \in Requests, HandlerAcquire(r) \/ HandlerTask(r) \/ HandlerAwaits(r) PROVE IInv'
  <2>1. Visit(r) /\ spent' = 1 /\ r \in complete \ deleted /\ UNCHANGED <<conn, flagVars>>
    BY <1>4, Zenon DEF HandlerAcquire, HandlerTask, HandlerAwaits, Handler
  <2>2. /\ r \in Range(run) /\ r \in live /\ r \notin sleeping /\ r \notin Range(waiters)
        /\ cursor' \in live \cup {None} /\ pc' = pc
    BY <2>1, Visited
  <2>3. CASE HandlerAcquire(r) /\ lock = None
    <3>1. lock' = r /\ UNCHANGED <<waiters, run, sleeping, task>>
      BY <2>3 DEF HandlerAcquire
    <3>2. TypeOK'
      BY <1>0, <2>1, <2>2, <3>1, Zenon DEF TypeOK
    <3>3. ListsSound' /\ Queue' /\ SleepersAwaited'
      BY <1>0, <2>1, <3>1, Zenon DEF ListsSound, Queue, SleepersAwaited, Pending
    <3>4. \A q \in Requests \ live : task'[q] = "none" /\ lock' # q /\ cursor' # q
      BY <1>0, <2>2, <3>1, HttpAssumption, Zenon
    <3> QED
      BY <1>0, <2>1, <3>1, <3>2, <3>3, <3>4, Kept, Zenon
  <2>4. CASE HandlerAcquire(r) /\ lock # None
    <3>1. waiters' = <<r>> \o waiters /\ Sleep(r) /\ ~ Pending(r) /\ UNCHANGED <<lock, task>>
      BY <2>4, Zenon DEF HandlerAcquire
    <3>2. /\ run' \in Seq(Requests) /\ sleeping' = sleeping \cup {r} /\ ListsSound'
      BY <2>1, <2>2, <3>1, Slept, Zenon DEF ListsSound
    <3>3. Lists(waiters', Range(waiters) \cup {r})
      <4>1. Lists(waiters, Range(waiters))
        BY <1>0, Zenon DEF TypeOK, Queue, Lists
      <4> QED
        BY <2>2, <3>1, <4>1, Inserted, Zenon
    <3>4. waiters' \in Seq(Requests) /\ IsInjective(waiters') /\ Range(waiters') = Range(waiters) \cup {r}
      BY <3>3 DEF Lists
    <3>5. TypeOK'
      BY <1>0, <2>1, <2>2, <3>1, <3>2, <3>4, Zenon DEF TypeOK
    <3>6. Queue'
      BY <1>0, <3>1, <3>4, Zenon DEF Queue, Pending
    <3>7. SleepersAwaited'
      BY <1>0, <2>1, <3>1, <3>2, <3>4, Zenon DEF SleepersAwaited, Pending
    <3>8. \A q \in Requests \ live : task'[q] = "none" /\ lock' # q /\ cursor' # q
      BY <1>0, <2>2, <3>1, HttpAssumption, Zenon
    <3>9. sleeping' \subseteq complete /\ Range(waiters') \subseteq live
      BY <1>0, <2>1, <2>2, <3>2, <3>4, Zenon
    <3> QED
      BY <2>1, <3>2, <3>5, <3>6, <3>7, <3>8, <3>9, Kept, Zenon
  <2>5. CASE HandlerTask(r) \/ HandlerAwaits(r)
    <3>1. /\ Sleep(r) /\ UNCHANGED <<lock, waiters>> /\ task'[r] \in {"running", "closed"}
          /\ task' \in [Requests -> {"none", "running", "closed", "finished", "destroyed"}]
          /\ \A q \in Requests : q # r => task'[q] = task[q]
      BY <1>0, <2>5, Zenon DEF HandlerTask, HandlerAwaits, Pending, TypeOK
    <3>2. /\ run' \in Seq(Requests) /\ sleeping' = sleeping \cup {r} /\ ListsSound'
      BY <2>1, <2>2, <3>1, Slept, Zenon DEF ListsSound
    <3>3. TypeOK'
      BY <1>0, <2>1, <2>2, <3>1, <3>2, Zenon DEF TypeOK
    <3>4. Queue'
      BY <1>0, <2>2, <3>1 DEF Queue, Pending
    <3>5. SleepersAwaited'
      <4>1. \A q \in sleeping' : task'[q] \in {"running", "closed"} \/ q \in Range(waiters)
        BY <1>0, <3>1, <3>2, Zenon DEF SleepersAwaited, Pending, TypeOK
      <4>2. sleeping' \cap deleted = {} /\ Range(waiters) \subseteq sleeping' \cup deleted
        BY <1>0, <2>1, <3>2, Zenon DEF SleepersAwaited
      <4> QED
        BY <2>1, <3>1, <4>1, <4>2 DEF SleepersAwaited, Pending
    <3>6. \A q \in Requests \ live : task'[q] = "none" /\ lock' # q /\ cursor' # q
      BY <1>0, <2>2, <3>1, HttpAssumption
    <3>7. sleeping' \subseteq complete /\ Range(waiters') \subseteq live
      BY <1>0, <2>1, <3>1, <3>2, Zenon
    <3> QED
      BY <2>1, <3>2, <3>3, <3>4, <3>5, <3>6, <3>7, Kept, Zenon
  <2> QED
    BY <1>4, <2>3, <2>4, <2>5
<1> QED
  BY <1>1, <1>2, <1>3, <1>4

\* What http_request_free of r does to the lists, the lock and its queue, who
\* has been woken by the on_free hook included.
LEMMA Freed ==
    ASSUME IInv, NEW r \in Requests, r \in Range(run), Free(r)
    PROVE  \E w \in Requests \cup {None} :
              /\ w # None => w \in Range(waiters)
              /\ sleeping' = sleeping \ {w} /\ lock' \in {lock, None} \ {r}
              /\ Lists(waiters', Range(waiters) \ {w, r})
              /\ \/ /\ Lists(run', live \ sleeping') /\ Pending(r) /\ deleted' = deleted \cup {r}
                    /\ UNCHANGED <<live, complete, bare, owner, task>>
                 \/ /\ Lists(run', (live \ sleeping') \ {r})
                    /\ live' = live \ {r} /\ complete' = complete \ {r}
                    /\ deleted' = deleted \ {r} /\ bare' = bare \ {r}
                    /\ owner' = [owner EXCEPT ![r] = None] /\ task' = [task EXCEPT ![r] = "none"]
<1> DEFINE rel == Released(r)
           w == rel.woken
           list == IF w \in sleeping THEN Append(run, w) ELSE run
<1>1. /\ Lists(run, Range(run)) /\ Lists(waiters, Range(waiters)) /\ Range(run) = live \ sleeping
      /\ sleeping \subseteq live /\ live \subseteq Requests /\ lock \in Requests \cup {None}
  BY Zenon DEF IInv, TypeOK, ListsSound, Queue, Lists
<1>2. /\ w \in Range(waiters) \cup {None} /\ rel.lock \in {lock, None} \ {r}
      /\ Lists(rel.waiters, Range(waiters) \ {w})
  <2>1. CASE lock # r
    <3>1. rel.lock = lock /\ w = None /\ rel.waiters = waiters
      BY <2>1, SMTT(30) DEF Released
    <3>2. None \notin Range(waiters)
      BY <1>1, HttpAssumption, Zenon DEF IInv, NoDangling
    <3>3. Range(waiters) \ {w} = Range(waiters)
      BY <3>1, <3>2
    <3> QED
      BY <1>1, <2>1, <3>1, <3>3, Zenon
  <2>2. CASE lock = r /\ waiters = << >>
    <3>1. rel.lock = None /\ w = First(waiters) /\ rel.waiters = << >>
      BY <2>2 DEF Released
    <3>2. Range(waiters) = {} /\ w = None
      BY <1>1, <2>2, <3>1, Walked, Zenon
    <3>3. Range(waiters) \ {w} = Range(waiters)
      BY <3>2
    <3> QED
      BY <1>1, <2>2, <3>1, <3>2, <3>3, HttpAssumption, Zenon
  <2>3. CASE lock = r /\ waiters # << >>
    <3>1. rel.lock = None /\ w = First(waiters) /\ rel.waiters = Tail(waiters)
      BY <2>3 DEF Released
    <3>2. w \in Range(waiters) /\ Lists(Tail(waiters), Range(waiters) \ {w})
      BY <1>1, <2>3, <3>1, Walked, SMTT(30)
    <3> QED
      BY <3>1, <3>2, HttpAssumption, Zenon
  <2> QED
    BY <2>1, <2>2, <2>3, Zenon
<1>3. w \in Requests \cup {None}
  BY <1>2, Zenon DEF IInv, NoDangling, TypeOK
<1>4. Lists(Without(rel.waiters, r), Range(waiters) \ {w, r})
  <2>1. Lists(Without(rel.waiters, r), (Range(waiters) \ {w}) \ {r})
    BY <1>2, Removed
  <2>2. (Range(waiters) \ {w}) \ {r} = Range(waiters) \ {w, r}
    OBVIOUS
  <2> QED
    BY <2>1, <2>2
<1>5. Lists(list, live \ (sleeping \ {w}))
  <2>1. CASE w \in sleeping
    <3>1. w \in Requests /\ w \notin Range(run) /\ live \ (sleeping \ {w}) = Range(run) \cup {w}
      BY <1>1, <2>1
    <3>2. Lists(Append(run, w), Range(run) \cup {w})
      BY <1>1, <3>1, Inserted, Zenon
    <3> QED
      BY <2>1, <3>1, <3>2, Zenon
  <2>2. CASE w \notin sleeping
    <3>1. live \ (sleeping \ {w}) = Range(run) /\ list = run
      BY <1>1, <2>2
    <3> QED
      BY <1>1, <3>1, Zenon
  <2> QED
    BY <2>1, <2>2
<1>6. Lists(Without(list, r), (live \ (sleeping \ {w})) \ {r})
  BY <1>5, Removed
<1>7. /\ lock' = rel.lock /\ waiters' = Without(rel.waiters, r) /\ sleeping' = sleeping \ {w}
      /\ \/ /\ run' = list /\ Pending(r) /\ deleted' = deleted \cup {r}
            /\ UNCHANGED <<live, complete, bare, owner, task>>
         \/ /\ run' = Without(list, r)
            /\ live' = live \ {r} /\ complete' = complete \ {r}
            /\ deleted' = deleted \ {r} /\ bare' = bare \ {r}
            /\ owner' = [owner EXCEPT ![r] = None] /\ task' = [task EXCEPT ![r] = "none"]
  BY Zenon DEF Free
<1> HIDE DEF rel, w, list
<1> WITNESS w \in Requests \cup {None}
<1> QED
  BY <1>2, <1>4, <1>5, <1>6, <1>7, Zenon

\* What becomes of the connections when r is freed: nothing when r is flagged for
\* deletion; else the connection of r was answered, and when it still receives a
\* body it is to close.
Answers(r) ==
    /\ conn' \in [Conns -> Connection]
    /\ \/ r \in deleted /\ conn' = conn
       \/ /\ r \in complete \ deleted /\ conn'[owner[r]].state # "free"
          /\ \A d \in Conns : d # owner[r] => conn'[d] = conn[d]
          /\ conn'[owner[r]].state = "open" /\ conn'[owner[r]].recv = "body" =>
                /\ Open(owner[r]) /\ conn[owner[r]].recv = "body"
                /\ conn'[owner[r]].extra = conn[owner[r]].extra /\ conn'[owner[r]].send = "close"

\* A request is freed, or flagged while its task goes on (http_request_free).
LEMMA FreeStep ==
    ASSUME IInv, NEW r \in Requests, Visit(r), Free(r), spent' \in {0, 1}, Answers(r)
    PROVE  IInv'
<1>1. /\ r \in Range(run) /\ r \in live /\ r \notin sleeping
      /\ cursor' \in (live \ {r}) \cup {None} /\ pc' = pc
  BY Visited
<1>2. PICK w \in Requests \cup {None} :
         /\ w # None => w \in Range(waiters)
         /\ sleeping' = sleeping \ {w} /\ lock' \in {lock, None} \ {r}
         /\ Lists(waiters', Range(waiters) \ {w, r})
         /\ \/ /\ Lists(run', live \ sleeping') /\ Pending(r) /\ deleted' = deleted \cup {r}
               /\ UNCHANGED <<live, complete, bare, owner, task>>
            \/ /\ Lists(run', (live \ sleeping') \ {r})
               /\ live' = live \ {r} /\ complete' = complete \ {r}
               /\ deleted' = deleted \ {r} /\ bare' = bare \ {r}
               /\ owner' = [owner EXCEPT ![r] = None] /\ task' = [task EXCEPT ![r] = "none"]
  BY <1>1, Freed, Zenon
<1>3. /\ live \subseteq Requests /\ complete \subseteq live /\ deleted \subseteq live /\ bare \subseteq live
      /\ sleeping \subseteq complete /\ Range(waiters) \subseteq live
      /\ owner \in [Requests -> Conns \cup {None}]
      /\ task \in [Requests -> {"none", "running", "closed", "finished", "destroyed"}]
  BY Zenon DEF IInv, TypeOK, Flags, NoDangling
<1>4. /\ live' \in {live, live \ {r}} /\ live' \ deleted' = (live \ deleted) \ {r}
      /\ complete' \ (deleted' \cup bare') \subseteq (complete \ (deleted \cup bare)) \ {r}
      /\ deleted' \subseteq deleted \cup {r} /\ complete' \subseteq complete
      /\ \A q \in Requests : q # r => owner'[q] = owner[q] /\ task'[q] = task[q]
      /\ \A q \in deleted : q # r => q \in deleted'
      /\ owner'[r] \in {owner[r], None}
  BY <1>1, <1>2, <1>3, Zenon
<1>5. TypeOK'
  <2>1. run' \in Seq(Requests) /\ waiters' \in Seq(Requests)
    BY <1>2, Zenon DEF Lists
  <2>2. owner' \in [Requests -> Conns \cup {None}]
        /\ task' \in [Requests -> {"none", "running", "closed", "finished", "destroyed"}]
    BY <1>2, <1>3
  <2>3. /\ live' \subseteq Requests /\ complete' \subseteq Requests /\ deleted' \subseteq Requests
        /\ bare' \subseteq Requests /\ sleeping' \subseteq Requests
    BY <1>2, <1>3, Zenon
  <2>4. lock' \in Requests \cup {None} /\ cursor' \in Requests \cup {None}
        /\ pc' \in {"events", "process", "prune"}
    BY <1>1, <1>2, <1>3, Zenon DEF IInv, TypeOK
  <2> QED
    BY <2>1, <2>2, <2>3, <2>4, Zenon DEF TypeOK, Answers
<1>6. ListsSound'
  <2>1. Range(run') = live' \ sleeping' /\ IsInjective(run')
    BY <1>2, Zenon DEF Lists
  <2>2. sleeping' \subseteq live'
    BY <1>1, <1>2, <1>3, Zenon
  <2> QED
    BY <2>1, <2>2, SMTT(30) DEF ListsSound
<1>7. Flags'
  <2>1. /\ complete' \subseteq live' /\ deleted' \subseteq live' /\ bare' \subseteq live'
        /\ sleeping' \subseteq complete'
    BY <1>1, <1>2, <1>3, Zenon
  <2>2. \A q \in Requests \ live' : owner'[q] = None
    BY <1>2, <1>3, SMTT(30) DEF IInv, Flags
  <2> QED
    BY <2>1, <2>2, SMTT(30) DEF Flags
<1>8. IsInjective(waiters') /\ Range(waiters') = Range(waiters) \ {w, r}
  BY <1>2, Zenon DEF Lists
<1>9. Queue'
  BY <1>3, <1>4, <1>8, Zenon DEF IInv, Queue, Pending
<1>10. SleepersAwaited'
  <2>1. ASSUME NEW q \in sleeping' PROVE task'[q] \in {"running", "closed"} \/ q \in Range(waiters')
    <3>1. q \in sleeping /\ q # w /\ q # r /\ q \in Requests
      BY <1>1, <1>2, <1>3, SMTT(30)
    <3> QED
      BY <1>4, <1>8, <3>1, Zenon DEF IInv, SleepersAwaited, Pending
  <2>2. sleeping' \cap deleted' = {}
    BY <1>1, <1>2, <1>4, Zenon DEF IInv, SleepersAwaited
  <2>3. Range(waiters') \subseteq sleeping' \cup deleted'
    BY <1>2, <1>4, <1>8, Zenon DEF IInv, SleepersAwaited
  <2> QED
    BY <2>1, <2>2, <2>3, SMTT(30) DEF SleepersAwaited, Pending
<1>11. ASSUME NEW q \in live \ deleted, q # r PROVE owner[q] \in Conns /\ conn'[owner[q]] = conn[owner[q]]
  <2>1. owner[q] \in Conns
    BY <1>3, <1>11 DEF IInv, NoDangling
  <2>2. r \in live \ deleted => owner[q] # owner[r]
    BY <1>11, Zenon DEF IInv, OneUnanswered
  <2> QED
    BY <1>1, <2>1, <2>2, Zenon DEF Answers
<1>12. ASSUME NEW d \in Conns, conn'[d].state = "open", conn'[d].recv = "body"
       PROVE  /\ Open(d) /\ conn[d].recv = "body" /\ conn'[d].extra = conn[d].extra
              /\ conn'[d].send # "close" =>
                    /\ conn[d].send # "close" /\ conn[d].extra \in live \ deleted
                    /\ owner[conn[d].extra] = d /\ conn[d].extra # r
  <2>1. /\ Open(d) /\ conn[d].recv = "body" /\ conn'[d].extra = conn[d].extra
        /\ conn'[d].send # "close" => conn'[d] = conn[d]
    BY <1>12, Zenon DEF Open, Answers
  <2>2. ASSUME conn'[d].send # "close"
        PROVE  conn[d].extra \in live \ deleted /\ owner[conn[d].extra] = d /\ conn[d].extra \notin complete
    <3>1. conn[d].send # "close" /\ conn[d].state = "open" /\ conn[d].recv = "body"
      BY <2>1, <2>2, Zenon DEF Open
    <3>2. conn[d].extra \in live /\ owner[conn[d].extra] = d
      BY <3>1, Zenon DEF IInv, NoDangling, Open
    <3>3. conn[d].extra \notin deleted /\ conn[d].extra \notin complete
      BY <3>1, <3>2, Zenon DEF IInv, NoDangling, Receives, Open
    <3> QED
      BY <3>2, <3>3
  <2>3. r \in complete \cup deleted
    BY Zenon DEF Answers
  <2> QED
    BY <2>1, <2>2, <2>3, Zenon
<1>13. NoDangling'
  <2>1. \A q \in Requests \ live' : task'[q] = "none" /\ lock' # q /\ cursor' # q
    <3>1. ASSUME NEW q \in Requests \ live PROVE task'[q] = "none" /\ lock' # q /\ cursor' # q
      <4>1. task[q] = "none" /\ lock # q /\ q # r /\ q # None
        BY <1>1, HttpAssumption, SMTT(30) DEF IInv, NoDangling
      <4>2. task'[q] = "none"
        BY <1>4, <4>1, Zenon
      <4>3. lock' # q
        BY <1>2, <4>1, Zenon
      <4>4. cursor' # q
        BY <1>1, <4>1, Zenon
      <4> QED
        BY <4>2, <4>3, <4>4, SMTT(30)
    <3>2. ASSUME r \notin live' PROVE task'[r] = "none" /\ lock' # r /\ cursor' # r
      BY <1>1, <1>2, <1>3, <3>2, HttpAssumption, SMTT(30)
    <3> QED
      BY <1>4, <3>1, <3>2, Zenon
  <2>2. Range(waiters') \subseteq live'
    BY <1>3, <1>4, <1>8, Zenon
  <2>3. ASSUME NEW d \in Conns, conn'[d].state = "open", conn'[d].recv = "body", conn'[d].send # "close"
        PROVE  conn'[d].extra \in live' /\ owner'[conn'[d].extra] = d
    <3>1. /\ conn'[d].extra = conn[d].extra /\ conn[d].extra \in live /\ conn[d].extra # r
          /\ owner[conn[d].extra] = d
      BY <1>12, <2>3, Zenon
    <3>2. conn[d].extra \in Requests /\ conn[d].extra \in live'
      BY <1>3, <1>4, <3>1, Zenon
    <3> QED
      BY <1>4, <3>1, <3>2, Zenon
  <2>4. \A q \in live' : q \notin deleted' => owner'[q] # None
    BY <1>3, <1>4, Zenon DEF IInv, NoDangling
  <2>5. ASSUME NEW q \in live', owner'[q] # None PROVE conn'[owner'[q]].state # "free"
    <3>1. q \in live /\ q \in Requests /\ owner'[q] = owner[q] /\ owner[q] \in Conns
      BY <1>3, <1>4, <2>5, SMTT(30)
    <3>2. conn[owner[q]].state # "free"
      BY <2>5, <3>1, Zenon DEF IInv, NoDangling
    <3> QED
      BY <3>1, <3>2, Zenon DEF Answers
  <2> QED
    BY <2>1, <2>2, <2>3, <2>4, <2>5, Zenon DEF NoDangling, Open
<1>14. OneUnanswered'
  <2>1. \A p, q \in live' \ deleted' : owner'[p] = owner'[q] => p = q
    BY <1>3, <1>4, Zenon DEF IInv, OneUnanswered
  <2>2. ASSUME NEW q \in complete' \ (deleted' \cup bare') PROVE conn'[owner'[q]].timer = 0
    <3>1. q \in complete \ (deleted \cup bare) /\ q # r /\ q \in Requests /\ q \in live \ deleted
      BY <1>3, <1>4, Zenon
    <3> QED
      BY <1>4, <1>11, <3>1, SMTT(30) DEF IInv, OneUnanswered
  <2> QED
    BY <2>1, <2>2, Zenon DEF OneUnanswered
<1>15. Receives'
  <2>1. ASSUME NEW q \in live' \ deleted', conn'[owner'[q]].state = "open" PROVE conn'[owner'[q]].recv # "header"
    <3>1. q \in live \ deleted /\ q # r /\ q \in Requests
      BY <1>3, <1>4, Zenon
    <3> QED
      BY <1>4, <1>11, <2>1, <3>1, SMTT(30) DEF IInv, Receives, Open
  <2>2. ASSUME NEW d \in Conns, conn'[d].state = "open", conn'[d].recv = "body"
        PROVE  /\ conn'[d].extra \in live' \ deleted' /\ owner'[conn'[d].extra] = d
                     => conn'[d].extra \notin complete'
               /\ conn'[d].send # "close" => conn'[d].extra \notin deleted'
    <3>1. conn[d].extra \in live \ deleted /\ owner[conn[d].extra] = d => conn[d].extra \notin complete
      BY <1>12, <2>2, Zenon DEF IInv, Receives
    <3>2. /\ conn'[d].extra = conn[d].extra
          /\ conn'[d].send # "close" => conn[d].extra \in live \ deleted /\ conn[d].extra # r
      BY <1>12, <2>2, Zenon
    <3>3. conn'[d].send # "close" => conn'[d].extra \notin deleted'
      BY <1>4, <3>2, Zenon
    <3>4. ASSUME conn'[d].extra \in live' \ deleted', owner'[conn'[d].extra] = d
          PROVE  conn'[d].extra \notin complete'
      <4>1. conn[d].extra \in live \ deleted /\ conn[d].extra # r /\ conn[d].extra \in Requests
        BY <1>3, <1>4, <3>2, <3>4, SMTT(30)
      <4>2. owner[conn[d].extra] = d
        BY <1>4, <3>2, <3>4, <4>1, Zenon
      <4> QED
        BY <1>4, <3>1, <3>2, <4>1, <4>2, Zenon
    <3> QED
      BY <3>3, <3>4, Zenon
  <2> QED
    BY <2>1, <2>2, Zenon DEF Receives, Open
<1> QED
  BY <1>5, <1>6, <1>7, <1>9, <1>10, <1>13, <1>14, <1>15 DEF IInv

\* http_process frees the request, after its handler or because it is flagged.
LEMMA DoneStep ==
    ASSUME IInv, NEW r \in Requests, FreeDeleted(r) \/ HandlerDone(r)
    PROVE  IInv'
<1>0. conn \in [Conns -> Connection] /\ spent \in {0, 1}
  BY DEF IInv, TypeOK
<1>1. CASE FreeDeleted(r)
  <2>1. Visit(r) /\ Free(r) /\ r \in deleted /\ conn' = conn /\ spent' = spent
    BY <1>1 DEF FreeDeleted
  <2> QED
    BY <1>0, <2>1, FreeStep, Zenon DEF Answers
<1>2. CASE HandlerDone(r)
  <2> DEFINE c == owner[r]
  <2>1. Visit(r) /\ Free(r) /\ spent' = 1 /\ r \in complete \ deleted
    BY <1>2 DEF HandlerDone, Handler
  <2>2. c \in Conns /\ conn[c] \in Connection /\ conn[c].state # "free"
    BY <1>0, <2>1, SMTT(30) DEF IInv, TypeOK, Flags, NoDangling
  <2>3. PICK k \in (IF Open(c) THEN Responded(conn[c]) \cup {Gone} ELSE {conn[c]}) : Becomes(c, k)
    BY <1>2, Zenon DEF HandlerDone
  <2>4. Gone \in Connection /\ Gone.state = "disconnecting"
    BY Zenon DEF Gone, NotOpen, Connection
  <2>5. /\ k \in Connection /\ k.state # "free"
        /\ k.state = "open" /\ k.recv = "body" =>
              Open(c) /\ conn[c].recv = "body" /\ k.extra = conn[c].extra /\ k.send = "close"
    <3>1. CASE Open(c)
      <4>1. k \in Responded(conn[c]) \/ k = Gone
        BY <2>3, <3>1, Zenon
      <4>2. \/ k = Gone
            \/ /\ k \in Connection /\ k.state = "open" /\ k.extra = conn[c].extra
               /\ \/ k.recv = conn[c].recv /\ k.send = "close"
                  \/ k.recv = "header"
        BY <2>2, <3>1, <4>1, Sent, Zenon DEF Open
      <4> QED
        BY <2>4, <3>1, <4>2, Zenon
    <3>2. CASE ~ Open(c)
      BY <2>2, <2>3, <3>2, Zenon DEF Open
    <3> QED
      BY <3>1, <3>2, Zenon
  <2>6. conn' \in [Conns -> Connection] /\ conn'[c] = k /\ \A d \in Conns : d # c => conn'[d] = conn[d]
    BY <1>0, <2>2, <2>3, <2>5, Zenon DEF Becomes
  <2>7. Answers(r)
    BY <2>1, <2>5, <2>6, Zenon DEF Answers
  <2> QED
    BY <2>1, <2>7, FreeStep, Zenon
<1> QED
  BY <1>1, <1>2

\* kore_connection_check_timeout and kore_connection_prune.
LEMMA PruneStep ==
    ASSUME IInv, Prune
    PROVE  IInv'
<1> USE DEF lockVars
<1>1. PICK late \in SUBSET {c \in Conns : MayTimeout(c)} :
         LET gone == late \cup {c \in Conns : conn[c].state = "disconnecting"}
         IN  /\ conn' = [c \in Conns |-> IF c \in gone THEN NotOpen("free") ELSE conn[c]]
             /\ Orphan(UNION {OwnedBy(c) : c \in gone})
  BY Zenon DEF Prune
<1> DEFINE gone == late \cup {c \in Conns : conn[c].state = "disconnecting"}
           orphans == UNION {OwnedBy(c) : c \in gone}
<1>2. /\ conn' = [c \in Conns |-> IF c \in gone THEN NotOpen("free") ELSE conn[c]]
      /\ Orphan(orphans) /\ gone \subseteq Conns
  BY <1>1
<1>3. orphans = {r \in live : owner[r] \in gone}
  BY DEF OwnedBy
<1> HIDE DEF gone, orphans
<1>4. pc' = "events" /\ UNCHANGED <<cursor, spent, live, complete, bare, task, lock, waiters>>
  BY DEF Prune
<1>5. /\ owner' = [r \in Requests |-> IF r \in orphans THEN None ELSE owner[r]]
      /\ deleted' = deleted \cup orphans /\ sleeping' = sleeping \ orphans
      /\ \E woken \in Orders(sleeping \cap orphans) : run' = run \o woken
  BY <1>2, Zenon DEF Orphan
<1>6. /\ live \subseteq Requests /\ complete \subseteq live /\ deleted \subseteq live /\ bare \subseteq live
      /\ sleeping \subseteq complete /\ Range(waiters) \subseteq live /\ orphans \subseteq live
      /\ owner \in [Requests -> Conns \cup {None}] /\ conn \in [Conns -> Connection]
  BY <1>3, Zenon DEF IInv, TypeOK, Flags, NoDangling
<1>7. Lists(run', live \ sleeping')
  <2>1. PICK woken \in Orders(sleeping \cap orphans) : run' = run \o woken
    BY <1>5, Zenon
  <2>2. Lists(woken, sleeping \cap orphans)
    <3>1. sleeping \cap orphans \subseteq Requests
      BY <1>6
    <3> QED
      BY <3>1, Ordered
  <2>3. Lists(run, Range(run)) /\ Range(run) \cap sleeping = {} /\ Range(run) \cup sleeping = live
    BY DEF IInv, TypeOK, ListsSound, Lists
  <2>4. Range(run) \cap (sleeping \cap orphans) = {} /\ live \ sleeping' = Range(run) \cup (sleeping \cap orphans)
    BY <1>5, <1>6, <2>3, Zenon
  <2>5. Lists(run', Range(run) \cup (sleeping \cap orphans))
    BY <2>1, <2>2, <2>3, <2>4, Concatenated
  <2> QED
    BY <2>4, <2>5
<1>8. NotOpen("free") \in Connection /\ NotOpen("free").state = "free"
  BY DEF NotOpen, Connection
<1>9. /\ conn' \in [Conns -> Connection]
      /\ \A c \in Conns : c \in gone => conn'[c].state = "free"
      /\ \A c \in Conns : c \notin gone => conn'[c] = conn[c]
  BY <1>2, <1>6, <1>8
<1>10. /\ owner' \in [Requests -> Conns \cup {None}]
       /\ \A r \in Requests : r \in orphans => owner'[r] = None
       /\ \A r \in Requests : r \notin orphans => owner'[r] = owner[r]
  BY <1>5, <1>6
<1>11. \A r \in live : r \notin orphans /\ owner[r] # None =>
           owner[r] \in Conns /\ owner'[r] = owner[r] /\ conn'[owner[r]] = conn[owner[r]]
  BY <1>3, <1>6, <1>9, <1>10, SMTT(30)
<1>12. TypeOK'
  <2>1. run' \in Seq(Requests)
    BY <1>7 DEF Lists
  <2> QED
    BY <1>4, <1>5, <1>6, <1>9, <1>10, <2>1, Zenon DEF IInv, TypeOK
<1>13. ListsSound'
  <2>1. Range(run') = live \ sleeping' /\ IsInjective(run')
    BY <1>7 DEF Lists
  <2> QED
    BY <1>4, <1>5, <1>6, <2>1, Zenon DEF ListsSound
<1>14. Flags'
  BY <1>4, <1>5, <1>6, <1>10, Zenon DEF IInv, Flags
<1>15. Queue' /\ SleepersAwaited'
  BY <1>4, <1>5, <1>6, Zenon DEF IInv, Queue, SleepersAwaited, Pending
<1>16. NoDangling'
  <2>1. \A r \in live : r \notin deleted' => owner'[r] # None
    BY <1>5, <1>6, <1>10, Zenon DEF IInv, NoDangling
  <2>2. ASSUME NEW r \in live, owner'[r] # None PROVE conn'[owner'[r]].state # "free"
    <3>0. r \in Requests
      BY <1>6
    <3>1. r \notin orphans /\ owner[r] # None
      BY <1>10, <2>2, <3>0
    <3>2. conn[owner[r]].state # "free"
      BY <3>1, Zenon DEF IInv, NoDangling
    <3>3. owner'[r] = owner[r] /\ conn'[owner[r]] = conn[owner[r]]
      BY <1>11, <3>1, Zenon
    <3> QED
      BY <3>2, <3>3, Zenon
  <2>3. ASSUME NEW d \in Conns, conn'[d].state = "open", conn'[d].recv = "body", conn'[d].send # "close"
        PROVE  conn'[d].extra \in live /\ owner'[conn'[d].extra] = d
    <3>1. d \notin gone /\ conn'[d] = conn[d]
      BY <1>9, <2>3
    <3>2. conn[d].extra \in live /\ owner[conn[d].extra] = d
      BY <2>3, <3>1 DEF IInv, NoDangling, Open
    <3> QED
      BY <1>3, <1>6, <1>10, <3>1, <3>2
  <2>4. \A r \in Requests \ live : task[r] = "none" /\ lock # r /\ cursor # r
    BY Zenon DEF IInv, NoDangling
  <2> QED
    BY <1>4, <1>6, <2>1, <2>2, <2>3, <2>4, Zenon DEF NoDangling, Open
<1>17. \A r \in live \ deleted' : r \in live \ deleted /\ r \notin orphans /\ owner[r] # None
  BY <1>5, Zenon DEF IInv, NoDangling
<1>18. OneUnanswered'
  <2>1. \A p, q \in live \ deleted' : owner'[p] = owner'[q] => p = q
    BY <1>11, <1>17 DEF IInv, OneUnanswered
  <2>2. ASSUME NEW r \in complete \ (deleted' \cup bare) PROVE conn'[owner'[r]].timer = 0
    <3>1. r \in live \ deleted' /\ r \in complete \ (deleted \cup bare)
      BY <1>5, <1>6, <2>2, Zenon
    <3> QED
      BY <1>11, <1>17, <3>1 DEF IInv, OneUnanswered
  <2> QED
    BY <1>4, <2>1, <2>2, SMTT(30) DEF OneUnanswered
<1>19. Receives'
  <2>1. ASSUME NEW r \in live \ deleted', conn'[owner'[r]].state = "open" PROVE conn'[owner'[r]].recv # "header"
    BY <1>11, <1>17, <2>1, SMTT(30) DEF IInv, Receives, Open
  <2>2. ASSUME NEW d \in Conns, conn'[d].state = "open", conn'[d].recv = "body"
        PROVE  /\ conn'[d].extra \in live \ deleted' /\ owner'[conn'[d].extra] = d => conn'[d].extra \notin complete
               /\ conn'[d].send # "close" => conn'[d].extra \notin deleted'
    <3>1. d \notin gone /\ conn'[d] = conn[d] /\ Open(d) /\ conn[d].recv = "body"
      BY <1>9, <2>2, Zenon DEF Open
    <3>2. /\ conn[d].extra \in live \ deleted /\ owner[conn[d].extra] = d => conn[d].extra \notin complete
          /\ conn[d].send # "close" => conn[d].extra \notin deleted /\ owner[conn[d].extra] = d
      BY <3>1, Zenon DEF IInv, Receives, NoDangling
    <3> QED
      BY <1>3, <1>5, <1>6, <1>10, <3>1, <3>2, Zenon
  <2> QED
    BY <1>4, <2>1, <2>2, Zenon DEF Receives, Open
<1> QED
  BY <1>12, <1>13, <1>14, <1>15, <1>16, <1>18, <1>19 DEF IInv
-----------------------------------------------------------------------------
\* http_init leaves a state in which the invariant holds.
LEMMA Initially == Init => IInv
<1> SUFFICES ASSUME Init PROVE IInv
  OBVIOUS
<1>1. Range(<< >>) = {} /\ IsInjective(<< >>) /\ << >> \in Seq(Requests)
  BY DEF Range, IsInjective
<1>2. NotOpen("free") \in Connection /\ NotOpen("free").state = "free"
  BY DEF NotOpen, Connection
<1>3. conn \in [Conns -> Connection] /\ \A c \in Conns : conn[c].state = "free"
  BY <1>2 DEF Init
<1>4. TypeOK
  BY <1>1, <1>3 DEF Init, TypeOK
<1>5. ListsSound /\ Flags /\ Queue /\ SleepersAwaited
  BY <1>1 DEF Init, ListsSound, Flags, Queue, SleepersAwaited
<1>6. NoDangling
  BY <1>1, <1>3, HttpAssumption DEF Init, NoDangling, Open
<1>7. OneUnanswered /\ Receives
  BY <1>3 DEF Init, OneUnanswered, Receives, Open
<1> QED
  BY <1>4, <1>5, <1>6, <1>7 DEF IInv

\* Every step keeps it.
LEMMA Inductive == IInv /\ [Next]_vars => IInv'
<1> SUFFICES ASSUME IInv, [Next]_vars PROVE IInv'
  OBVIOUS
<1>1. ASSUME NEW c \in Conns, ConnEvent(c) PROVE IInv'
  BY <1>1, QuietStep, HeaderStep, BodyStep DEF ConnEvent, Header
<1>2. CASE TaskThread \/ TaskEvents
  BY <1>2, TaskStep DEF TaskThread, TaskEvents
<1>3. CASE Process
  BY <1>3, ProcessStep, DoneStep DEF Process
<1>4. CASE Prune
  BY <1>4, PruneStep
<1>5. CASE UNCHANGED vars
  <2>1. UNCHANGED <<conn, run, sleeping, live, complete, deleted, bare, owner, task, lock, waiters, pc, cursor, spent>>
    BY <1>5, SMTT(30) DEF vars, listVars, flagVars, lockVars, loopVars
  <2>2. TypeOK' /\ ListsSound' /\ Flags' /\ Queue' /\ SleepersAwaited'
    BY <2>1, Zenon DEF IInv, TypeOK, ListsSound, Flags, Queue, SleepersAwaited, Pending
  <2>3. NoDangling' /\ OneUnanswered' /\ Receives'
    BY <2>1, Zenon DEF IInv, NoDangling, OneUnanswered, Receives, Open
  <2> QED
    BY <2>2, <2>3 DEF IInv
<1> QED
  BY <1>1, <1>2, <1>3, <1>4, <1>5 DEF Next

\* The invariant holds in every behaviour.
LEMMA Invariant == Spec => []IInv
BY Initially, Inductive, PTL DEF Spec

\* Every variable keeps to its type (the pools, lists and flags of http.c and
\* connection.c).
THEOREM TypeCorrect == Spec => []TypeOK
<1>1. IInv => TypeOK
  BY DEF IInv
<1> QED
  BY <1>1, Invariant, PTL

\* Every request is on the run list once or asleep, never both, and a freed one
\* is on neither (http_request_sleep, http_request_wakeup, http_request_free).
THEOREM OneList == Spec => []ListsSound
<1>1. IInv => ListsSound
  BY DEF IInv
<1> QED
  BY <1>1, Invariant, PTL

\* No task, runlock, receive buffer or loop refers to a request that was
\* freed, and one that may still be run has a connection that was not given
\* back to its pool (http_request_free, kore_connection_remove).
THEOREM NothingFreedIsUsed == Spec => []NoDangling
<1>1. IInv => NoDangling
  BY DEF IInv
<1> QED
  BY <1>1, Invariant, PTL

\* A request sleeps only when its task or the runlock will wake it, and never
\* once it is flagged (http_runlock_acquire, kore_task_handle).
THEOREM SomebodyWakes == Spec => []SleepersAwaited
<1>1. IInv => SleepersAwaited
  BY DEF IInv
<1> QED
  BY <1>1, Invariant, PTL

\* A connection has at most one request that is not answered, and its receive
\* timeout does not run on once all of a request is there (http_header_recv,
\* http_response_normal).
THEOREM AnswersInOrder == Spec => []OneUnanswered
<1>1. IInv => OneUnanswered
  BY DEF IInv
<1> QED
  BY <1>1, Invariant, PTL
=============================================================================
