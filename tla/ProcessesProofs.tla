-------------------------- MODULE ProcessesProofs --------------------------
(***************************************************************************)
(* Proofs about the processes and what they ask of each other.             *)
(* Lifecycle, for any number of workers, deaths and signals: LifecycleInv  *)
(* has Tracked for NoneLeftBehind and SpawnAwaited for ReloadReaches.      *)
(* KeyExchange, for any number of workers, requests and timeouts: KeysInv  *)
(* follows the requests of a worker and their responses through the pipes, *)
(* in the order of their numbers, and counts those that nobody waits for.  *)
(***************************************************************************)
EXTENDS Lifecycle, KeyExchange, TLAPS

\* The rest of a pipe after its first entry has been taken.
LEMMA Headless ==
  ASSUME NEW S, NEW s \in Seq(S), s # << >>
  PROVE  /\ Tail(s) \in Seq(S) /\ Len(Tail(s)) = Len(s) - 1 /\ Head(s) = s[1] /\ s[1] \in S
         /\ \A i \in DOMAIN Tail(s) : i + 1 \in DOMAIN s /\ Tail(s)[i] = s[i + 1]
         /\ 1 \in DOMAIN s
  OBVIOUS

\* A pipe into which one more entry was written.
LEMMA Lengthened ==
  ASSUME NEW S, NEW s \in Seq(S), NEW x \in S
  PROVE  /\ Append(s, x) \in Seq(S) /\ Len(Append(s, x)) = Len(s) + 1
         /\ DOMAIN Append(s, x) = DOMAIN s \cup {Len(s) + 1}
         /\ \A i \in DOMAIN s : Append(s, x)[i] = s[i] /\ i < Len(s) + 1
         /\ Append(s, x)[Len(s) + 1] = x
  OBVIOUS

\* Appending nothing, or one copy, to a pipe.
LEMMA Once ==
  ASSUME NEW S, NEW s \in Seq(S), NEW x \in S, NEW n \in {0, 1}
  PROVE  s \o [i \in 1 .. n |-> x] = IF n = 0 THEN s ELSE Append(s, x)
  <1>1. CASE n = 0
    <2>1. [i \in 1 .. n |-> x] = << >>
      BY <1>1
    <2> QED BY <1>1, <2>1
  <1>2. CASE n = 1
    <2>1. [i \in 1 .. n |-> x] = <<x>>
      BY <1>2
    <2>2. s \o <<x>> = Append(s, x)
      OBVIOUS
    <2> QED BY <1>2, <2>1, <2>2
  <1> QED BY <1>1, <1>2, Zenon

\* The oldest number that may still be on its way to worker w.
Oldest(w) ==
    IF doing[w] = "idle" THEN asked[w] - overdue[w] + 1
    ELSE asked[w] - overdue[w]

\* A request or response n that is on its way for w.
Newer(w, n) == n \in Nat /\ Oldest(w) <= n /\ n <= asked[w] /\ last[w] < n

OnTheWay ==
    \A w \in Askers :
        /\ \A i \in DOMAIN reqs : reqs[i].from = w => Newer(w, reqs[i].num)
        /\ \A i \in DOMAIN wire[w] : Newer(w, wire[w][i].num)
        /\ \A i \in DOMAIN resps[w] : Newer(w, resps[w][i].num)

\* What is further on its way was asked for before.
AskedBefore ==
    \A w \in Askers :
        /\ \A i, j \in DOMAIN reqs :
              i < j /\ reqs[i].from = w /\ reqs[j].from = w => reqs[i].num < reqs[j].num
        /\ \A i, j \in DOMAIN wire[w] : i < j => wire[w][i].num < wire[w][j].num
        /\ \A i, j \in DOMAIN resps[w] : i < j => resps[w][i].num < resps[w][j].num
        /\ \A i \in DOMAIN wire[w], j \in DOMAIN reqs :
              reqs[j].from = w => wire[w][i].num < reqs[j].num
        /\ \A i \in DOMAIN resps[w], j \in DOMAIN reqs :
              reqs[j].from = w => resps[w][i].num < reqs[j].num
        /\ \A i \in DOMAIN resps[w], j \in DOMAIN wire[w] : resps[w][i].num < wire[w][j].num

GivenUp ==
    \A w \in Askers :
        /\ last[w] <= asked[w]
        /\ doing[w] = "await" => asked[w] # 0 /\ answer[w].num = 0

KeysInv == KeysTypeOK /\ GivenUp /\ AskedBefore /\ OnTheWay /\ LagBounded
-----------------------------------------------------------------------------
\* Nothing is on its way at the start.
LEMMA KeysInitial == KeysInit => KeysInv
  <1> SUFFICES ASSUME KeysInit PROVE KeysInv
    OBVIOUS
  <1> USE KeyBounds DEF KeysInit
  <1>1. KeysTypeOK
    BY DEF KeysTypeOK
  <1>2. GivenUp /\ AskedBefore /\ OnTheWay /\ LagBounded
    BY DEF GivenUp, AskedBefore, OnTheWay, LagBounded
  <1> QED BY <1>1, <1>2 DEF KeysInv

\* What the types say of the pipes and numbers of one worker.
LEMMA OneAsker ==
  ASSUME KeysTypeOK, NEW v \in Askers
  PROVE  /\ wire[v] \in Seq(Request) /\ resps[v] \in Seq(Request)
         /\ asked[v] \in 0 .. MaxRequests /\ last[v] \in 0 .. MaxRequests
         /\ asked[v] \in Nat /\ overdue[v] \in Nat /\ last[v] \in Nat
  BY KeyBounds DEF KeysTypeOK

\* The places of a sequence.
LEMMA Places ==
  ASSUME NEW S, NEW s \in Seq(S)
  PROVE  DOMAIN s \subseteq Nat /\ Len(s) \in Nat /\ Len(s) + 1 \notin DOMAIN s
  OBVIOUS

\* A worker sends a request.
LEMMA AskKeeps ==
  ASSUME KeysInv, NEW w \in Askers, NEW s \in Sizes, Ask(w, s)
  PROVE  KeysInv'
  <1> USE KeyBounds DEF KeysInv
  <1> DEFINE r == [from |-> w, num |-> asked[w] + 1, size |-> s]
  <1>1. /\ asked' = [asked EXCEPT ![w] = @ + 1] /\ asked'[w] = asked[w] + 1 /\ asked[w] + 1 \in Numbers
        /\ r \in Request /\ reqs' = Append(reqs, r)
    BY DEF Ask, KeysTypeOK, Numbers, Request
  <1>2. KeysTypeOK'
    BY <1>1, Lengthened, SMTT(30) DEF Ask, KeysTypeOK, Numbers
  <1>3. /\ DOMAIN reqs' = DOMAIN reqs \cup {Len(reqs) + 1}
        /\ \A i \in DOMAIN reqs : reqs'[i] = reqs[i] /\ i < Len(reqs) + 1
        /\ reqs'[Len(reqs) + 1] = r
    BY <1>1, Lengthened, SMTT(30) DEF KeysTypeOK
  <1>4. GivenUp'
    BY <1>1, SMTT(30) DEF Ask, GivenUp, KeysTypeOK
  <1>5. \A v \in Askers : overdue[v] \in Nat /\ asked[v] \in Nat /\ last[v] \in Nat
    BY SMTT(30) DEF KeysTypeOK
  <1>6. \A v \in Askers : Oldest(v)' = Oldest(v)
    <2> TAKE v \in Askers
    <2>1. overdue' = overdue /\ doing[w] = "idle" /\ doing'[w] = "await"
      BY Zenon DEF Ask, KeysTypeOK
    <2>2. v # w => doing'[v] = doing[v] /\ asked'[v] = asked[v]
      BY <1>1, Zenon DEF Ask, KeysTypeOK
    <2> QED BY <1>1, <1>5, <2>1, <2>2 DEF Oldest
  <1>7. ASSUME NEW v \in Askers, NEW n, Newer(v, n)
        PROVE  Newer(v, n)' /\ (v = w => n < asked[w] + 1)
    <2>1. asked'[v] >= asked[v] /\ last' = last /\ asked'[v] \in Nat
      <3>1. v # w => asked'[v] = asked[v]
        BY <1>1 DEF KeysTypeOK
      <3>2. last' = last
        BY DEF Ask
      <3> QED BY <1>1, <1>5, <3>1, <3>2
    <2> QED BY <1>5, <1>6, <1>7, <2>1 DEF Newer
  <1>8. Newer(w, asked[w])'
    <2>1. Oldest(w) <= asked[w] + 1
      BY <1>5 DEF Ask, Oldest
    <2>2. last' = last /\ last[w] <= asked[w]
      BY DEF Ask, GivenUp
    <2> QED BY <1>1, <1>5, <1>6, <2>1, <2>2 DEF Newer
  <1>9. OnTheWay'
    <2>1. ASSUME NEW v \in Askers, NEW i \in DOMAIN reqs', reqs'[i].from = v
          PROVE  (Newer(v, reqs[i].num))'
      <3>1. CASE i \in DOMAIN reqs
        <4>1. Newer(v, reqs[i].num) /\ reqs'[i] = reqs[i]
          BY <1>3, <2>1, <3>1, Zenon DEF OnTheWay
        <4> QED BY <1>7, <4>1, Zenon DEF Newer
      <3>2. CASE i = Len(reqs) + 1
        <4>1. v = w /\ reqs'[i].num = asked'[w]
          BY <1>1, <1>3, <2>1, <3>2
        <4> QED BY <1>8, <4>1 DEF Newer
      <3> QED BY <1>3, <3>1, <3>2, Zenon
    <2>2. wire' = wire /\ resps' = resps
      BY DEF Ask
    <2>3. ASSUME NEW v \in Askers, NEW i \in DOMAIN wire[v]
          PROVE  (Newer(v, wire[v][i].num))'
      BY <1>7, <2>2, Zenon DEF OnTheWay, Newer
    <2>4. ASSUME NEW v \in Askers, NEW i \in DOMAIN resps[v]
          PROVE  (Newer(v, resps[v][i].num))'
      BY <1>7, <2>2, Zenon DEF OnTheWay, Newer
    <2> QED BY <2>1, <2>2, <2>3, <2>4, Zenon DEF OnTheWay
  <1>10. AskedBefore'
    <2>1. ASSUME NEW v \in Askers, NEW i \in DOMAIN reqs, reqs[i].from = w
          PROVE  reqs[i].num < r.num
      BY <1>7, <2>1, Zenon DEF OnTheWay
    <2>2. \A i \in DOMAIN wire[w] : wire[w][i].num < r.num
      BY <1>7, Zenon DEF OnTheWay
    <2>3. \A i \in DOMAIN resps[w] : resps[w][i].num < r.num
      BY <1>7, Zenon DEF OnTheWay
    <2>4. DOMAIN reqs \subseteq Nat /\ Len(reqs) \in Nat
      BY DEF KeysTypeOK
    <2>5. ASSUME NEW v \in Askers, NEW i \in DOMAIN reqs', NEW j \in DOMAIN reqs',
                 i < j, reqs'[i].from = v, reqs'[j].from = v
          PROVE  reqs'[i].num < reqs'[j].num
      <3>1. i \in DOMAIN reqs
        BY <1>3, <2>4, <2>5
      <3> QED BY <1>3, <2>1, <2>5, <3>1 DEF AskedBefore
    <2> QED BY <1>3, <2>2, <2>3, <2>5 DEF Ask, AskedBefore
  <1>11. LagBounded'
    BY <1>1, Zenon DEF Ask, LagBounded, KeysTypeOK
  <1> QED BY <1>2, <1>4, <1>9, <1>10, <1>11

\* The key manager answers the oldest request.
LEMMA ServeKeeps ==
  ASSUME KeysInv, Repeats = 1, Serve
  PROVE  KeysInv'
  <1> USE KeyBounds DEF KeysInv
  <1> DEFINE r == Head(reqs)
             w == r.from
  <1>1. PICK n \in {0, 1} : wire' = [wire EXCEPT ![w] = @ \o [i \in 1 .. n |-> r]]
    BY Zenon DEF Serve
  <1>2. /\ reqs' \in Seq(Request) /\ r = reqs[1] /\ r.from = w /\ r \in Request /\ 1 \in DOMAIN reqs
        /\ \A i \in DOMAIN reqs' : i + 1 \in DOMAIN reqs /\ reqs'[i] = reqs[i + 1] /\ 1 < i + 1
    BY Headless DEF Serve, KeysTypeOK
  <1>3. w \in Askers
    BY <1>2 DEF Request
  <1>4. wire' = [wire EXCEPT ![w] = IF n = 0 THEN @ ELSE Append(@, r)]
    <2>1. wire[w] \o [i \in 1 .. n |-> r] = IF n = 0 THEN wire[w] ELSE Append(wire[w], r)
      <3>1. wire[w] \in Seq(Request)
        BY <1>3, OneAsker, Zenon
      <3> HIDE DEF r, w
      <3>2. r \in Request
        BY <1>2, Zenon
      <3> QED BY <3>1, <3>2, Once, SMTT(30)
    <2> QED BY <1>1, <2>1, Zenon
  <1>5. KeysTypeOK'
    BY <1>2, <1>3, <1>4, Lengthened, Zenon DEF Serve, KeysTypeOK
  <1> HIDE DEF r, w
  <1>6. GivenUp' /\ LagBounded'
    BY Zenon DEF Serve, GivenUp, LagBounded
  <1>7. \A v \in Askers : \A m : Newer(v, m) <=> Newer(v, m)'
    BY Zenon DEF Serve, Newer, Oldest
  <1>8. Newer(w, r.num)
    BY <1>2, <1>3 DEF OnTheWay
  <1>9. /\ DOMAIN wire'[w] \subseteq DOMAIN wire[w] \cup {Len(wire[w]) + 1}
        /\ \A i \in DOMAIN wire[w] : wire'[w][i] = wire[w][i] /\ i < Len(wire[w]) + 1
        /\ Len(wire[w]) + 1 \in DOMAIN wire'[w] => wire'[w][Len(wire[w]) + 1] = r
        /\ \A v \in Askers \ {w} : wire'[v] = wire[v]
    <2>1. wire[w] \in Seq(Request)
      BY <1>3, OneAsker, Zenon
    <2>2. Len(wire[w]) + 1 \notin DOMAIN wire[w]
      BY <2>1, Places, Zenon
    <2>3. /\ wire'[w] = IF n = 0 THEN wire[w] ELSE Append(wire[w], r)
          /\ \A v \in Askers \ {w} : wire'[v] = wire[v]
      <3>1. DOMAIN wire = Askers
        BY DEF KeysTypeOK
      <3> QED BY <1>3, <1>4, <3>1
    <2>4. r \in Request
      BY <1>2, Zenon
    <2>5. CASE n = 0
      <3>1. \A i \in DOMAIN wire[w] : i < Len(wire[w]) + 1
        BY <2>1
      <3> QED BY <2>2, <2>3, <2>5, <3>1, Zenon
    <2>6. CASE n # 0
      BY <2>1, <2>3, <2>4, <2>6, Lengthened, SMTT(30)
    <2> QED BY <2>5, <2>6, Zenon
  <1>10. OnTheWay'
    <2> SUFFICES ASSUME NEW v \in Askers
                 PROVE  /\ \A i \in DOMAIN reqs' : reqs'[i].from = v => Newer(v, reqs'[i].num)
                        /\ \A i \in DOMAIN wire'[v] : Newer(v, wire'[v][i].num)
                        /\ \A i \in DOMAIN resps[v] : Newer(v, resps[v][i].num)
      BY <1>7, Zenon DEF Serve, OnTheWay
    <2>1. \A i \in DOMAIN reqs' : reqs'[i].from = v => Newer(v, reqs'[i].num)
      BY <1>2 DEF OnTheWay
    <2>2. \A i \in DOMAIN wire'[v] : Newer(v, wire'[v][i].num)
      BY <1>3, <1>8, <1>9 DEF OnTheWay
    <2> QED BY <2>1, <2>2, Zenon DEF OnTheWay
  <1>11. AskedBefore'
    <2> SUFFICES ASSUME NEW v \in Askers
                 PROVE  /\ \A i, j \in DOMAIN reqs' :
                             i < j /\ reqs'[i].from = v /\ reqs'[j].from = v =>
                                 reqs'[i].num < reqs'[j].num
                        /\ \A i, j \in DOMAIN wire'[v] : i < j => wire'[v][i].num < wire'[v][j].num
                        /\ \A i \in DOMAIN wire'[v], j \in DOMAIN reqs' :
                             reqs'[j].from = v => wire'[v][i].num < reqs'[j].num
                        /\ \A i \in DOMAIN resps[v], j \in DOMAIN reqs' :
                             reqs'[j].from = v => resps[v][i].num < reqs'[j].num
                        /\ \A i \in DOMAIN resps[v], j \in DOMAIN wire'[v] :
                             resps[v][i].num < wire'[v][j].num
      BY Zenon DEF Serve, AskedBefore
    <2>1. \A i, j \in DOMAIN reqs' :
             i < j /\ reqs'[i].from = v /\ reqs'[j].from = v => reqs'[i].num < reqs'[j].num
      <3>1. \A i, j \in DOMAIN reqs' : i < j => i + 1 < j + 1
        BY <1>2
      <3> QED BY <1>2, <3>1 DEF AskedBefore
    <2>2. \A j \in DOMAIN reqs' : reqs'[j].from = w => r.num < reqs'[j].num
      BY <1>2, <1>3 DEF AskedBefore
    <2>3. \A i \in DOMAIN wire[w] : wire[w][i].num < r.num
      BY <1>2, <1>3 DEF AskedBefore
    <2>4. \A i \in DOMAIN resps[w] : resps[w][i].num < r.num
      BY <1>2, <1>3 DEF AskedBefore
    <2>5. \A i, j \in DOMAIN wire'[v] : i < j => wire'[v][i].num < wire'[v][j].num
      <3>1. DOMAIN wire[w] \subseteq Nat /\ Len(wire[w]) \in Nat
        BY <1>3, OneAsker, Places, Zenon
      <3>2. \A u \in Askers : \A i, j \in DOMAIN wire[u] : i < j => wire[u][i].num < wire[u][j].num
        BY Zenon DEF AskedBefore
      <3> QED BY <1>3, <1>9, <2>3, <3>1, <3>2
    <2>6. \A i \in DOMAIN wire'[v], j \in DOMAIN reqs' :
             reqs'[j].from = v => wire'[v][i].num < reqs'[j].num
      <3>1. CASE v = w
        <4>1. \A i \in DOMAIN wire[w], j \in DOMAIN reqs' :
                 reqs'[j].from = w => wire[w][i].num < reqs'[j].num
          BY <1>2, <1>3 DEF AskedBefore
        <4> QED BY <1>9, <2>2, <3>1, <4>1
      <3>2. CASE v # w
        BY <1>2, <1>9, <3>2 DEF AskedBefore
      <3> QED BY <3>1, <3>2, Zenon
    <2>7. \A i \in DOMAIN resps[v], j \in DOMAIN reqs' :
             reqs'[j].from = v => resps[v][i].num < reqs'[j].num
      BY <1>2 DEF AskedBefore
    <2>8. \A i \in DOMAIN resps[v], j \in DOMAIN wire'[v] : resps[v][i].num < wire'[v][j].num
      BY <1>3, <1>9, <2>4 DEF AskedBefore
    <2> QED BY <2>1, <2>5, <2>6, <2>7, <2>8, Zenon
  <1> QED BY <1>5, <1>6, <1>10, <1>11

\* The parent relays a response.
LEMMA RelayKeeps ==
  ASSUME KeysInv, NEW w \in Askers, RelayResponse(w)
  PROVE  KeysInv'
  <1> USE KeyBounds DEF KeysInv
  <1> DEFINE r == Head(wire[w])
  <1>1. /\ wire[w] \in Seq(Request) /\ resps[w] \in Seq(Request) /\ wire[w] # << >>
        /\ wire'[w] = Tail(wire[w]) /\ resps'[w] = Append(resps[w], r)
        /\ \A v \in Askers \ {w} : wire'[v] = wire[v] /\ resps'[v] = resps[v]
    BY Zenon DEF RelayResponse, KeysTypeOK
  <1>2. /\ wire'[w] \in Seq(Request) /\ r = wire[w][1] /\ r \in Request /\ 1 \in DOMAIN wire[w]
        /\ \A i \in DOMAIN wire'[w] :
              i + 1 \in DOMAIN wire[w] /\ wire'[w][i] = wire[w][i + 1] /\ 1 < i + 1
    BY <1>1, Headless
  <1>3. /\ resps'[w] \in Seq(Request) /\ DOMAIN resps'[w] = DOMAIN resps[w] \cup {Len(resps[w]) + 1}
        /\ \A i \in DOMAIN resps[w] : resps'[w][i] = resps[w][i] /\ i < Len(resps[w]) + 1
        /\ resps'[w][Len(resps[w]) + 1] = r
    BY <1>1, <1>2, Lengthened
  <1>4. KeysTypeOK'
    BY <1>2, <1>3, Zenon DEF RelayResponse, KeysTypeOK
  <1>5. GivenUp' /\ LagBounded'
    BY Zenon DEF RelayResponse, GivenUp, LagBounded
  <1>6. \A v \in Askers : \A m : Newer(v, m) <=> Newer(v, m)'
    BY DEF RelayResponse, Newer, Oldest
  <1>7. OnTheWay'
    <2>1. ASSUME NEW v \in Askers, NEW i \in DOMAIN wire'[v]
          PROVE  Newer(v, wire'[v][i].num)
      <3>1. CASE v = w
        BY <1>2, <2>1, <3>1, Zenon DEF OnTheWay
      <3>2. CASE v # w
        BY <1>1, <2>1, <3>2, Zenon DEF OnTheWay
      <3> QED BY <3>1, <3>2
    <2>2. ASSUME NEW v \in Askers, NEW i \in DOMAIN resps'[v]
          PROVE  Newer(v, resps'[v][i].num)
      <3>1. CASE v = w
        BY <1>2, <1>3, <2>2, <3>1 DEF OnTheWay
      <3>2. CASE v # w
        BY <1>1, <2>2, <3>2, Zenon DEF OnTheWay
      <3> QED BY <3>1, <3>2
    <2>3. reqs' = reqs
      BY DEF RelayResponse
    <2> QED BY <1>6, <2>1, <2>2, <2>3, Zenon DEF OnTheWay
  <1>8. AskedBefore'
    <2>1. ASSUME NEW v \in Askers, NEW i \in DOMAIN wire'[v], NEW j \in DOMAIN wire'[v], i < j
          PROVE  wire'[v][i].num < wire'[v][j].num
      <3>1. CASE v = w
        <4>1. i + 1 < j + 1
          BY <1>2, <2>1, <3>1
        <4> QED BY <1>2, <2>1, <3>1, <4>1, Zenon DEF AskedBefore
      <3>2. CASE v # w
        BY <1>1, <2>1, <3>2, Zenon DEF AskedBefore
      <3> QED BY <3>1, <3>2, Zenon
    <2>2. ASSUME NEW v \in Askers, NEW i \in DOMAIN resps'[v], NEW j \in DOMAIN resps'[v], i < j
          PROVE  resps'[v][i].num < resps'[v][j].num
      <3>1. CASE v # w
        BY <1>1, <2>2, <3>1 DEF AskedBefore
      <3>2. CASE v = w
        <4>1. i \in DOMAIN resps[w]
          BY <1>1, <1>3, <2>2, <3>2
        <4>2. CASE j \in DOMAIN resps[w]
          BY <1>3, <2>2, <3>2, <4>1, <4>2, Zenon DEF AskedBefore
        <4>3. CASE j = Len(resps[w]) + 1
          BY <1>2, <1>3, <3>2, <4>1, <4>3 DEF AskedBefore
        <4> QED BY <1>3, <3>2, <4>2, <4>3, Zenon
      <3> QED BY <3>1, <3>2, Zenon
    <2>3. ASSUME NEW v \in Askers, NEW i \in DOMAIN wire'[v], NEW j \in DOMAIN reqs,
                 reqs[j].from = v
          PROVE  wire'[v][i].num < reqs[j].num
      <3>1. CASE v = w
        BY <1>2, <2>3, <3>1 DEF AskedBefore
      <3>2. CASE v # w
        BY <1>1, <2>3, <3>2 DEF AskedBefore
      <3> QED BY <3>1, <3>2
    <2>4. ASSUME NEW v \in Askers, NEW i \in DOMAIN resps'[v], NEW j \in DOMAIN reqs,
                 reqs[j].from = v
          PROVE  resps'[v][i].num < reqs[j].num
      <3>1. CASE v = w
        BY <1>2, <1>3, <2>4, <3>1 DEF AskedBefore
      <3>2. CASE v # w
        BY <1>1, <2>4, <3>2 DEF AskedBefore
      <3> QED BY <3>1, <3>2
    <2>5. ASSUME NEW v \in Askers, NEW i \in DOMAIN resps'[v], NEW j \in DOMAIN wire'[v]
          PROVE  resps'[v][i].num < wire'[v][j].num
      <3>1. CASE v = w
        BY <1>2, <1>3, <2>5, <3>1, SMTT(30) DEF AskedBefore
      <3>2. CASE v # w
        BY <1>1, <2>5, <3>2, Zenon DEF AskedBefore
      <3> QED BY <3>1, <3>2, Zenon
    <2>6. reqs' = reqs
      BY DEF RelayResponse
    <2> QED BY <2>1, <2>2, <2>3, <2>4, <2>5, <2>6 DEF AskedBefore
  <1> QED BY <1>4, <1>5, <1>7, <1>8

\* Obtain and Drain empty the pipe, so that nothing is left of it to be in order.
LEMMA Emptied ==
  ASSUME KeysTypeOK, AskedBefore, NEW w \in Askers, UNCHANGED <<reqs, wire>>,
         resps' = [resps EXCEPT ![w] = << >>]
  PROVE  AskedBefore'
  <1>1. \A v \in Askers : resps'[v] = IF v = w THEN << >> ELSE resps[v]
    BY DEF KeysTypeOK
  <1> QED BY <1>1 DEF AskedBefore

\* The waiting worker reads its pipe: the last response stays.
LEMMA ObtainKeeps ==
  ASSUME KeysInv, NEW w \in Askers, Obtain(w)
  PROVE  KeysInv'
  <1> USE KeyBounds DEF KeysInv
  <1> DEFINE r == resps[w][Len(resps[w])]
  <1>1. /\ resps[w] \in Seq(Request) /\ Len(resps[w]) \in DOMAIN resps[w] /\ r \in Request
        /\ Newer(w, r.num) /\ r.num # 0
    <2>1. resps[w] \in Seq(Request) /\ resps[w] # << >>
      BY Zenon DEF Obtain, KeysTypeOK
    <2>2. Len(resps[w]) \in DOMAIN resps[w] /\ r \in Request
      BY <2>1
    <2> QED BY <2>1, <2>2 DEF OnTheWay, Request, Numbers
  <1>2. /\ doing[w] = "await" /\ doing'[w] = "idle" /\ UNCHANGED <<size, asked, reqs, wire, overdue>>
        /\ answer'[w].num \in {0, r.num} /\ answer'[w] \in [num : 0 .. MaxRequests, size : Sizes]
        /\ last'[w] = Higher(last[w], answer'[w].num)
        /\ \A v \in Askers \ {w} : /\ doing'[v] = doing[v] /\ answer'[v] = answer[v] /\ last'[v] = last[v]
                                   /\ resps'[v] = resps[v]
        /\ resps'[w] = << >>
    BY <1>1 DEF Obtain, Answer, KeysTypeOK, Request, Numbers
  <1>3. \A v \in Askers : /\ overdue[v] \in Nat /\ asked[v] \in 0 .. MaxRequests
                          /\ last[v] \in 0 .. MaxRequests
    BY SMTT(30) DEF KeysTypeOK
  <1>4. last'[w] \in 0 .. MaxRequests /\ last'[w] <= r.num /\ last[w] < r.num /\ r.num <= asked[w]
    <2> HIDE DEF KeysInv, r
    <2>1. last[w] < r.num /\ r.num <= asked[w] /\ r.num \in Nat
      BY <1>1, SMTT(30) DEF Newer
    <2>2. /\ answer'[w].num \in {0, r.num} /\ last'[w] = Higher(last[w], answer'[w].num)
          /\ last[w] \in 0 .. MaxRequests /\ asked[w] \in 0 .. MaxRequests
      BY <1>2, <1>3, Zenon
    <2> QED BY <2>1, <2>2, SMTT(30) DEF Higher
  <1>5. KeysTypeOK'
    <2>1. KeysTypeOK
      OBVIOUS
    <2> HIDE DEF KeysInv, r
    <2>2. /\ doing' \in [Askers -> {"idle", "await"}] /\ resps' \in [Askers -> Seq(Request)]
          /\ answer' \in [Askers -> [num : 0 .. MaxRequests, size : Sizes]]
          /\ last' \in [Askers -> 0 .. MaxRequests]
      BY <1>2, <1>4, <2>1 DEF Obtain, KeysTypeOK
    <2> QED BY <1>2, <2>1, <2>2, Zenon DEF KeysTypeOK
  <1>6. GivenUp'
    <2>1. last'[w] <= asked[w]
      BY <1>1, <1>3, <1>4 DEF Newer
    <2> QED BY <1>2, <2>1 DEF GivenUp
  <1>7. \A v \in Askers \ {w} : \A m : Newer(v, m) => Newer(v, m)'
    <2> SUFFICES ASSUME NEW v \in Askers \ {w} PROVE \A m : Newer(v, m) => Newer(v, m)'
      OBVIOUS
    <2>1. doing'[v] = doing[v] /\ asked'[v] = asked[v] /\ overdue'[v] = overdue[v] /\ last'[v] = last[v]
      BY <1>2, Zenon
    <2> QED BY <2>1 DEF Newer, Oldest
  <1>8. \A m : Newer(w, m) /\ r.num < m => Newer(w, m)'
    <2>1. asked[w] - overdue[w] <= r.num /\ r.num \in Nat
      BY <1>1, <1>2, Zenon DEF Newer, Oldest
    <2>2. /\ doing'[w] = "idle" /\ asked'[w] = asked[w] /\ overdue'[w] = overdue[w] /\ last'[w] <= r.num
          /\ last'[w] \in Nat /\ asked[w] \in Nat /\ overdue[w] \in Nat
      BY <1>2, <1>3, <1>4
    <2> HIDE DEF r
    <2> QED BY <2>1, <2>2, SMTT(30) DEF Newer, Oldest
  <1>9. OnTheWay'
    <2>1. ASSUME NEW v \in Askers, NEW i \in DOMAIN reqs, reqs[i].from = v
          PROVE  Newer(v, reqs[i].num)'
      <3>1. Newer(v, reqs[i].num)
        BY <2>1, Zenon DEF OnTheWay
      <3>2. v = w => r.num < reqs[i].num
        BY <1>1, <2>1, Zenon DEF AskedBefore
      <3>3. reqs' = reqs
        BY <1>2, Zenon
      <3> QED BY <1>7, <1>8, <3>1, <3>2, <3>3, Zenon
    <2>2. ASSUME NEW v \in Askers, NEW i \in DOMAIN wire[v]
          PROVE  Newer(v, wire[v][i].num)'
      <3>1. Newer(v, wire[v][i].num)
        BY <2>2, Zenon DEF OnTheWay
      <3>2. v = w => r.num < wire[v][i].num
        BY <1>1, <2>2, Zenon DEF AskedBefore
      <3>3. wire' = wire
        BY <1>2, Zenon
      <3> QED BY <1>7, <1>8, <3>1, <3>2, <3>3, Zenon
    <2>3. ASSUME NEW v \in Askers, NEW i \in DOMAIN resps'[v]
          PROVE  (Newer(v, resps[v][i].num))'
      <3>1. v # w /\ resps'[v] = resps[v]
        BY <1>2
      <3>2. Newer(v, resps[v][i].num)
        BY <3>1, Zenon DEF OnTheWay
      <3> QED BY <1>7, <3>1, <3>2, Zenon
    <2> QED BY <1>2, <2>1, <2>2, <2>3, Zenon DEF OnTheWay
  <1>10. AskedBefore'
    BY Emptied, Zenon DEF Obtain
  <1>11. LagBounded'
    <2>1. answer'[w].num # 0 => /\ asked[w] - answer'[w].num \in 0 .. overdue[w]
                                /\ answer'[w].num = last'[w]
      <3>1. asked[w] - overdue[w] <= r.num /\ r.num \in Nat /\ r.num # 0
        BY <1>1, <1>2, Zenon DEF Newer, Oldest
      <3>2. overdue[w] \in Nat /\ asked[w] \in Nat /\ last[w] \in Nat
        BY <1>3, SMTT(30)
      <3>3. answer'[w].num \in {0, r.num} /\ last'[w] = Higher(last[w], answer'[w].num)
        BY <1>2, Zenon
      <3> HIDE DEF r
      <3> QED BY <1>4, <3>1, <3>2, <3>3, SMTT(30) DEF Higher
    <2> QED BY <1>2, <2>1, Zenon DEF LagBounded
  <1> QED BY <1>5, <1>6, <1>9, <1>10, <1>11

\* The worker gives a request up after a second.
LEMMA TimeoutKeeps ==
  ASSUME KeysInv, NEW w \in Askers, Timeout(w)
  PROVE  KeysInv'
  <1> USE KeyBounds DEF KeysInv
  <1>1. /\ doing[w] = "await" /\ doing'[w] = "idle" /\ UNCHANGED <<size, asked, reqs, wire, resps, answer, last>>
        /\ overdue'[w] = overdue[w] + 1 /\ answer[w].num = 0
        /\ \A v \in Askers \ {w} : doing'[v] = doing[v] /\ overdue'[v] = overdue[v]
    BY DEF Timeout, KeysTypeOK, GivenUp
  <1>2. \A v \in Askers : overdue[v] \in Nat /\ asked[v] \in Nat
    BY SMTT(30) DEF KeysTypeOK
  <1>3. CASE asked[w] \in Numbers
    <2>1. KeysTypeOK'
      <3>1. KeysTypeOK
        OBVIOUS
      <3> HIDE DEF KeysInv
      <3>2. doing' \in [Askers -> {"idle", "await"}] /\ overdue' \in [Askers -> 0 .. MaxTimeouts]
        BY <3>1 DEF Timeout, KeysTypeOK
      <3> QED BY <1>1, <3>1, <3>2, Zenon DEF KeysTypeOK
    <2>2. GivenUp'
      BY <1>1, <1>3 DEF GivenUp, Numbers
    <2>3. \A v \in Askers : Oldest(v)' = Oldest(v)
      <3> TAKE v \in Askers
      <3>1. CASE v = w
        <4>1. /\ doing[v] = "await" /\ doing'[v] = "idle" /\ asked'[v] = asked[v] /\ asked[v] \in Nat
              /\ overdue[v] \in Nat
              /\ overdue'[v] = overdue[v] + 1
          BY <1>1, <1>2, <3>1, Zenon
        <4> QED BY <4>1 DEF Oldest
      <3>2. CASE v # w
        <4>1. doing'[v] = doing[v] /\ overdue'[v] = overdue[v] /\ asked'[v] = asked[v]
          BY <1>1, <3>2
        <4> QED BY <4>1 DEF Oldest
      <3> QED BY <3>1, <3>2
    <2>4. \A v \in Askers : \A m : Newer(v, m) <=> Newer(v, m)'
      BY <1>1, <2>3, Zenon DEF Newer
    <2>5. OnTheWay' /\ AskedBefore'
      <3>1. UNCHANGED <<reqs, wire, resps>>
        BY <1>1
      <3>2. AskedBefore'
        BY <3>1 DEF AskedBefore
      <3> QED BY <2>4, <3>1, <3>2 DEF OnTheWay
    <2>6. LagBounded'
      <3>1. LagBounded
        OBVIOUS
      <3> HIDE DEF KeysInv
      <3> SUFFICES ASSUME NEW v \in Askers, answer'[v].num # 0
                   PROVE  (asked[v] - answer[v].num \in 0 .. overdue[v] /\ answer[v].num = last[v])'
        BY Zenon DEF LagBounded
      <3>2. /\ v # w /\ asked'[v] = asked[v] /\ answer'[v] = answer[v] /\ overdue'[v] = overdue[v]
            /\ last'[v] = last[v]
        BY <1>1, Zenon
      <3> QED BY <3>1, <3>2, Zenon DEF LagBounded
    <2> QED BY <2>1, <2>2, <2>5, <2>6
  <1>4. asked[w] \in Numbers
    BY <1>1 DEF GivenUp, KeysTypeOK, Numbers
  <1> QED BY <1>3, <1>4

\* The event loop reads what is late, while no request waits.
LEMMA DrainKeeps ==
  ASSUME KeysInv, NEW w \in Askers, Drain(w)
  PROVE  KeysInv'
  <1> USE KeyBounds DEF KeysInv
  <1>1. \A v \in Askers : resps'[v] = IF v = w THEN << >> ELSE resps[v]
    BY DEF Drain, KeysTypeOK
  <1>2. KeysTypeOK'
    BY SMTT(30) DEF Drain, KeysTypeOK
  <1>3. GivenUp' /\ LagBounded'
    BY Zenon DEF Drain, GivenUp, LagBounded
  <1>4. \A v \in Askers : \A m : Newer(v, m) <=> Newer(v, m)'
    BY DEF Drain, Newer, Oldest
  <1>5. OnTheWay'
    <2>1. UNCHANGED <<reqs, wire>>
      BY DEF Drain
    <2>2. ASSUME NEW v \in Askers, NEW i \in DOMAIN resps'[v]
          PROVE  Newer(v, resps'[v][i].num)
      BY <1>1 DEF OnTheWay
    <2> QED BY <1>4, <2>1, <2>2, Zenon DEF OnTheWay
  <1>6. AskedBefore'
    BY Emptied, Zenon DEF Drain
  <1> QED BY <1>2, <1>3, <1>5, <1>6

\* The key exchange keeps KeysInv as long as a worker has one entry in
\* conncache.
LEMMA KeysInductive ==
  ASSUME Repeats = 1, KeysInv, [KeysNext]_keysVars
  PROVE  KeysInv'
  <1>1. CASE Serve
    BY <1>1, ServeKeeps
  <1>2. ASSUME NEW w \in Askers, NEW s \in Sizes, Ask(w, s)
        PROVE  KeysInv'
    BY <1>2, AskKeeps
  <1>3. ASSUME NEW w \in Askers, RelayResponse(w) \/ Obtain(w) \/ Timeout(w) \/ Drain(w)
        PROVE  KeysInv'
    BY <1>3, RelayKeeps, ObtainKeeps, TimeoutKeeps, DrainKeeps
  <1>4. CASE UNCHANGED keysVars
    <2>1. UNCHANGED <<doing, size, asked, reqs, wire, resps, answer, overdue, last>>
      BY <1>4 DEF keysVars
    <2>2. KeysTypeOK /\ GivenUp /\ LagBounded => (KeysTypeOK /\ GivenUp /\ LagBounded)'
      BY <2>1, Zenon DEF KeysTypeOK, GivenUp, LagBounded
    <2>3. AskedBefore => AskedBefore'
      BY <2>1 DEF AskedBefore
    <2>4. OnTheWay => OnTheWay'
      BY <2>1 DEF OnTheWay, Newer, Oldest
    <2> QED BY <2>2, <2>3, <2>4, Zenon DEF KeysInv
  <1> QED BY <1>1, <1>2, <1>3, <1>4 DEF KeysNext

\* A result of the key manager lags behind the request it is taken for by no
\* more requests than the worker gave up after a second, and results are used
\* in their order (tls_keymgr_rsa_privenc), for any number of workers and
\* requests, when the parent relays each response once: workers that were
\* never restarted have one entry in conncache.
THEOREM KeysMeant ==
  ASSUME Repeats = 1
  PROVE  KeysSpec => []LagBounded
  <1>1. KeysInv => LagBounded
    BY DEF KeysInv
  <1> QED BY KeysInitial, KeysInductive, <1>1, PTL DEF KeysSpec
-----------------------------------------------------------------------------
LifecycleInv == TypeOK /\ Tracked /\ SpawnAwaited

\* Before anything was forked the invariant holds.
LEMMA LifecycleInitial == Init => LifecycleInv /\ ReloadReaches
  BY LifecycleAssumption, SMTT(30)
  DEF Init, LifecycleInv, TypeOK, Tracked, SpawnAwaited, ReloadReaches, Procs, Signals, Alive, Serves, Zombie

\* Every step of the parent, a worker, a signal or a death keeps the types.
LEMMA TypeStep ==
    LifecycleInv /\ Next => TypeOK'
<1> SUFFICES ASSUME LifecycleInv, Next PROVE TypeOK'
  OBVIOUS
<1> USE LifecycleAssumption DEF LifecycleInv, TypeOK, Procs, Signals
<1>1. CASE kore_worker_init
  BY <1>1 DEF kore_worker_init, Spawn, NextToStart
<1>2. CASE Top
  BY <1>2, Zenon DEF Top
<1>3. CASE HandleHup
  BY <1>3 DEF HandleHup, Told, Woken, Wakes, Handled, AfterSignal
<1>4. CASE HandleTerm
  BY <1>4, Zenon DEF HandleTerm, Told, Woken, Wakes
<1>5. CASE kore_worker_reap
  BY <1>5 DEF kore_worker_reap, worker_reaper, Spawn
<1>6. CASE Reaped
  BY <1>6, Zenon DEF Reaped, AfterSignal, Handled
<1>7. CASE ParentWaits
  BY <1>7 DEF ParentWaits
<1>8. CASE ParentTimer
  BY <1>8, Zenon DEF ParentTimer
<1>9. CASE QuitAll
  BY <1>9, Zenon DEF QuitAll, Told, Woken, Wakes
<1>10. CASE kore_worker_shutdown
  BY <1>10 DEF kore_worker_shutdown
<1>11. CASE SpawnDone
  BY <1>11 DEF SpawnDone
<1>12. CASE NotReady
  BY <1>12 DEF NotReady
<1>13. ASSUME NEW w \in Workers, kore_signal_setup(w) PROVE TypeOK'
  BY <1>13 DEF kore_signal_setup
<1>14. ASSUME NEW w \in Workers, kore_worker_started(w) PROVE TypeOK'
  BY <1>14 DEF kore_worker_started
<1>15. ASSUME NEW w \in Workers, kore_shutdown(w) PROVE TypeOK'
  BY <1>15, Zenon DEF kore_shutdown
<1>16. ASSUME NEW w \in Workers, WorkerWaits(w) PROVE TypeOK'
  BY <1>16 DEF WorkerWaits
<1>17. ASSUME NEW w \in Workers, WorkerEvent(w) PROVE TypeOK'
  BY <1>17 DEF WorkerEvent
<1>18. ASSUME NEW w \in Workers, WorkerSignal(w) PROVE TypeOK'
  BY <1>18 DEF WorkerSignal, Wakes
<1>19. ASSUME NEW w \in Workers, ChildOfWorker(w) PROVE TypeOK'
  BY <1>19 DEF ChildOfWorker, Wakes
<1>20. ASSUME NEW w \in Workers, Dies(w) PROVE TypeOK'
  BY <1>20 DEF Dies, Wakes
<1>21. CASE Sends("HUP")
  BY <1>21 DEF Sends, Wakes
<1>22. CASE Sends("TERM")
  BY <1>22, SMTT(30) DEF Sends, Wakes
<1> QED
  BY <1>1, <1>2, <1>3, <1>4, <1>5, <1>6, <1>7, <1>8, <1>9, <1>10, <1>11, <1>12, Zenon,
     <1>13, <1>14, <1>15, <1>16, <1>17, <1>18, <1>19, <1>20, <1>21, <1>22
  DEF Next, ParentSteps

\* running and pid are set by kore_worker_spawn and cleared by waitpid only.
LEMMA TrackedStep ==
    LifecycleInv /\ Next => Tracked'
<1> SUFFICES ASSUME LifecycleInv, Next PROVE Tracked'
  OBVIOUS
<1> USE LifecycleAssumption DEF LifecycleInv, TypeOK, Procs, Signals, Tracked, Alive, Serves, Zombie
<1>1. CASE kore_worker_init
  BY <1>1 DEF kore_worker_init, Spawn, NextToStart
<1>2. CASE Top
  BY <1>2 DEF Top
<1>3. CASE HandleHup
  BY <1>3, Zenon DEF HandleHup, Told, Woken, Wakes, Handled, AfterSignal
<1>4. CASE HandleTerm
  BY <1>4 DEF HandleTerm, Told, Woken, Wakes
<1>5. CASE kore_worker_reap
  BY <1>5 DEF kore_worker_reap, worker_reaper, Spawn
<1>6. CASE Reaped
  BY <1>6, Zenon DEF Reaped, AfterSignal, Handled
<1>7. CASE ParentWaits
  BY <1>7 DEF ParentWaits
<1>8. CASE ParentTimer
  BY <1>8, Zenon DEF ParentTimer
<1>9. CASE QuitAll
  BY <1>9 DEF QuitAll, Told, Woken, Wakes
<1>10. CASE kore_worker_shutdown
  BY <1>10 DEF kore_worker_shutdown
<1>11. CASE SpawnDone
  BY <1>11, Zenon DEF SpawnDone
<1>12. CASE NotReady
  BY <1>12 DEF NotReady
<1>13. ASSUME NEW w \in Workers, kore_signal_setup(w) PROVE Tracked'
  BY <1>13 DEF kore_signal_setup
<1>14. ASSUME NEW w \in Workers, kore_worker_started(w) PROVE Tracked'
  BY <1>14 DEF kore_worker_started
<1>15. ASSUME NEW w \in Workers, kore_shutdown(w) PROVE Tracked'
  BY <1>15 DEF kore_shutdown
<1>16. ASSUME NEW w \in Workers, WorkerWaits(w) PROVE Tracked'
  BY <1>16, SMTT(30) DEF WorkerWaits
<1>17. ASSUME NEW w \in Workers, WorkerEvent(w) PROVE Tracked'
  BY <1>17, SMTT(30) DEF WorkerEvent
<1>18. ASSUME NEW w \in Workers, WorkerSignal(w) PROVE Tracked'
  BY <1>18, SMTT(30) DEF WorkerSignal, Wakes
<1>19. ASSUME NEW w \in Workers, ChildOfWorker(w) PROVE Tracked'
  BY <1>19, SMTT(30) DEF ChildOfWorker, Wakes
<1>20. ASSUME NEW w \in Workers, Dies(w) PROVE Tracked'
  BY <1>20, SMTT(30) DEF Dies, Wakes
<1>21. CASE Sends("HUP")
  BY <1>21, Zenon DEF Sends, Wakes
<1>22. CASE Sends("TERM")
  BY <1>22, Zenon DEF Sends, Wakes
<1> QED
  BY <1>1, <1>2, <1>3, <1>4, <1>5, <1>6, <1>7, <1>8, <1>9, <1>10, <1>11, <1>12, Zenon,
     <1>13, <1>14, <1>15, <1>16, <1>17, <1>18, <1>19, <1>20, <1>21, <1>22
  DEF Next, ParentSteps

\* A worker on its way to its loop has the parent waiting for it, or quitting.
LEMMA SpawnStep ==
    LifecycleInv /\ Next => SpawnAwaited'
<1> SUFFICES ASSUME LifecycleInv, Next PROVE SpawnAwaited'
  OBVIOUS
<1> USE LifecycleAssumption DEF LifecycleInv, TypeOK, Procs, Signals, SpawnAwaited
<1>1. CASE kore_worker_init
  BY <1>1 DEF kore_worker_init, Spawn, NextToStart
<1>2. CASE Top
  BY <1>2, Zenon DEF Top
<1>3. CASE HandleHup
  BY <1>3, Zenon DEF HandleHup, Told, Woken, Wakes, Handled, AfterSignal
<1>4. CASE HandleTerm
  BY <1>4, Zenon DEF HandleTerm, Told, Woken, Wakes
<1>5. CASE kore_worker_reap
  BY <1>5 DEF kore_worker_reap, worker_reaper, Spawn
<1>6. CASE Reaped
  BY <1>6, Zenon DEF Reaped, AfterSignal, Handled
<1>7. CASE ParentWaits
  BY <1>7, Zenon DEF ParentWaits
<1>8. CASE ParentTimer
  BY <1>8, Zenon DEF ParentTimer
<1>9. CASE QuitAll
  BY <1>9, Zenon DEF QuitAll, Told, Woken, Wakes
<1>10. CASE kore_worker_shutdown
  BY <1>10 DEF kore_worker_shutdown
<1>11. CASE SpawnDone
  BY <1>11 DEF SpawnDone
<1>12. CASE NotReady
  BY <1>12 DEF NotReady
<1>13. ASSUME NEW w \in Workers, kore_signal_setup(w) PROVE SpawnAwaited'
  BY <1>13 DEF kore_signal_setup
<1>14. ASSUME NEW w \in Workers, kore_worker_started(w) PROVE SpawnAwaited'
  BY <1>14 DEF kore_worker_started
<1>15. ASSUME NEW w \in Workers, kore_shutdown(w) PROVE SpawnAwaited'
  BY <1>15, Zenon DEF kore_shutdown
<1>16. ASSUME NEW w \in Workers, WorkerWaits(w) PROVE SpawnAwaited'
  BY <1>16 DEF WorkerWaits
<1>17. ASSUME NEW w \in Workers, WorkerEvent(w) PROVE SpawnAwaited'
  BY <1>17, Zenon DEF WorkerEvent
<1>18. ASSUME NEW w \in Workers, WorkerSignal(w) PROVE SpawnAwaited'
  BY <1>18, SMTT(30) DEF WorkerSignal, Wakes
<1>19. ASSUME NEW w \in Workers, ChildOfWorker(w) PROVE SpawnAwaited'
  BY <1>19 DEF ChildOfWorker, Wakes
<1>20. ASSUME NEW w \in Workers, Dies(w) PROVE SpawnAwaited'
  BY <1>20, SMTT(30) DEF Dies, Wakes
<1>21. CASE Sends("HUP")
  BY <1>21 DEF Sends, Wakes
<1>22. CASE Sends("TERM")
  BY <1>22, Zenon DEF Sends, Wakes
<1> QED
  BY <1>1, <1>2, <1>3, <1>4, <1>5, <1>6, <1>7, <1>8, <1>9, <1>10, <1>11, <1>12, Zenon,
     <1>13, <1>14, <1>15, <1>16, <1>17, <1>18, <1>19, <1>20, <1>21, <1>22
  DEF Next, ParentSteps

\* When the parent handles SIGHUP every worker that runs is in its loop and is
\* told; until it has looked at the signal nothing but TERM and QUIT takes the
\* slot.
LEMMA ReloadStep ==
    LifecycleInv /\ ReloadReaches /\ Children = "no" /\ Next => ReloadReaches'
<1> SUFFICES ASSUME LifecycleInv, ReloadReaches, Children = "no", Next PROVE ReloadReaches'
  BY SMTT(30)
<1> USE LifecycleAssumption DEF LifecycleInv, TypeOK, Procs, Signals, Tracked, SpawnAwaited, ReloadReaches, Alive, Serves, Zombie
<1>1. CASE kore_worker_init
  BY <1>1, SMTT(30) DEF kore_worker_init, Spawn, NextToStart
<1>2. CASE Top
  BY <1>2, Zenon DEF Top
<1>3. CASE HandleHup
  <2>1. spawning = 0 /\ kore_quit = "NONE" /\ parent = "handle" /\ last_sig = "HUP"
    BY <1>3, Zenon DEF HandleHup
  <2>2. \A v \in Workers : proc[v] \notin {"forked", "setup"}
    BY <2>1, Zenon
  <2>3. \A v \in Workers : Serves(v)' => Alive(v) /\ pid[v] = "yes"
    BY <1>3, <2>2, Zenon DEF HandleHup, Woken, Wakes
  <2>4. \A v \in Workers : Serves(v)' => sig_recv'[v] = "HUP"
    BY <1>3, <2>3, Zenon DEF HandleHup, Told
  <2> QED
    BY <2>4, Zenon
<1>4. CASE HandleTerm
  BY <1>4, Zenon DEF HandleTerm, Told, Woken, Wakes
<1>5. CASE kore_worker_reap
  <2>1. PICK w \in Workers : worker_reaper(w)
    BY <1>5, Zenon DEF kore_worker_reap
  <2>2. \A v \in Workers : v # w => sig_recv'[v] = sig_recv[v] /\ module'[v] = module[v] /\ proc'[v] = proc[v]
    BY <2>1, SMTT(30) DEF worker_reaper, Spawn
  <2>3. ~ Serves(w)' /\ module'[0] = module[0]
    BY <2>1, SMTT(30) DEF worker_reaper, Spawn
  <2> QED
    BY <2>2, <2>3, SMTT(30)
<1>6. CASE Reaped
  BY <1>6, Zenon DEF Reaped, AfterSignal, Handled
<1>7. CASE ParentWaits
  BY <1>7, Zenon DEF ParentWaits
<1>8. CASE ParentTimer
  BY <1>8, Zenon DEF ParentTimer
<1>9. CASE QuitAll
  BY <1>9, Zenon DEF QuitAll, Told, Woken, Wakes
<1>10. CASE kore_worker_shutdown
  BY <1>10, SMTT(30) DEF kore_worker_shutdown
<1>11. CASE SpawnDone
  BY <1>11, Zenon DEF SpawnDone
<1>12. CASE NotReady
  BY <1>12, Zenon DEF NotReady
<1>13. ASSUME NEW w \in Workers, kore_signal_setup(w) PROVE ReloadReaches'
  BY <1>13, SMTT(30) DEF kore_signal_setup
<1>14. ASSUME NEW w \in Workers, kore_worker_started(w) PROVE ReloadReaches'
  BY <1>14, SMTT(30) DEF kore_worker_started
<1>15. ASSUME NEW w \in Workers, kore_shutdown(w) PROVE ReloadReaches'
  BY <1>15, Zenon DEF kore_shutdown
<1>16. ASSUME NEW w \in Workers, WorkerWaits(w) PROVE ReloadReaches'
  BY <1>16, SMTT(30) DEF WorkerWaits
<1>17. ASSUME NEW w \in Workers, WorkerEvent(w) PROVE ReloadReaches'
  BY <1>17, SMTT(30) DEF WorkerEvent
<1>18. ASSUME NEW w \in Workers, WorkerSignal(w) PROVE ReloadReaches'
  BY <1>18, SMTT(30) DEF WorkerSignal, Wakes
<1>19. ASSUME NEW w \in Workers, ChildOfWorker(w) PROVE ReloadReaches'
  BY <1>19, Zenon DEF ChildOfWorker, Wakes
<1>20. ASSUME NEW w \in Workers, Dies(w) PROVE ReloadReaches'
  BY <1>20, SMTT(30) DEF Dies, Wakes
<1>21. CASE Sends("HUP")
  BY <1>21, Zenon DEF Sends, Wakes
<1>22. CASE Sends("TERM")
  BY <1>22, Zenon DEF Sends, Wakes
<1> QED
  BY <1>1, <1>2, <1>3, <1>4, <1>5, <1>6, <1>7, <1>8, <1>9, <1>10, <1>11, <1>12, Zenon,
     <1>13, <1>14, <1>15, <1>16, <1>17, <1>18, <1>19, <1>20, <1>21, <1>22
  DEF Next, ParentSteps

\* The invariant is kept.
LEMMA LifecycleInductive == LifecycleInv /\ [Next]_vars => LifecycleInv'
<1> SUFFICES ASSUME LifecycleInv, [Next]_vars PROVE LifecycleInv'
  OBVIOUS
<1>1. CASE Next
  BY <1>1, TypeStep, TrackedStep, SpawnStep, SMTT(30) DEF LifecycleInv
<1>2. CASE UNCHANGED vars
  BY <1>2 DEF vars, LifecycleInv, TypeOK, Tracked, SpawnAwaited, Procs, Alive, Serves, Zombie
<1> QED
  BY <1>1, <1>2

\* The parent ends with no process left, and never loses track of one that it
\* has not waited for (kore_worker_shutdown, worker_reaper), whatever the
\* number of workers, deaths and signals.
THEOREM NoOrphan == Spec => []NoneLeftBehind
<1>1. LifecycleInv => NoneLeftBehind
  BY LifecycleAssumption DEF LifecycleInv, TypeOK, Tracked, NoneLeftBehind, Alive, Serves, Zombie
<1> QED
  BY <1>1, LifecycleInitial, LifecycleInductive, PTL DEF Spec

\* Without children of their own every worker that runs an older module than
\* the parent has the signal that makes it reload or end
\* (kore_worker_dispatch_signal), workers that died and were replaced included.
THEOREM ReloadNotLost ==
    ASSUME Children = "no"
    PROVE  Spec => []ReloadReaches
<1>1. LifecycleInv /\ ReloadReaches /\ [Next]_vars => ReloadReaches'
  <2> SUFFICES ASSUME LifecycleInv, ReloadReaches, [Next]_vars PROVE ReloadReaches'
    OBVIOUS
  <2>1. CASE Next
    BY <2>1, ReloadStep
  <2>2. CASE UNCHANGED vars
    BY <2>2 DEF vars, ReloadReaches, Serves
  <2> QED
    BY <2>1, <2>2
<1> QED
  BY <1>1, LifecycleInitial, LifecycleInductive, PTL DEF Spec
=============================================================================
