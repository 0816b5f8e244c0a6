------------------------- MODULE ConnectionProofs --------------------------
(***************************************************************************)
(* Proofs about how a worker gets its connections.  AcceptLock: who may    *)
(* accept, and how many, for every number of workers, limit and number of  *)
(* crashes.  Tls: the handshakes, for any connections, domains and         *)
(* messages of the key manager; TlsInv follows a connection from           *)
(* kore_connection_accept on: which context it is on, what it was shown,   *)
(* whether a certificate was asked of the client, and Pruned: what its     *)
(* domain revoked when its certificate was verified.                       *)
(***************************************************************************)
EXTENDS AcceptLock, Tls, TLAPS

\* A u_int32_t stays one when it is counted down past zero.
LEMMA Remainder ==
    ASSUME NEW i \in Int
    PROVE  i % Wrap \in 0 .. Wrap - 1
  BY AcceptLockAssumption

\* Every step keeps every variable of AcceptLock in its range.
THEOREM TypeCorrect == Spec => []TypeOK
<1>1. Init => TypeOK
  BY AcceptLockAssumption, SMTT(30) DEF Init, TypeOK, Code
<1>2. TypeOK /\ [Next]_vars => TypeOK'
  <2> SUFFICES ASSUME TypeOK, [Next]_vars PROVE TypeOK'
    OBVIOUS
  <2> USE AcceptLockAssumption DEF TypeOK, lockVars, msgVars, connVars, parentVars
  <2>1. CASE UNCHANGED vars
    BY <2>1, Zenon DEF vars
  <2>2. ASSUME NEW w \in Workers, Loop(w) PROVE TypeOK'
    <3>1. CASE LoopTop(w)
      BY <3>1, Zenon DEF LoopTop, TryLock, Goto, Code
    <3>2. CASE LockTaken(w)
      BY <3>2, SMTT(30) DEF LockTaken, Goto, Code
    <3>3. CASE ClearCurrent(w) \/ ReleaseLock(w) \/ Announce(w)
      BY <3>3 DEF ClearCurrent, ReleaseLock, Announce, Goto, Code
    <3>4. CASE After(w)
      <4>1. ASSUME NEW n \in 0 .. clients[w], Prune(w, n)
            PROVE  /\ active' \in [Workers -> 0 .. Wrap - 1]
                   /\ clients' \in [Workers -> Nat] /\ closing' \subseteq Workers
        <5> DEFINE d == active[w] - n - (IF w \in closing THEN 1 ELSE 0)
        <5>1. d \in Int
          OBVIOUS
        <5>2. d % Wrap \in 0 .. Wrap - 1
          BY <5>1, Remainder, Zenon
        <5>3. active' = [active EXCEPT ![w] = d % Wrap]
          BY <4>1, Zenon DEF Prune
        <5>4. active' \in [Workers -> 0 .. Wrap - 1]
          <6> HIDE DEF d
          <6> QED
            BY <5>2, <5>3, Zenon
        <5>5. clients[w] - n \in Nat
          OBVIOUS
        <5> QED
          BY <4>1, <5>4, <5>5, Zenon DEF Prune
      <4> QED
        BY <3>4, <4>1 DEF After, Goto, Code
    <3> HIDE DEF TypeOK
    <3> QED
      BY <2>2, <3>1, <3>2, <3>3, <3>4, Zenon DEF Loop
  <2>3. ASSUME NEW w \in Workers, Events(w) PROVE TypeOK'
    <3>1. CASE Wake(w) \/ AcceptAvail(w) \/ RequestsArrive(w) \/ LoseParent(w)
      BY <3>1, Zenon DEF Wake, AcceptAvail, RequestsArrive, LoseParent, Goto, Code
    <3>2. CASE ListenerAccept(w)
      BY <3>2 DEF ListenerAccept, RoomFor, MakeBusy, Goto, Code
    <3> HIDE DEF TypeOK
    <3> QED
      BY <2>3, <3>1, <3>2, Zenon DEF Events
  <2>4. ASSUME NEW w \in Workers, Crash(w) PROVE TypeOK'
    BY <2>4, SMTT(30) DEF Crash, Goto
  <2>5. ASSUME NEW w \in Workers, ParentStep(w) PROVE TypeOK'
    <3>1. CASE Relay(w) \/ ReapHolder(w)
      BY <3>1 DEF Relay, ReapHolder, Deliver
    <3>2. CASE Restart(w)
      BY <3>2 DEF Restart, Deliver, Fork, Goto, Code
    <3>3. CASE ReapQuit(w)
      BY <3>3 DEF ReapQuit, Deliver, Fork, Goto
    <3> HIDE DEF TypeOK
    <3> QED
      BY <2>5, <3>1, <3>2, <3>3, Zenon DEF ParentStep
  <2> QED
    <3> HIDE DEF TypeOK
    <3> QED BY <2>1, <2>2, <2>3, <2>4, <2>5, Zenon DEF Next
<1> QED
  BY <1>1, <1>2, PTL DEF Spec

\* Every step of a worker, a crash and every step of the parent keep the parts
\* of the lock in agreement.
LEMMA LockInductive == TypeOK /\ LockInv /\ [Next]_vars => LockInv'
<1> SUFFICES ASSUME pc \in [Workers -> Code \cup {"crashed", "gone"}],
                    pid \in [Workers -> Pids \cup {0}], ret \in [Workers -> {"batch", "after"}],
                    hasLock \subseteq Workers, listening \subseteq Workers,
                    LockInv, [Next]_vars
             PROVE  LockInv'
  BY Zenon DEF TypeOK
<1> USE DEF lockVars, parentVars, LockInv, LockAgrees, MutualExclusion,
            CurrentNamesOwner, PollExclusive, Owners, Alive, Code
<1>1. UNCHANGED <<lock, current, hasLock, pc, listening, pid>> => LockInv'
  OBVIOUS
<1>2. ASSUME NEW w \in Workers, LoopTop(w) PROVE LockInv'
  BY <1>2 DEF LoopTop, TryLock, Goto
<1>3. ASSUME NEW w \in Workers, LockTaken(w) PROVE LockInv'
  BY <1>3 DEF LockTaken, Goto
<1>4. ASSUME NEW w \in Workers, ClearCurrent(w) PROVE LockInv'
  BY <1>4 DEF ClearCurrent, Goto
<1>5. ASSUME NEW w \in Workers, ReleaseLock(w) PROVE LockInv'
  BY <1>5, SMTT(30) DEF ReleaseLock, Goto
<1>6. ASSUME NEW w \in Workers, Announce(w) PROVE LockInv'
  BY <1>6, SMTT(30) DEF Announce, Goto
<1>7. ASSUME NEW w \in Workers, After(w) PROVE LockInv'
  <2>1. /\ UNCHANGED <<lock, current, hasLock, pid>> /\ pc[w] \in {"batch", "after"}
        /\ w \in hasLock => listening' = listening /\ pc' \in {[pc EXCEPT ![w] = "unlock"], [pc EXCEPT ![w] = "top"]}
        /\ w \notin hasLock => listening' = listening \ {w} /\ pc' = [pc EXCEPT ![w] = "top"]
    <3> HIDE DEF LockInv, Code
    <3> QED BY <1>7, Zenon DEF After, Goto
  <2> QED BY <2>1
<1>8. ASSUME NEW w \in Workers, Events(w) PROVE LockInv'
  <2>1. CASE Wake(w)
    BY <2>1 DEF Wake, Goto
  <2>2. CASE AcceptAvail(w) \/ RequestsArrive(w) \/ LoseParent(w)
    <3> HIDE DEF LockInv, Code
    <3> QED BY <1>1, <2>2, Zenon DEF AcceptAvail, RequestsArrive, LoseParent
  <2>3. CASE ListenerAccept(w)
    <3>1. /\ UNCHANGED <<lock, current, hasLock, listening, pid>> /\ pc[w] = "batch"
          /\ pc' # pc => w \in hasLock /\ pc' = [pc EXCEPT ![w] = "unlock"]
      <4> HIDE DEF LockInv
      <4> QED BY <2>3, Zenon DEF ListenerAccept, MakeBusy, Goto
    <3> QED BY <3>1
  <2> HIDE DEF LockInv
  <2> QED BY <1>8, <2>1, <2>2, <2>3, Zenon DEF Events
<1>9. ASSUME NEW w \in Workers, Crash(w) PROVE LockInv'
  BY <1>9, SMTT(30) DEF Crash, Goto
<1>10. ASSUME NEW w \in Workers, Relay(w) \/ ReapHolder(w) PROVE LockInv'
  <2> HIDE DEF LockInv, Code
  <2> QED BY <1>1, <1>10, Zenon DEF Relay, ReapHolder
<1>11. ASSUME NEW w \in Workers, Restart(w) PROVE LockInv'
  <2>1. PICK p \in Pids : p # 0 /\ (\A v \in Workers : pid[v] # p) /\ pid' = [pid EXCEPT ![w] = p]
    <3> HIDE DEF LockInv, Code
    <3> QED BY <1>11, AcceptLockAssumption, Zenon DEF Restart, Fork
  <2> QED BY <1>11, <2>1 DEF Restart, Goto
<1>12. ASSUME NEW w \in Workers, ReapQuit(w) PROVE LockInv'
  <2>1. PICK p \in Pids \cup {0} : /\ pid' = [pid EXCEPT ![w] = p]
                                   /\ p # 0 => \A v \in Workers : pid[v] # p
    <3> HIDE DEF LockInv, Code
    <3> QED BY <1>12, AcceptLockAssumption, Zenon DEF ReapQuit, Fork
  <2>2. UNCHANGED <<lock, current, hasLock, listening>> /\ pc[w] = "crashed"
        /\ current # pid[w] /\ pc' = [pc EXCEPT ![w] = "gone"]
    <3> HIDE DEF LockInv, Code
    <3> QED BY <1>12, Zenon DEF ReapQuit, Goto
  <2>3. pid' \in [Workers -> Pids \cup {0}] /\ pid'[w] = p /\ \A v \in Workers : v # w => pid'[v] = pid[v]
    <3> HIDE DEF LockInv, Code
    <3> QED BY <2>1
  <2>4. pc'[w] = "gone" /\ \A v \in Workers : v # w => pc'[v] = pc[v]
    <3> HIDE DEF LockInv, Code
    <3> QED BY <2>2
  <2>5. LockAgrees'
    <3> HIDE DEF MutualExclusion, CurrentNamesOwner, PollExclusive
    <3> QED BY <2>1, <2>2, <2>3, <2>4
  <2>6. MutualExclusion' /\ CurrentNamesOwner' /\ PollExclusive'
    <3> HIDE DEF LockAgrees
    <3> QED BY <2>2, <2>3, <2>4
  <2> HIDE DEF LockAgrees, MutualExclusion, CurrentNamesOwner, PollExclusive
  <2> QED BY <2>5, <2>6, Zenon
<1> HIDE DEF LockInv
<1>13. UNCHANGED vars => LockInv'
  BY <1>1, Zenon DEF vars
<1> QED
  BY <1>13, <1>2, <1>3, <1>4, <1>5, <1>6, <1>7, <1>8, <1>9, <1>10, <1>11, <1>12, Zenon
     DEF Next, Loop, ParentStep

\* The inductive invariant holds in every reachable state.
LEMMA LockCorrect == Spec => []LockInv
<1>1. Init => LockInv
  BY AcceptLockAssumption
     DEF Init, LockInv, LockAgrees, MutualExclusion, CurrentNamesOwner,
         PollExclusive, Owners, Alive, Code
<1> QED
  BY <1>1, TypeCorrect, LockInductive, PTL DEF Spec

\* The compare-and-swap of worker_trylock excludes every other process, also
\* across crashes, restarts and reused process identifiers.
THEOREM ExclusiveLock == Spec => []MutualExclusion
  BY LockCorrect, PTL DEF LockInv

\* accept_lock->current names the settled owner, and never a crashed process
\* while another one owns the lock.
THEOREM HolderKnown == Spec => []CurrentNamesOwner
  BY LockCorrect, PTL DEF LockInv

\* Only the owner of the lock waits on the listening sockets.
THEOREM OnePoller == Spec => []PollExclusive
  BY LockCorrect, PTL DEF LockInv
-----------------------------------------------------------------------------
\* One when the lost message connection has been pruned: kore_connection_remove
\* counted down what nobody had counted up.
Debt(w) == IF w \in linked \cup closing THEN 0 ELSE 1

\* worker_active_connections is the number of clients less that debt, around
\* zero if need be.  The message connection is lost only with the parent, and
\* a process that is gone has no clients.
Counted ==
    \A w \in Workers :
        /\ w \notin linked => parent = "dead"
        /\ w \in closing => w \notin linked
        /\ ~ Alive(w) => clients[w] = 0
        /\ clients[w] - Debt(w) <= MaxConns
        /\ Alive(w) => active[w] = IF clients[w] < Debt(w) THEN Wrap - 1 ELSE clients[w] - Debt(w)

\* Counting a u_int32_t down by a small number.
LEMMA CountedDown ==
    ASSUME NEW d \in Int, -1 <= d, d < Wrap - 1
    PROVE  d % Wrap = IF d = -1 THEN Wrap - 1 ELSE d
  BY AcceptLockAssumption

\* Accepting, pruning, losing the parent and restarting keep the count.
LEMMA CountInductive == TypeOK /\ Counted /\ [Next]_vars => Counted'
<1> SUFFICES ASSUME pc \in [Workers -> Code \cup {"crashed", "gone"}], ret \in [Workers -> {"batch", "after"}],
                    active \in [Workers -> 0 .. Wrap - 1], clients \in [Workers -> Nat],
                    Counted, [Next]_vars
             PROVE  Counted'
  BY Zenon DEF TypeOK
<1> USE DEF msgVars, connVars, parentVars, Alive, Code
<1>8. ASSUME UNCHANGED <<linked, closing, parent, clients, active>>,
             \A v \in Workers : Alive(v)' => Alive(v), \A v \in Workers : Alive(v) => Alive(v)'
      PROVE  Counted'
  <2> HIDE DEF Alive
  <2> QED BY <1>8, Zenon DEF Counted, Debt
<1>9. ASSUME NEW w \in Workers, Alive(w), NEW l \in Code, pc' = [pc EXCEPT ![w] = l]
      PROVE  /\ \A v \in Workers : Alive(v)' => Alive(v)
             /\ \A v \in Workers : Alive(v) => Alive(v)'
  BY <1>9
<1>1. CASE UNCHANGED vars
  BY <1>1, <1>8, Zenon DEF vars
<1>2. ASSUME NEW w \in Workers, Loop(w) PROVE Counted'
  <2>1. CASE LoopTop(w) \/ LockTaken(w) \/ ClearCurrent(w) \/ ReleaseLock(w) \/ Announce(w)
    <3>1. UNCHANGED <<linked, closing, parent, clients, active>>
      BY <2>1, Zenon DEF LoopTop, LockTaken, ClearCurrent, ReleaseLock, Announce
    <3>2. Alive(w) /\ \E l \in Code : pc' = [pc EXCEPT ![w] = l]
      <4> HIDE DEF msgVars, connVars, parentVars
      <4> QED BY <2>1, Zenon DEF LoopTop, LockTaken, ClearCurrent, ReleaseLock, Announce, Goto
    <3> HIDE DEF Alive, Code
    <3> QED BY <1>8, <1>9, <3>1, <3>2, Zenon
  <2>2. CASE After(w)
    <3>1. CASE UNCHANGED connVars
      <4>1. Alive(w) /\ UNCHANGED <<linked, parent>> /\ \E l \in Code : pc' = [pc EXCEPT ![w] = l]
        BY <2>2, Zenon DEF After, Goto
      <4> HIDE DEF Alive, Code
      <4> QED BY <1>8, <1>9, <3>1, <4>1, Zenon
    <3>2. ASSUME NEW n \in 0 .. clients[w], Prune(w, n), Goto(w, "top"),
                 UNCHANGED <<lockVars, msgVars, parentVars>>, Alive(w)
          PROVE  Counted'
      <4> DEFINE d == active[w] - n - (IF w \in closing THEN 1 ELSE 0)
      <4>1. /\ clients' = [clients EXCEPT ![w] = @ - n]
            /\ active' = [active EXCEPT ![w] = d % Wrap] /\ closing' = closing \ {w}
            /\ linked' = linked /\ parent' = parent /\ pc' = [pc EXCEPT ![w] = "top"]
        BY <3>2, Zenon DEF Prune, Goto
      <4>2. Debt(w)' = Debt(w) + (IF w \in closing THEN 1 ELSE 0) /\ Debt(w) \in {0, 1}
        BY <4>1 DEF Debt, Counted
      <4>3. d \in Int /\ n \in Nat /\ clients[w] \in Nat /\ clients[w] - n \in Nat
        BY <3>2
      <4>4. Debt(w)' \in {0, 1}
        BY DEF Debt
      <4>5. /\ clients[w] - Debt(w) <= MaxConns
            /\ active[w] = IF clients[w] < Debt(w) THEN Wrap - 1 ELSE clients[w] - Debt(w)
        BY <3>2, Zenon DEF Counted
      <4>6. d % Wrap = IF clients[w] - n < Debt(w)' THEN Wrap - 1 ELSE (clients[w] - n) - Debt(w)'
        <5>1. CASE clients[w] < Debt(w)
          <6>1. clients[w] = 0 /\ n = 0 /\ w \notin closing /\ d = Wrap - 1 /\ Debt(w)' = 1
            BY <3>2, <4>2, <4>3, <4>4, <4>5, <5>1, SMTT(30)
          <6>2. (Wrap - 1) % Wrap = Wrap - 1
            BY AcceptLockAssumption
          <6> QED
            BY <6>1, <6>2
        <5>2. CASE ~ (clients[w] < Debt(w))
          <6>1. d = (clients[w] - n) - Debt(w)' /\ -1 <= d /\ d < Wrap - 1
            BY <3>2, <4>2, <4>3, <4>4, <4>5, <5>2, AcceptLockAssumption, SMTT(30)
          <6> HIDE DEF d
          <6>2. d % Wrap = IF d = -1 THEN Wrap - 1 ELSE d
            BY <4>3, <6>1, CountedDown, Zenon
          <6> QED
            BY <4>3, <4>4, <6>1, <6>2, SMTT(30)
        <5> QED
          BY <5>1, <5>2, Zenon
      <4> HIDE DEF d
      <4>7. ASSUME NEW v \in Workers, v # w
            PROVE  Debt(v)' = Debt(v) /\ clients'[v] = clients[v] /\ active'[v] = active[v] /\ pc'[v] = pc[v]
        BY <4>1, <4>7 DEF Debt
      <4>8. clients'[w] = clients[w] - n /\ active'[w] = d % Wrap /\ Alive(w)'
        BY <4>1
      <4>9. clients[w] - n - Debt(w)' <= MaxConns
        BY <4>2, <4>3, <4>5, AcceptLockAssumption, SMTT(30)
      <4> QED
        BY <4>1, <4>6, <4>7, <4>8, <4>9, SMTT(30) DEF Counted
    <3>3. Alive(w)
      BY <2>2, Zenon DEF After
    <3> HIDE DEF msgVars, connVars, parentVars, Alive, Code
    <3> QED
      BY <2>2, <3>1, <3>2, <3>3, Zenon DEF After
  <2> QED
    BY <1>2, <2>1, <2>2, Zenon DEF Loop
<1>3. ASSUME NEW w \in Workers, Events(w) PROVE Counted'
  <2>1. CASE Wake(w) \/ AcceptAvail(w) \/ RequestsArrive(w)
    <3>1. UNCHANGED <<linked, closing, parent, clients, active>>
      BY <2>1, Zenon DEF Wake, AcceptAvail, RequestsArrive
    <3>2. Alive(w) /\ \E l \in Code : pc' = [pc EXCEPT ![w] = l]
      BY <2>1, Zenon DEF Wake, AcceptAvail, RequestsArrive, Goto
    <3> HIDE DEF Alive, Code
    <3> QED BY <1>8, <1>9, <3>1, <3>2, Zenon
  <2>2. CASE LoseParent(w)
    BY <2>2, Zenon DEF LoseParent, Counted, Debt
  <2>3. CASE ListenerAccept(w)
    BY <2>3, AcceptLockAssumption, SMTT(30) DEF ListenerAccept, RoomFor, MakeBusy, Goto, Counted, Debt
  <2> QED
    BY <1>3, <2>1, <2>2, <2>3, Zenon DEF Events
<1>4. ASSUME NEW w \in Workers, Crash(w) PROVE Counted'
  BY <1>4, AcceptLockAssumption, SMTT(30) DEF Crash, Goto, Counted, Debt
<1>5. ASSUME NEW w \in Workers, Relay(w) \/ ReapHolder(w) PROVE Counted'
  <2>1. CASE Relay(w)
    BY <1>8, <2>1, Zenon DEF Relay
  <2>2. CASE ReapHolder(w)
    BY <2>2, Zenon DEF ReapHolder, Counted, Debt
  <2> QED BY <1>5, <2>1, <2>2, Zenon
<1>6. ASSUME NEW w \in Workers, Restart(w) PROVE Counted'
  BY <1>6 DEF Restart, Goto, Counted, Debt
<1>7. ASSUME NEW w \in Workers, ReapQuit(w) PROVE Counted'
  BY <1>7, Zenon DEF ReapQuit, Goto, Counted, Debt
<1> QED
  BY <1>1, <1>2, <1>3, <1>4, <1>5, <1>6, <1>7, Zenon DEF Next, ParentStep

\* A worker never has more clients than worker_max_connections, or one more
\* after the parent is gone (kore_listener_accept, kore_connection_remove),
\* although the counter wraps below zero.
THEOREM ClientsLimited == Spec => []ClientsBounded
<1>1. Init => Counted
  BY AcceptLockAssumption DEF Init, Counted, Debt, Alive, Code
<1>2. TypeOK /\ Counted => ClientsBounded
  BY AcceptLockAssumption DEF TypeOK, Counted, Debt, ClientsBounded
<1> QED
  BY <1>1, <1>2, TypeCorrect, CountInductive, PTL DEF Spec
-----------------------------------------------------------------------------
YesNo == {"yes", "no"}
Conn ==
    [state : {"none", "accepted", "hello", "verified", "up", "gone"}, on : Nat, sni : YesNo, alpn : YesNo,
     proto : {"unknown", "http", "websocket", "acme"}, cert : Certs \cup {NoCert}, wanted : YesNo,
     shown : {"domain", "challenge"}, active : YesNo, passed : YesNo]

Contexts ==
    /\ \E X, Y : tls_ctxs \in Seq([dom : X, revoked : Y])
    /\ ctx \in [Domains -> Nat] /\ challenge \in [Domains -> YesNo]
    /\ \A d \in Domains : ctx[d] # 0 => ctx[d] \in 1 .. Len(tls_ctxs) /\ tls_ctxs[ctx[d]].dom = d

\* What connection r went through: at its start, after the hello, and up.
Begins(r) == r.sni = "no" /\ r.alpn = "no" /\ r.shown = "domain" /\ r.proto = "unknown" /\ r.active = "no"
Greeted(r) ==
    /\ r.on \in 1 .. Len(tls_ctxs)
    /\ r.proto # "acme" => (r.wanted = "yes" <=> tls_ctxs[r.on].dom \in Cafile)
Shows(r) ==
    /\ r.shown = "challenge" <=> r.alpn = "yes" /\ r.sni = "yes" /\ r.active = "yes"
    /\ r.proto = IF r.shown = "challenge" THEN "acme" ELSE "unknown"
Checked(r) == r.proto # "acme" /\ r.wanted = "yes" => r.cert # NoCert
Sound(r) ==
    /\ r.state \in {"none", "accepted"} => Begins(r)
    /\ r.state \in {"hello", "verified", "up"} => Greeted(r)
    /\ r.state \in {"hello", "verified"} => Shows(r)
    /\ r.state \in {"verified", "up"} => Checked(r)
    /\ r.state = "up" => r.shown = "domain" /\ r.proto \in {"http", "websocket"}

TlsInv == Contexts /\ conn \in [Conns -> Conn] /\ \A c \in Conns : Sound(conn[c])
-----------------------------------------------------------------------------
\* No context is made and no connection is open at the start.
LEMMA TlsInitial == TlsInit => TlsInv
<1> SUFFICES ASSUME TlsInit PROVE TlsInv
  OBVIOUS
<1>1. Contexts
  <2>1. tls_ctxs \in Seq([dom : {}, revoked : {}]) /\ \A d \in Domains : ctx[d] = 0
    BY DEF TlsInit
  <2> QED
    BY <2>1 DEF TlsInit, Contexts, YesNo
<1>2. conn \in [Conns -> Conn]
  BY DEF TlsInit, Fresh, Conn, YesNo
<1>3. \A c \in Conns : Sound(conn[c])
  BY Zenon DEF TlsInit, Fresh, Sound, Begins
<1> QED
  BY <1>1, <1>2, <1>3 DEF TlsInv

\* The contexts that were there keep their domains.
Kept ==
    /\ Len(tls_ctxs) \in Nat /\ Len(tls_ctxs') \in Nat /\ Len(tls_ctxs) <= Len(tls_ctxs')
    /\ \A i \in 1 .. Len(tls_ctxs) : tls_ctxs'[i].dom = tls_ctxs[i].dom

\* kore_tls_domain_setup adds a context for d, or leaves d without one.
LEMMA SetupStep ==
    ASSUME Contexts, NEW d, NEW good, kore_tls_domain_setup(d, good), challenge' \in [Domains -> YesNo]
    PROVE  Contexts' /\ Kept
<1>1. PICK X, Y : tls_ctxs \in Seq([dom : X, revoked : Y])
  BY Zenon DEF Contexts
<1>2. Len(tls_ctxs) \in Nat
  BY <1>1
<1>3. CASE good = "no"
  <2>1. ctx' = [ctx EXCEPT ![d] = 0] /\ tls_ctxs' = tls_ctxs
    BY <1>3 DEF kore_tls_domain_setup
  <2>2. \A n \in Domains : ctx'[n] = IF n = d THEN 0 ELSE ctx[n]
    BY <2>1 DEF Contexts
  <2>3. ctx' \in [Domains -> Nat]
    BY <2>1, Zenon DEF Contexts
  <2>4. \A n \in Domains : ctx'[n] # 0 => ctx'[n] \in 1 .. Len(tls_ctxs') /\ tls_ctxs'[ctx'[n]].dom = n
    BY <2>1, <2>2 DEF Contexts
  <2>5. Kept
    BY <1>2, <2>1 DEF Kept
  <2> QED
    BY <1>1, <2>1, <2>3, <2>4, <2>5, Zenon DEF Contexts
<1>4. CASE good # "no"
  <2> DEFINE e == [dom |-> d, revoked |-> {}]
             T == [dom : X \cup {d}, revoked : Y \cup {{}}]
  <2>1. tls_ctxs' = Append(tls_ctxs, e) /\ ctx' = [ctx EXCEPT ![d] = Len(tls_ctxs) + 1]
    BY <1>4 DEF kore_tls_domain_setup
  <2>2. tls_ctxs \in Seq(T) /\ e \in T
    <3> DEFINE R == [dom : X, revoked : Y]
    <3>1. R \subseteq T /\ e \in T
      OBVIOUS
    <3>2. tls_ctxs \in Seq(R)
      BY <1>1
    <3> HIDE DEF R, T, e
    <3> QED
      BY <3>1, <3>2
  <2>3. /\ tls_ctxs' \in Seq(T) /\ Len(tls_ctxs') = Len(tls_ctxs) + 1
        /\ \A i \in 1 .. Len(tls_ctxs) : tls_ctxs'[i] = tls_ctxs[i]
        /\ tls_ctxs'[Len(tls_ctxs) + 1] = e
    <3> HIDE DEF T, e
    <3> QED
      BY <2>1, <2>2, SMTT(30)
  <2>4. \A n \in Domains : ctx'[n] = IF n = d THEN Len(tls_ctxs) + 1 ELSE ctx[n]
    BY <2>1 DEF Contexts
  <2>5. ctx' \in [Domains -> Nat]
    <3>1. ctx \in [Domains -> Nat] /\ Len(tls_ctxs) + 1 \in Nat
      BY <1>2 DEF Contexts
    <3> QED
      BY <2>1, <3>1, Zenon
  <2>6. \A n \in Domains : ctx'[n] # 0 => ctx'[n] \in 1 .. Len(tls_ctxs') /\ tls_ctxs'[ctx'[n]].dom = n
    <3> SUFFICES ASSUME NEW n \in Domains, ctx'[n] # 0
                 PROVE  ctx'[n] \in 1 .. Len(tls_ctxs') /\ tls_ctxs'[ctx'[n]].dom = n
      OBVIOUS
    <3>1. CASE n = d
      BY <1>2, <2>3, <2>4, <3>1, SMTT(30)
    <3>2. CASE n # d
      BY <1>2, <2>3, <2>4, <3>2, SMTT(30) DEF Contexts
    <3> QED
      BY <3>1, <3>2
  <2>7. Kept
    BY <1>2, <2>3, SMTT(30) DEF Kept
  <2>8. \E A, B : tls_ctxs' \in Seq([dom : A, revoked : B])
    BY <2>3, Zenon
  <2> QED
    BY <2>5, <2>6, <2>7, <2>8, Zenon DEF Contexts
<1> QED
  BY <1>3, <1>4

\* Lists and functions of their places.
LEMMA Elements == \A S : \A s \in Seq(S) : \A i \in 1 .. Len(s) : s[i] \in S
  OBVIOUS

LEMMA Indexed == \A S : \A n \in Nat : \A f \in [1 .. n -> S] : f \in Seq(S) /\ Len(f) = n
  OBVIOUS

\* A CRL goes to a context and changes no domain.
LEMMA StoreStep ==
    ASSUME Contexts, NEW k, NEW revoked, tls_ctxs' = [tls_ctxs EXCEPT ![k].revoked = @ \cup revoked],
           UNCHANGED <<ctx, challenge>>
    PROVE  Contexts' /\ Kept
<1>1. PICK X, Y : tls_ctxs \in Seq([dom : X, revoked : Y])
  BY Zenon DEF Contexts
<1>2. Len(tls_ctxs) \in Nat /\ DOMAIN tls_ctxs = 1 .. Len(tls_ctxs)
  BY <1>1
<1> DEFINE T == [dom : X, revoked : Y \cup {tls_ctxs[k].revoked \cup revoked}]
<1>3. \A i \in 1 .. Len(tls_ctxs) : tls_ctxs[i] \in [dom : X, revoked : Y]
  BY <1>1, Elements, Zenon
<1>4. \A i \in 1 .. Len(tls_ctxs) : tls_ctxs'[i] \in T /\ tls_ctxs'[i].dom = tls_ctxs[i].dom
  BY <1>2, <1>3, Zenon
<1>5. DOMAIN tls_ctxs' = 1 .. Len(tls_ctxs) /\ tls_ctxs' = [i \in 1 .. Len(tls_ctxs) |-> tls_ctxs'[i]]
  BY <1>2, Zenon
<1> HIDE DEF T
<1>6. tls_ctxs' \in Seq(T) /\ Len(tls_ctxs') = Len(tls_ctxs)
  <2>1. tls_ctxs' \in [1 .. Len(tls_ctxs) -> T]
    BY <1>4, <1>5, Zenon
  <2>2. \A f \in [1 .. Len(tls_ctxs) -> T] : f \in Seq(T) /\ Len(f) = Len(tls_ctxs)
    BY <1>2, Indexed, Zenon
  <2> QED
    BY <2>1, <2>2, Zenon
<1>7. Kept
  BY <1>2, <1>4, <1>6 DEF Kept
<1>8. \E A, B : tls_ctxs' \in Seq([dom : A, revoked : B])
  BY <1>6, Zenon DEF T
<1> QED
  BY <1>2, <1>4, <1>6, <1>7, <1>8, Zenon DEF Contexts

\* What a connection went through stays true as contexts are added.
LEMMA Lasts ==
    ASSUME Kept, NEW r \in Conn, Sound(r) PROVE Sound(r)'
  BY DEF Kept, Sound, Begins, Greeted, Shows, Checked

\* worker_keymgr_response: certificates, CRLs and challenges.
LEMMA MessageStep == ASSUME TlsInv, worker_keymgr_response PROVE TlsInv'
<1> DEFINE m == Head(msgs)
<1> HIDE DEF m
<1> USE DEF TlsInv
<1>1. ASSUME Contexts', Kept, conn' = conn PROVE TlsInv'
  BY <1>1, Lasts
<1>0. tls_ctxs' = tls_ctxs => Kept
  <2>1. Len(tls_ctxs) \in Nat
    BY SMTT(30) DEF Contexts
  <2> QED
    BY <2>1 DEF Kept
<1>2. CASE m.id = "cert" /\ kore_tls_domain_setup(m.dom, m.good) /\ UNCHANGED <<challenge, conn, worker>>
  BY <1>1, <1>2, SetupStep, Zenon DEF Contexts
<1>3. CASE m.id = "crl" /\ kore_tls_domain_crl(m.dom, m.revoked) /\ UNCHANGED <<challenge, ctx>>
  <2>1. CASE UNCHANGED <<tls_ctxs, conn>>
    BY <1>0, <1>1, <1>3, <2>1, Zenon DEF Contexts
  <2>2. CASE /\ tls_ctxs' = [tls_ctxs EXCEPT ![ctx[m.dom]].revoked = @ \cup m.revoked]
             /\ conn' = [c \in Conns |->
                   IF conn[c].proto # "http"
                   THEN IF Shaking(c) THEN [conn[c] EXCEPT !.passed = "yes"] ELSE conn[c]
                   ELSE IF conn[c].state = "up" /\ conn[c].cert \in m.revoked THEN Gone(c) ELSE conn[c]]
    <3>1. Contexts' /\ Kept
      BY <1>3, <2>2, StoreStep, Zenon
    <3>2. ASSUME NEW c \in Conns PROVE conn'[c] \in Conn /\ Sound(conn'[c])
      <4>1. CASE conn'[c] = conn[c]
        BY <4>1
      <4>2. CASE conn'[c] = [conn[c] EXCEPT !.passed = "yes"]
        BY <4>2 DEF Conn, YesNo, Sound, Begins, Greeted, Shows, Checked
      <4>3. CASE conn'[c] = [conn[c] EXCEPT !.state = "gone"]
        BY <4>3 DEF Conn, YesNo, Sound
      <4> QED
        BY <2>2, <4>1, <4>2, <4>3, Zenon DEF Gone
    <3>3. conn' \in [Conns -> Conn]
      <4>1. conn' = [c \in Conns |-> conn'[c]]
        BY <2>2, Zenon
      <4> QED BY <3>2, <4>1, Zenon
    <3>4. ASSUME NEW c \in Conns PROVE Sound(conn[c])'
      BY <3>1, <3>2, Lasts
    <3> QED
      BY <3>1, <3>3, <3>4
  <2> QED
    BY <1>3, <2>1, <2>2, Zenon DEF kore_tls_domain_crl
<1>4. CASE /\ m.id = "set" /\ challenge' = [challenge EXCEPT ![m.dom] = "yes"]
           /\ IF ctx[m.dom] = 0 THEN kore_tls_domain_setup(m.dom, "yes") ELSE UNCHANGED <<ctx, tls_ctxs>>
           /\ UNCHANGED <<conn, worker>>
  <2>1. challenge' \in [Domains -> YesNo]
    BY <1>4, Zenon DEF Contexts, YesNo
  <2>2. CASE UNCHANGED <<ctx, tls_ctxs>>
    BY <1>0, <1>1, <1>4, <2>1, <2>2, Zenon DEF Contexts
  <2> QED
    BY <1>1, <1>4, <2>1, <2>2, SetupStep, Zenon
<1>5. CASE /\ m.id = "clear" /\ challenge' = [challenge EXCEPT ![m.dom] = "no"]
           /\ UNCHANGED <<ctx, tls_ctxs, conn, worker>>
  <2>1. challenge' \in [Domains -> YesNo]
    BY <1>5, Zenon DEF Contexts, YesNo
  <2> QED
    BY <1>0, <1>1, <1>5, <2>1, Zenon DEF Contexts
<1> HIDE DEF TlsInv
<1> QED
  BY <1>2, <1>3, <1>4, <1>5, Zenon DEF worker_keymgr_response, m

\* A connection that becomes r, while nothing else changes.
LEMMA SetStep ==
    ASSUME TlsInv, NEW c \in Conns, NEW r \in Conn, Sound(r), Set(c, r), UNCHANGED <<ctx, tls_ctxs, challenge>>
    PROVE  TlsInv'
<1>1. conn' \in [Conns -> Conn] /\ \A d \in Conns : conn'[d] = IF d = c THEN r ELSE conn[d]
  BY DEF TlsInv, Set
<1>2. \A d \in Conns : Sound(conn'[d])
  BY <1>1, SMTT(30) DEF TlsInv
<1>3. \A d \in Conns : Sound(conn[d])'
  BY <1>2 DEF Sound, Begins, Greeted, Shows, Checked
<1>4. Contexts'
  BY Zenon DEF TlsInv, Contexts
<1> QED
  BY <1>1, <1>3, <1>4 DEF TlsInv

\* The hello, with the two callbacks in either order.
LEMMA HelloStep ==
    ASSUME TlsInv, NEW c \in Conns, NEW name \in Domains \cup {"none"},
           NEW alpn \in {"yes", "no"}, NEW order \in {"sni first", "alpn first"}, Hello(c, name, alpn, order)
    PROVE  TlsInv'
<1> DEFINE start == [conn[c] EXCEPT !.state = "hello", !.on = ctx[Primary],
                                    !.wanted = IF Primary \in Cafile THEN "yes" ELSE "no"]
           named(r) == IF name = "none" THEN r ELSE tls_sni_cb(r, name)
           asked(r) == IF alpn = "yes" THEN tls_acme_alpn(r) ELSE r
           met == IF order = "sni first" THEN asked(named(start)) ELSE named(asked(start))
           r == IF met.proto = "acme" THEN [met EXCEPT !.wanted = "no"] ELSE met
<1>1. /\ start \in Conn /\ start.state = "hello" /\ Begins(start) /\ Greeted(start)
  <2>1. conn[c] \in Conn /\ conn[c].state = "accepted" /\ Begins(conn[c]) /\ ctx[Primary] # 0
    BY Zenon DEF Hello, TlsInv, Sound
  <2>2. ctx[Primary] \in Nat /\ ctx[Primary] \in 1 .. Len(tls_ctxs) /\ tls_ctxs[ctx[Primary]].dom = Primary
    BY <2>1, TlsNames, Zenon DEF TlsInv, Contexts
  <2>3. start \in Conn /\ start.state = "hello" /\ Begins(start)
    BY <2>1, <2>2, Zenon DEF Conn, YesNo, Begins
  <2>4. start.on = ctx[Primary] /\ start.wanted = IF Primary \in Cafile THEN "yes" ELSE "no"
    BY <2>1, Zenon DEF Conn
  <2> HIDE DEF start
  <2>5. Greeted(start)
    BY <2>2, <2>4, Zenon DEF Greeted
  <2> QED
    BY <2>3, <2>5, Zenon
<1>2. Set(c, r) /\ UNCHANGED <<ctx, tls_ctxs, challenge>>
  BY Zenon DEF Hello, Elsewhere
<1> HIDE DEF start
<1>3. met \in Conn /\ met.state = "hello" /\ Shows(met) /\ Greeted(met)
  <2>1. CASE order = "sni first"
    <3> DEFINE n == named(start)
    <3>1. /\ n \in Conn /\ n.state = "hello" /\ Greeted(n)
          /\ n.alpn = "no" /\ n.shown = "domain" /\ n.proto = "unknown"
          /\ n.active = IF n.sni = "yes" THEN challenge[tls_ctxs[n.on].dom] ELSE "no"
      <4>1. CASE n = start
        BY <1>1, <4>1, Zenon DEF Begins
      <4>2. CASE name \in Domains /\ ctx[name] # 0 /\ name # "none"
        <5>1. ctx[name] \in Nat /\ ctx[name] \in 1 .. Len(tls_ctxs) /\ tls_ctxs[ctx[name]].dom = name /\ challenge[name] \in YesNo
          BY <4>2, Zenon DEF TlsInv, Contexts
        <5>2. n = [start EXCEPT !.on = ctx[name], !.sni = "yes", !.active = challenge[name],
                                !.wanted = IF name \in Cafile THEN "yes" ELSE "no"]
          BY <1>1, <4>2, Zenon DEF tls_sni_cb, Begins, Conn
        <5> HIDE DEF n
        <5>3. /\ n \in Conn /\ n.on = ctx[name] /\ n.sni = "yes" /\ n.active = challenge[name] /\ n.state = "hello"
              /\ n.wanted = (IF name \in Cafile THEN "yes" ELSE "no")
              /\ n.alpn = "no" /\ n.shown = "domain" /\ n.proto = "unknown"
          BY <1>1, <5>1, <5>2, Zenon DEF Conn, YesNo, Begins
        <5> QED
          BY <5>1, <5>3, Zenon DEF Greeted
      <4> QED
        BY <4>1, <4>2, Zenon DEF tls_sni_cb
    <3>2. met = asked(n)
      BY <2>1, Zenon
    <3> HIDE DEF n, met
    <3>3. CASE alpn = "no"
      BY <3>1, <3>2, <3>3, Zenon DEF Shows, Conn, YesNo
    <3>4. CASE alpn = "yes" /\ n.sni = "yes" /\ n.active = "yes"
      <4>1. met = [n EXCEPT !.alpn = "yes", !.shown = "challenge", !.proto = "acme"]
        BY <3>1, <3>2, <3>4, Zenon DEF tls_acme_alpn, tls_acme_challenge_set_cert, Conn
      <4> QED
        BY <3>1, <3>4, <4>1, Zenon DEF Shows, Greeted, Conn, YesNo
    <3>5. CASE alpn = "yes" /\ ~ (n.sni = "yes" /\ n.active = "yes")
      <4>1. met = [n EXCEPT !.alpn = "yes"]
        BY <3>1, <3>2, <3>5, Zenon DEF tls_acme_alpn, tls_acme_challenge_set_cert, Conn
      <4> QED
        BY <3>1, <3>5, <4>1, Zenon DEF Shows, Greeted, Conn, YesNo
    <3> QED
      BY <3>3, <3>4, <3>5, Zenon
  <2>2. CASE order = "alpn first"
    <3> DEFINE n == asked(start)
    <3>1. /\ n \in Conn /\ n.state = "hello" /\ Greeted(n) /\ n.alpn = alpn
          /\ n.sni = "no" /\ n.shown = "domain" /\ n.proto = "unknown" /\ n.active = "no"
      <4>1. CASE alpn = "no"
        BY <1>1, <4>1, Zenon DEF Begins
      <4>2. CASE alpn = "yes"
        <5>1. n = [start EXCEPT !.alpn = "yes"]
          BY <1>1, <4>2, Zenon DEF tls_acme_alpn, Begins
        <5> HIDE DEF n
        <5> QED
          BY <1>1, <4>2, <5>1, Zenon DEF Begins, Greeted, Conn, YesNo
      <4> QED
        BY <4>1, <4>2, Zenon
    <3>2. met = named(n)
      BY <2>2, Zenon
    <3> HIDE DEF n, met
    <3>3. CASE met = n
      BY <3>1, <3>3, Zenon DEF Shows
    <3>4. CASE name \in Domains /\ ctx[name] # 0 /\ name # "none"
      <4> DEFINE t == [n EXCEPT !.on = ctx[name], !.sni = "yes", !.active = challenge[name],
                                !.wanted = IF name \in Cafile THEN "yes" ELSE "no"]
      <4>1. ctx[name] \in Nat /\ ctx[name] \in 1 .. Len(tls_ctxs) /\ tls_ctxs[ctx[name]].dom = name /\ challenge[name] \in YesNo
        BY <3>4, Zenon DEF TlsInv, Contexts
      <4>2. /\ t \in Conn /\ t.on = ctx[name] /\ t.sni = "yes" /\ t.active = challenge[name] /\ t.state = "hello"
            /\ t.wanted = (IF name \in Cafile THEN "yes" ELSE "no")
            /\ t.alpn = alpn /\ t.shown = "domain" /\ t.proto = "unknown"
        BY <3>1, <4>1, Zenon DEF Conn, YesNo
      <4>3. met = IF alpn = "yes" /\ challenge[name] = "yes" THEN [t EXCEPT !.shown = "challenge", !.proto = "acme"] ELSE t
        BY <3>1, <3>2, <3>4, Zenon DEF tls_sni_cb, tls_acme_challenge_set_cert
      <4> HIDE DEF t
      <4>4. CASE alpn = "yes" /\ challenge[name] = "yes"
        <5>1. met = [t EXCEPT !.shown = "challenge", !.proto = "acme"]
          BY <4>3, <4>4, Zenon
        <5> QED
          BY <4>1, <4>2, <4>4, <5>1, Zenon DEF Shows, Greeted, Conn, YesNo
      <4>5. CASE ~ (alpn = "yes" /\ challenge[name] = "yes")
        <5>1. met = t
          BY <4>3, <4>5, Zenon
        <5> QED
          BY <4>1, <4>2, <4>5, <5>1, Zenon DEF Shows, Greeted
      <4> QED
        BY <4>4, <4>5, Zenon
    <3> QED
      BY <3>2, <3>3, <3>4, Zenon DEF tls_sni_cb
  <2> QED
    BY <2>1, <2>2, Zenon
<1> HIDE DEF met
<1>4. r \in Conn /\ Sound(r)
  BY <1>3, Zenon DEF Conn, YesNo, Sound, Shows, Greeted
<1> HIDE DEF r
<1> QED
  BY <1>2, <1>4, SetStep, Zenon

\* The other steps of a connection.
LEMMA ConnectionStep ==
    ASSUME TlsInv, NEW c \in Conns,
           \/ kore_connection_accept(c) \/ NotComplete(c) \/ HandshakeDone(c) \/ Upgrade(c)
           \/ kore_connection_disconnect(c) \/ \E cert \in Certs \cup {NoCert} : Verify(c, cert)
    PROVE  TlsInv'
<1>1. conn[c] \in Conn /\ Sound(conn[c])
  BY DEF TlsInv
<1>2. Gone(c) \in Conn /\ Sound(Gone(c))
  BY <1>1 DEF Gone, Conn, Sound
<1>3. CASE kore_connection_accept(c)
  <2> DEFINE r == [Fresh EXCEPT !.state = "accepted"]
  <2>1. r \in Conn /\ Sound(r)
    BY DEF Fresh, Conn, YesNo, Sound, Begins
  <2>2. Set(c, r) /\ UNCHANGED <<ctx, tls_ctxs, challenge>>
    BY <1>3 DEF kore_connection_accept, Elsewhere
  <2> HIDE DEF r
  <2> QED
    BY <2>1, <2>2, SetStep, SMTT(30)
<1>4. CASE Set(c, Gone(c)) /\ Elsewhere
  BY <1>2, <1>4, SetStep, Zenon DEF Elsewhere
<1>5. ASSUME NEW cert \in Certs \cup {NoCert}, Verify(c, cert) PROVE TlsInv'
  <2> DEFINE r == [conn[c] EXCEPT !.state = "verified"]
             s == [conn[c] EXCEPT !.state = "verified", !.cert = cert]
  <2>1. CASE conn[c].wanted = "no"
    <3>1. r \in Conn /\ Sound(r)
      BY <1>1, <1>5, <2>1, Zenon DEF Verify, Conn, Sound, Greeted, Shows, Checked
    <3>2. Set(c, r) /\ UNCHANGED <<ctx, tls_ctxs, challenge>>
      BY <1>5, <2>1, Zenon DEF Verify, Elsewhere
    <3> HIDE DEF r
    <3> QED
      BY <3>1, <3>2, SetStep, Zenon
  <2>2. CASE conn[c].wanted # "no" /\ cert # NoCert /\ cert \notin tls_ctxs[conn[c].on].revoked
    <3>1. s \in Conn /\ Sound(s)
      BY <1>1, <1>5, <2>2, Zenon DEF Verify, Conn, Sound, Greeted, Shows, Checked
    <3>2. Set(c, s) /\ UNCHANGED <<ctx, tls_ctxs, challenge>>
      BY <1>5, <2>2, Zenon DEF Verify, Elsewhere
    <3> HIDE DEF s
    <3> QED
      BY <3>1, <3>2, SetStep
  <2> QED
    BY <1>4, <1>5, <2>1, <2>2, Zenon DEF Verify
<1>6. CASE HandshakeDone(c)
  <2> DEFINE r == [conn[c] EXCEPT !.state = "up", !.proto = "http"]
  <2>1. CASE conn[c].proto # "acme"
    <3>1. r \in Conn /\ Sound(r)
      BY <1>1, <1>6, <2>1, Zenon DEF HandshakeDone, Conn, Sound, Greeted, Shows, Checked
    <3>2. Set(c, r) /\ UNCHANGED <<ctx, tls_ctxs, challenge>>
      BY <1>6, <2>1 DEF HandshakeDone, Elsewhere
    <3> HIDE DEF r
    <3> QED
      BY <3>1, <3>2, SetStep, SMTT(30)
  <2> QED
    BY <1>4, <1>6, <2>1, Zenon DEF HandshakeDone
<1>7. CASE Upgrade(c)
  <2> DEFINE r == [conn[c] EXCEPT !.proto = "websocket"]
  <2>1. r \in Conn /\ Sound(r)
    BY <1>1, <1>7, Zenon DEF Upgrade, Conn, Sound, Greeted, Checked
  <2>2. Set(c, r) /\ UNCHANGED <<ctx, tls_ctxs, challenge>>
    BY <1>7, SMTT(30) DEF Upgrade, Elsewhere
  <2> HIDE DEF r
  <2> QED
    BY <2>1, <2>2, SetStep
<1> QED
  BY <1>3, <1>4, <1>5, <1>6, <1>7, Zenon DEF NotComplete, kore_connection_disconnect

\* Every step of the key manager, the worker or a client keeps the invariant.
LEMMA TlsInductive == ASSUME TlsInv, [TlsNext]_tlsVars PROVE TlsInv'
<1>1. CASE UNCHANGED <<ctx, tls_ctxs, challenge, conn>>
  <2>1. Contexts'
    BY <1>1, Zenon DEF TlsInv, Contexts
  <2>2. Kept
    <3>1. Len(tls_ctxs) \in Nat
      BY DEF TlsInv, Contexts
    <3> QED BY <1>1, <3>1 DEF Kept
  <2> QED BY <1>1, <2>1, <2>2, Lasts, Zenon DEF TlsInv
<1>2. ASSUME NEW d, NEW cert, Revoke(d, cert) PROVE TlsInv'
  BY <1>1, <1>2 DEF Revoke
<1>3. ASSUME NEW d, Challenge(d) PROVE TlsInv'
  BY <1>1, <1>3 DEF Challenge
<1>4. CASE keymgr_reload
  BY <1>1, <1>4 DEF keymgr_reload
<1>5. CASE UNCHANGED tlsVars
  BY <1>1, <1>5 DEF tlsVars
<1>6. ASSUME NEW c \in Conns,
             \/ kore_connection_accept(c) \/ NotComplete(c) \/ HandshakeDone(c) \/ Upgrade(c)
             \/ kore_connection_disconnect(c) \/ \E cert \in Certs \cup {NoCert} : Verify(c, cert)
      PROVE  TlsInv'
  BY <1>6, ConnectionStep
<1>7. ASSUME NEW c \in Conns, NEW name \in Domains \cup {"none"}, NEW alpn \in {"yes", "no"},
             NEW order \in {"sni first", "alpn first"}, Hello(c, name, alpn, order)
      PROVE  TlsInv'
  BY <1>7, HelloStep, Zenon
<1>8. CASE worker_keymgr_response
  BY <1>8, MessageStep, SMTT(30)
<1> QED
  BY <1>2, <1>3, <1>4, <1>5, <1>6, <1>7, <1>8, Zenon DEF TlsNext

\* What a connection r may still hold against the CRLs: in its handshake it is
\* on a store that revokes all that the domain's does, and once its certificate
\* was verified it is one that the domain does not revoke, unless a CRL passed
\* it over.
Fits(r) ==
    /\ r.state \in {"accepted", "hello"} => r.cert = NoCert
    /\ r.state \in {"hello", "verified", "up"} => tls_ctxs[r.on].dom \in Domains
    /\ r.passed = "no" =>
          /\ r.state \in {"hello", "verified"} => Revoked(tls_ctxs[r.on].dom) \subseteq tls_ctxs[r.on].revoked
          /\ r.state = "verified" \/ (r.state = "up" /\ r.proto = "http") =>
                r.cert = NoCert \/ r.cert \notin Revoked(tls_ctxs[r.on].dom)

Pruned == \A c \in Conns : Fits(conn[c])

\* A new context revokes nothing, the others stay.
LEMMA StoresKept ==
    ASSUME Contexts, NEW d, NEW good, kore_tls_domain_setup(d, good)
    PROVE  /\ \A i \in 1 .. Len(tls_ctxs) : tls_ctxs'[i] = tls_ctxs[i]
           /\ \A n \in Domains : Revoked(n)' = Revoked(n) \/ Revoked(n)' = {}
<1>1. PICK X, Y : tls_ctxs \in Seq([dom : X, revoked : Y])
  BY Zenon DEF Contexts
<1> DEFINE T == [dom : X, revoked : Y]
<1>2. tls_ctxs \in Seq(T) /\ Len(tls_ctxs) \in Nat
  BY <1>1
<1> HIDE DEF T
<1>3. CASE good = "no"
  <2>1. tls_ctxs' = tls_ctxs /\ \A n \in Domains : ctx'[n] = IF n = d THEN 0 ELSE ctx[n]
    BY <1>3 DEF kore_tls_domain_setup, Contexts
  <2> QED  BY <2>1 DEF Revoked
<1>4. CASE good # "no"
  <2> DEFINE e == [dom |-> d, revoked |-> {}]
             k == Len(tls_ctxs) + 1
  <2>1. tls_ctxs' = Append(tls_ctxs, e) /\ ctx' = [ctx EXCEPT ![d] = k]
    BY <1>4 DEF kore_tls_domain_setup
  <2>2. \A n \in Domains : ctx'[n] = IF n = d THEN k ELSE ctx[n]
    BY <2>1 DEF Contexts
  <2>3. (\A i \in 1 .. Len(tls_ctxs) : tls_ctxs'[i] = tls_ctxs[i]) /\ tls_ctxs'[k] = e
    <3> HIDE DEF e
    <3> QED  BY <1>2, <2>1
  <2>4. ASSUME NEW n \in Domains  PROVE Revoked(n)' = Revoked(n) \/ Revoked(n)' = {}
    <3>1. CASE n = d
      BY <1>2, <2>2, <2>3, <3>1, SMTT(30) DEF Revoked
    <3>2. CASE n # d
      <4>1. ctx'[n] = ctx[n] /\ (ctx[n] # 0 => ctx[n] \in 1 .. Len(tls_ctxs))
        BY <2>2, <3>2, Zenon DEF Contexts
      <4> QED  BY <2>3, <4>1, Zenon DEF Revoked
    <3> QED  BY <3>1, <3>2, SMTT(30)
  <2> QED  BY <2>3, <2>4, Zenon
<1> QED  BY <1>3, <1>4, Zenon

\* What fits stays so as the stores of the domains stay or are emptied.
LEMMA FitsStill ==
    ASSUME NEW r \in Conn, Sound(r), Fits(r),
           \A i \in 1 .. Len(tls_ctxs) : tls_ctxs'[i] = tls_ctxs[i],
           \A n \in Domains : Revoked(n)' = Revoked(n) \/ Revoked(n)' = {}
    PROVE  Fits(r)'
<1>1. CASE r.state \notin {"hello", "verified", "up"}
  BY <1>1, Zenon DEF Fits
<1>2. CASE r.state \in {"hello", "verified", "up"}
  <2>1. PICK n \in Domains : tls_ctxs[r.on].dom = n
    BY <1>2, Zenon DEF Fits
  <2>2. tls_ctxs'[r.on] = tls_ctxs[r.on]
    BY <1>2 DEF Sound, Greeted
  <2>3. Revoked(n)' = Revoked(n) \/ Revoked(n)' = {}
    BY SMTT(30)
  <2> QED  BY <1>2, <2>1, <2>2, <2>3, Zenon DEF Fits, Revoked
<1> QED  BY <1>1, <1>2, SMTT(30)

\* A CRL closes the HTTP connections that it revokes, and marks those in their
\* handshake.
LEMMA MessagePrunes == ASSUME TlsInv, Pruned, worker_keymgr_response PROVE Pruned'
<1> DEFINE m == Head(msgs)
<1> HIDE DEF m
<1>i. Contexts /\ conn \in [Conns -> Conn] /\ \A c \in Conns : Sound(conn[c]) /\ Fits(conn[c])
  BY SMTT(30) DEF TlsInv, Pruned
<1>0. CASE UNCHANGED <<ctx, tls_ctxs, conn>>
  BY <1>0, <1>i, Zenon DEF Pruned, Fits, Revoked
<1>1. ASSUME NEW good, kore_tls_domain_setup(m.dom, good), conn' = conn  PROVE Pruned'
  <2>1. /\ \A i \in 1 .. Len(tls_ctxs) : tls_ctxs'[i] = tls_ctxs[i]
        /\ \A n \in Domains : Revoked(n)' = Revoked(n) \/ Revoked(n)' = {}
    BY <1>1, <1>i, StoresKept, Zenon
  <2>2. \A r \in Conn : Sound(r) /\ Fits(r) => Fits(r)'
    BY <2>1, FitsStill, Zenon
  <2> QED  BY <1>1, <1>i, <2>2, Zenon DEF Pruned
<1>2. CASE m.id = "crl" /\ kore_tls_domain_crl(m.dom, m.revoked) /\ UNCHANGED <<challenge, ctx>>
  <2>1. CASE UNCHANGED <<tls_ctxs, conn>>
    BY <1>0, <1>2, <2>1, SMTT(30)
  <2>2. CASE /\ tls_ctxs' = [tls_ctxs EXCEPT ![ctx[m.dom]].revoked = @ \cup m.revoked]
             /\ conn' = [c \in Conns |->
                   IF conn[c].proto # "http"
                   THEN IF Shaking(c) THEN [conn[c] EXCEPT !.passed = "yes"] ELSE conn[c]
                   ELSE IF conn[c].state = "up" /\ conn[c].cert \in m.revoked THEN Gone(c) ELSE conn[c]]
    <3>0. ctx' = ctx  BY <1>2
    <3>1. PICK X, Y : tls_ctxs \in Seq([dom : X, revoked : Y])
      BY <1>i, Zenon DEF Contexts
    <3>2. \A i \in 1 .. Len(tls_ctxs) : /\ tls_ctxs'[i].dom = tls_ctxs[i].dom
                                        /\ tls_ctxs'[i].revoked \subseteq tls_ctxs[i].revoked \cup m.revoked
      <4>1. DOMAIN tls_ctxs = 1 .. Len(tls_ctxs)
        BY <3>1
      <4>2. \A i \in 1 .. Len(tls_ctxs) : tls_ctxs[i] \in [dom : X, revoked : Y]
        BY <3>1, Elements, Zenon
      <4> QED  BY <2>2, <4>1, <4>2, Zenon
    <3>3. \A n \in Domains : Revoked(n)' \subseteq Revoked(n) \cup m.revoked
      BY <1>i, <3>0, <3>2, Zenon DEF Revoked, Contexts
    <3>4. ASSUME NEW c \in Conns  PROVE Fits(conn[c])'
      <4>1. conn[c] \in Conn /\ Sound(conn[c]) /\ Fits(conn[c])  BY <1>i, SMTT(30)
      <4>2. CASE Shaking(c)
        <5>1. conn'[c] = [conn[c] EXCEPT !.passed = "yes"]
          BY <2>2, <4>1, <4>2, Zenon DEF Shaking, Sound, Begins, Shows
        <5>2. /\ conn'[c].state = conn[c].state /\ conn'[c].cert = conn[c].cert /\ conn'[c].on = conn[c].on
              /\ conn'[c].passed = "yes"
          BY <4>1, <5>1, SMTT(30) DEF Conn
        <5>3. conn[c].state \in {"hello", "verified"} => tls_ctxs'[conn[c].on].dom = tls_ctxs[conn[c].on].dom
          BY <3>2, <4>1, Zenon DEF Sound, Greeted
        <5> QED  BY <4>1, <4>2, <5>2, <5>3, Zenon DEF Fits, Shaking
      <4>3. CASE conn[c].state = "up"
        <5>0. conn[c].on \in 1 .. Len(tls_ctxs) /\ tls_ctxs[conn[c].on].dom \in Domains
          BY <4>1, <4>3, Zenon DEF Sound, Greeted, Fits
        <5>1. PICK n \in Domains : tls_ctxs[conn[c].on].dom = n /\ tls_ctxs'[conn[c].on].dom = n
          BY <3>2, <5>0, Zenon
        <5>2. CASE conn'[c] = conn[c] /\ (conn[c].proto = "http" => conn[c].cert \notin m.revoked)
          <6>1. Revoked(n)' \subseteq Revoked(n) \cup m.revoked  BY <3>3, Zenon
          <6> QED  BY <4>1, <4>3, <5>1, <5>2, <6>1, Zenon DEF Fits, Revoked
        <5>3. CASE conn'[c] = Gone(c)
          <6>1. conn'[c].state = "gone"  BY <4>1, <5>3, SMTT(30) DEF Gone, Conn
          <6> QED  BY <6>1 DEF Fits
        <5> QED  BY <2>2, <4>3, <5>2, <5>3, Zenon DEF Shaking
      <4>4. CASE conn[c].state \in {"none", "gone"}
        <5>1. conn'[c].state \in {"none", "gone"}
          BY <2>2, <4>1, <4>4, Zenon DEF Gone, Conn, Shaking
        <5> QED  BY <5>1, Zenon DEF Fits
      <4>5. conn[c].state \in {"none", "accepted", "hello", "verified", "up", "gone"}
        BY <4>1, Zenon DEF Conn
      <4> QED  BY <4>2, <4>3, <4>4, <4>5, Zenon DEF Shaking
    <3> QED  BY <3>4 DEF Pruned
  <2> QED  BY <1>2, <2>1, <2>2, Zenon DEF kore_tls_domain_crl
<1>3. CASE m.id = "cert" /\ kore_tls_domain_setup(m.dom, m.good) /\ UNCHANGED <<challenge, conn, worker>>
  BY <1>1, <1>3, SMTT(30)
<1>4. CASE /\ m.id = "set" /\ challenge' = [challenge EXCEPT ![m.dom] = "yes"]
           /\ IF ctx[m.dom] = 0 THEN kore_tls_domain_setup(m.dom, "yes") ELSE UNCHANGED <<ctx, tls_ctxs>>
           /\ UNCHANGED <<conn, worker>>
  BY <1>0, <1>1, <1>4
<1>5. CASE /\ m.id = "clear" /\ challenge' = [challenge EXCEPT ![m.dom] = "no"]
           /\ UNCHANGED <<ctx, tls_ctxs, conn, worker>>
  BY <1>0, <1>5, SMTT(30)
<1> QED
  BY <1>2, <1>3, <1>4, <1>5, Zenon DEF worker_keymgr_response, m

\* A connection that becomes r, while the stores stay.
LEMMA SetPrunes ==
    ASSUME TlsInv, Pruned, NEW c \in Conns, NEW r, Fits(r), Set(c, r), UNCHANGED <<ctx, tls_ctxs>>
    PROVE  Pruned'
<1>1. \A d \in Conns : conn'[d] = IF d = c THEN r ELSE conn[d]
  BY DEF TlsInv, Set
<1>2. \A d \in Conns : Fits(conn'[d])
  BY <1>1, SMTT(30) DEF Pruned
<1> QED  BY <1>2, Zenon DEF Pruned, Fits, Revoked

\* The hello puts a connection on the context of a domain.
LEMMA HelloPrunes ==
    ASSUME TlsInv, Pruned, NEW c \in Conns, NEW name \in Domains \cup {"none"},
           NEW alpn \in {"yes", "no"}, NEW order \in {"sni first", "alpn first"}, Hello(c, name, alpn, order)
    PROVE  Pruned'
<1> DEFINE start == [conn[c] EXCEPT !.state = "hello", !.on = ctx[Primary],
                                    !.wanted = IF Primary \in Cafile THEN "yes" ELSE "no"]
           named(r) == IF name = "none" THEN r ELSE tls_sni_cb(r, name)
           asked(r) == IF alpn = "yes" THEN tls_acme_alpn(r) ELSE r
           met == IF order = "sni first" THEN asked(named(start)) ELSE named(asked(start))
           r == IF met.proto = "acme" THEN [met EXCEPT !.wanted = "no"] ELSE met
           \* what the callbacks leave alone, and the context that they choose
           On(q) == /\ DOMAIN q = DOMAIN start /\ q.state = "hello" /\ q.cert = NoCert
                    /\ \E n \in Domains : ctx[n] # 0 /\ q.on = ctx[n]
<1>1. conn[c] \in Conn /\ conn[c].state = "accepted" /\ ctx[Primary] # 0 /\ conn[c].cert = NoCert
  BY Zenon DEF Hello, TlsInv, Pruned, Fits
<1>2. Set(c, r) /\ UNCHANGED <<ctx, tls_ctxs>>
  BY Zenon DEF Hello, Elsewhere
<1>3. On(start) /\ DOMAIN start = {"state", "on", "sni", "alpn", "proto", "cert", "wanted", "shown", "active", "passed"}
  BY <1>1, TlsNames, Zenon DEF Conn
<1> HIDE DEF start
<1>4. ASSUME NEW q, On(q), NEW d  PROVE On(tls_acme_challenge_set_cert(q, d))
  BY <1>3, <1>4, Zenon DEF tls_acme_challenge_set_cert
<1>5. ASSUME NEW q, On(q)  PROVE On(named(q))
  <2>1. CASE name \in Domains /\ ctx[name] # 0 /\ name # "none"
    <3> DEFINE s == [q EXCEPT !.on = ctx[name], !.sni = "yes", !.active = challenge[name],
                              !.wanted = IF name \in Cafile THEN "yes" ELSE "no"]
    <3>1. On(s)
      BY <1>3, <1>5, <2>1, Zenon
    <3>2. named(q) = IF q.alpn = "yes" THEN tls_acme_challenge_set_cert(s, name) ELSE s
      BY <2>1, Zenon DEF tls_sni_cb
    <3> HIDE DEF s, On, named
    <3> QED  BY <1>4, <3>1, <3>2, Zenon
  <2>2. CASE named(q) = q
    BY <1>5, <2>2, Zenon
  <2> QED  BY <2>1, <2>2, Zenon DEF tls_sni_cb
<1>6. ASSUME NEW q, On(q)  PROVE On(asked(q))
  <2> DEFINE s == [q EXCEPT !.alpn = "yes"]
  <2>1. On(s)
    BY <1>3, <1>6, Zenon
  <2>2. asked(q) = q \/ asked(q) = s \/ asked(q) = tls_acme_challenge_set_cert(s, tls_ctxs[q.on].dom)
    BY Zenon DEF tls_acme_alpn
  <2> HIDE DEF s, On, asked
  <2> QED  BY <1>4, <1>6, <2>1, <2>2, Zenon
<1>7. On(met)
  <2> HIDE DEF On, asked, named
  <2> QED  BY <1>3, <1>5, <1>6, Zenon
<1> HIDE DEF met
<1>8. On(r)
  BY <1>3, <1>7, Zenon
<1>9. Fits(r)
  <2>1. PICK n \in Domains : ctx[n] # 0 /\ r.on = ctx[n] /\ r.state = "hello" /\ r.cert = NoCert
    BY <1>8, Zenon
  <2>2. tls_ctxs[r.on].dom = n
    BY <2>1, Zenon DEF TlsInv, Contexts
  <2> HIDE DEF r
  <2> QED  BY <2>1, <2>2, Zenon DEF Fits, Revoked
<1> HIDE DEF r
<1> QED  BY <1>2, <1>9, SetPrunes, Zenon

\* Verified against the store of its context, a certificate is none that the
\* domain revokes.
LEMMA ConnectionPrunes ==
    ASSUME TlsInv, Pruned, NEW c \in Conns,
           \/ kore_connection_accept(c) \/ NotComplete(c) \/ HandshakeDone(c) \/ Upgrade(c)
           \/ kore_connection_disconnect(c) \/ \E cert \in Certs \cup {NoCert} : Verify(c, cert)
    PROVE  Pruned'
<1>1. conn[c] \in Conn /\ Sound(conn[c]) /\ Fits(conn[c])
  BY DEF TlsInv, Pruned
<1>2. Gone(c).state = "gone" /\ Fits(Gone(c))
  BY <1>1, Zenon DEF Gone, Conn, Fits
<1>3. CASE kore_connection_accept(c)
  <2> DEFINE r == [Fresh EXCEPT !.state = "accepted"]
  <2>1. Fits(r)  BY DEF Fresh, Fits
  <2>2. Set(c, r) /\ UNCHANGED <<ctx, tls_ctxs>>
    BY <1>3 DEF kore_connection_accept, Elsewhere
  <2> HIDE DEF r
  <2> QED  BY <2>1, <2>2, SetPrunes, Zenon
<1>4. CASE Set(c, Gone(c)) /\ Elsewhere
  BY <1>2, <1>4, SetPrunes, Zenon DEF Elsewhere
<1>5. ASSUME NEW cert \in Certs \cup {NoCert}, Verify(c, cert)  PROVE Pruned'
  <2> DEFINE r == [conn[c] EXCEPT !.state = "verified"]
             s == [conn[c] EXCEPT !.state = "verified", !.cert = cert]
  <2>0. conn[c].state = "hello"  BY <1>5, Zenon DEF Verify
  <2>1. CASE conn[c].wanted = "no"
    <3>1. Fits(r)
      <4>1. r.state = "verified" /\ r.cert = conn[c].cert /\ r.on = conn[c].on /\ r.passed = conn[c].passed
        BY <1>1 DEF Conn
      <4> HIDE DEF r
      <4> QED  BY <1>1, <2>0, <4>1, Zenon DEF Fits
    <3>2. Set(c, r) /\ UNCHANGED <<ctx, tls_ctxs>>
      BY <1>5, <2>1, Zenon DEF Verify, Elsewhere
    <3> HIDE DEF r
    <3> QED  BY <3>1, <3>2, SetPrunes, Zenon
  <2>2. CASE conn[c].wanted # "no" /\ cert # NoCert /\ cert \notin tls_ctxs[conn[c].on].revoked
    <3>1. Fits(s)
      <4>1. s.state = "verified" /\ s.cert = cert /\ s.on = conn[c].on /\ s.passed = conn[c].passed
        BY <1>1, SMTT(30) DEF Conn
      <4> HIDE DEF s
      <4> QED  BY <1>1, <2>0, <2>2, <4>1, Zenon DEF Fits
    <3>2. Set(c, s) /\ UNCHANGED <<ctx, tls_ctxs>>
      BY <1>5, <2>2, Zenon DEF Verify, Elsewhere
    <3> HIDE DEF s
    <3> QED  BY <3>1, <3>2, SetPrunes
  <2> QED  BY <1>4, <1>5, <2>1, <2>2, Zenon DEF Verify
<1>6. CASE HandshakeDone(c)
  <2> DEFINE r == [conn[c] EXCEPT !.state = "up", !.proto = "http"]
  <2>0. conn[c].state = "verified"  BY <1>6 DEF HandshakeDone
  <2>1. CASE conn[c].proto # "acme"
    <3>1. Fits(r)
      <4>1. r.state = "up" /\ r.cert = conn[c].cert /\ r.on = conn[c].on /\ r.passed = conn[c].passed
        BY <1>1 DEF Conn
      <4> HIDE DEF r
      <4> QED  BY <1>1, <2>0, <4>1, Zenon DEF Fits
    <3>2. Set(c, r) /\ UNCHANGED <<ctx, tls_ctxs>>
      BY <1>6, <2>1, Zenon DEF HandshakeDone, Elsewhere
    <3> HIDE DEF r
    <3> QED  BY <3>1, <3>2, SetPrunes, Zenon
  <2> QED  BY <1>4, <1>6, <2>1, Zenon DEF HandshakeDone
<1>7. CASE Upgrade(c)
  <2> DEFINE r == [conn[c] EXCEPT !.proto = "websocket"]
  <2>1. Fits(r)
    <3>1. r.state = "up" /\ r.proto = "websocket" /\ r.on = conn[c].on /\ conn[c].state = "up"
      BY <1>1, <1>7, Zenon DEF Conn, Upgrade
    <3> HIDE DEF r
    <3> QED  BY <1>1, <3>1, Zenon DEF Fits
  <2>2. Set(c, r) /\ UNCHANGED <<ctx, tls_ctxs>>
    BY <1>7 DEF Upgrade, Elsewhere
  <2> HIDE DEF r
  <2> QED  BY <2>1, <2>2, SetPrunes
<1> QED
  BY <1>3, <1>4, <1>5, <1>6, <1>7, Zenon DEF NotComplete, kore_connection_disconnect

\* Every step of Tls keeps what the stores and connections say of revocation.
LEMMA PrunedInductive == ASSUME TlsInv, Pruned, [TlsNext]_tlsVars PROVE Pruned'
<1>1. CASE UNCHANGED <<ctx, tls_ctxs, conn>>
  BY <1>1, Zenon DEF Pruned, Fits, Revoked
<1>2. ASSUME NEW d, NEW cert, Revoke(d, cert) PROVE Pruned'
  BY <1>1, <1>2, SMTT(30) DEF Revoke
<1>3. ASSUME NEW d, Challenge(d) PROVE Pruned'
  BY <1>1, <1>3 DEF Challenge
<1>4. CASE keymgr_reload
  BY <1>1, <1>4 DEF keymgr_reload
<1>5. CASE UNCHANGED tlsVars
  BY <1>1, <1>5 DEF tlsVars
<1>6. ASSUME NEW c \in Conns,
             \/ kore_connection_accept(c) \/ NotComplete(c) \/ HandshakeDone(c) \/ Upgrade(c)
             \/ kore_connection_disconnect(c) \/ \E cert \in Certs \cup {NoCert} : Verify(c, cert)
      PROVE  Pruned'
  BY <1>6, ConnectionPrunes
<1>7. ASSUME NEW c \in Conns, NEW name \in Domains \cup {"none"}, NEW alpn \in {"yes", "no"},
             NEW order \in {"sni first", "alpn first"}, Hello(c, name, alpn, order)
      PROVE  Pruned'
  BY <1>7, HelloPrunes, Zenon
<1>8. CASE worker_keymgr_response
  BY <1>8, MessagePrunes
<1> QED
  BY <1>2, <1>3, <1>4, <1>5, <1>6, <1>7, <1>8, Zenon DEF TlsNext

\* For any domains, connections and order of certificates, CRLs, challenges
\* and callbacks: a client of a domain that asks for certificates is up only
\* with one (tls_domain_x509_verify), none is up over HTTP with one that the
\* CRL of its domain revokes, unless the CRL came during its handshake
\* (kore_tls_domain_crl), and the challenge certificate goes to the clients
\* that ask for acme-tls/1 and name a domain with a challenge, and to nobody
\* who becomes an HTTP connection.
THEOREM HandshakesSound == TlsSpec => []PeersVerified
<1>1. TlsInit => TlsInv /\ Pruned
  <2>1. TlsInit => Pruned
    BY DEF TlsInit, Pruned, Fits, Fresh
  <2> QED  BY <2>1, TlsInitial, SMTT(30)
<1>2. TlsInv /\ Pruned /\ [TlsNext]_tlsVars => (TlsInv /\ Pruned)'
  BY TlsInductive, PrunedInductive
<1>3. TlsInv /\ Pruned => PeersVerified
  <2>1. TlsInv => ClientKnown /\ ChallengeShown
    BY SMTT(30) DEF TlsInv, Sound, Greeted, Shows, Checked, ClientKnown, ChallengeShown, Conn, YesNo
  <2>2. TlsInv /\ Pruned => RevokedPruned
    BY Zenon DEF TlsInv, Pruned, Fits, RevokedPruned, Authenticated, Conn, YesNo
  <2> QED  BY <2>1, <2>2, SMTT(30) DEF PeersVerified
<1> QED
  BY <1>1, <1>2, <1>3, PTL DEF TlsSpec
=============================================================================
