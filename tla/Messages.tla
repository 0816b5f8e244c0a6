------------------------------ MODULE Messages ------------------------------
(***************************************************************************)
(* Messages between the worker processes (src/msg.c).  Each worker has a   *)
(* socket pair to the parent.  The parent relays what it reads to the      *)
(* connections in conncache, an array that only grows.  The connections    *)
(* come from a pool (src/pool.c) whose free list is last in, first out.    *)
(* When a worker dies, the parent reads what is left in its pipe, drops    *)
(* the connection, starts a new process and adds a connection for it.      *)
(***************************************************************************)
EXTENDS Integers, Sequences, FiniteSets

CONSTANTS
    Workers,      \* worker identifiers
    PoolSize,     \* number of elements in connection_pool
    MaxSends,     \* bound: number of messages sent
    MaxRestarts   \* bound: number of crashes

\* The parent has taken a connection for every worker: connection_pool grows
\* until it has enough elements.
ASSUME MessageBounds ==
    /\ IsFiniteSet(Workers) /\ "none" \notin Workers /\ "all" \notin Workers
    /\ PoolSize \in Nat /\ Cardinality(Workers) <= PoolSize
    /\ MaxSends \in Nat /\ MaxRestarts \in Nat

VARIABLES
    freelist,   \* connection_pool's free list, the next to be handed out first
    owner,      \* hdlr_extra of each connection: a worker or "none" (NULL)
    msg0,       \* kw->msg[0]: the connection of each worker
    conncache,  \* the parent's array of connections
    up, down,   \* the two directions of each worker's socket pair
    alive,      \* the workers whose process runs
    log,        \* history: the messages each worker's callbacks were given
    sent,       \* number of messages sent so far
    restarts    \* number of crashes so far

poolVars == <<freelist, owner, msg0, conncache>>
messagesVars == <<poolVars, up, down, alive, log, sent, restarts>>

Elements == 1 .. PoolSize
Dst == Workers \cup {"all"}

\* A message: its number in order of sending, who sent it, whom it was sent
\* to, and the dst field the receiver sees.
Message == [num : 1 .. MaxSends, src : Workers, to : Dst, dst : Dst]

MessagesTypeOK ==
    /\ freelist \in Seq(Elements) /\ conncache \in Seq(Elements)
    /\ owner \in [Elements -> Workers \cup {"none"}]
    /\ msg0 \in [Workers -> Elements]
    /\ up \in [Workers -> Seq(Message)] /\ down \in [Workers -> Seq(Message)]
    /\ log \in [Workers -> Seq(Message)]
    /\ alive \subseteq Workers
    /\ sent \in 0 .. MaxSends /\ restarts \in 0 .. MaxRestarts

\* kore_msg_parent_init has added every worker, in some order.
MessagesInit ==
    /\ msg0 \in [Workers -> 1 .. Cardinality(Workers)]
    /\ \A v, w \in Workers : msg0[v] = msg0[w] => v = w
    /\ owner = [e \in Elements |->
                  IF e > Cardinality(Workers) THEN "none"
                  ELSE CHOOSE w \in Workers : msg0[w] = e]
    /\ conncache = [i \in 1 .. Cardinality(Workers) |-> i]
    /\ freelist = [i \in 1 .. PoolSize - Cardinality(Workers) |->
                     Cardinality(Workers) + i]
    /\ up = [w \in Workers |-> << >>] /\ down = [w \in Workers |-> << >>]
    /\ log = [w \in Workers |-> << >>]
    /\ alive = Workers /\ sent = 0 /\ restarts = 0
-----------------------------------------------------------------------------
\* kore_msg_send in a worker.
Send(w, to) ==
    /\ w \in alive /\ sent < MaxSends
    /\ sent' = sent + 1
    /\ up' = [up EXCEPT ![w] =
                Append(@, [num |-> sent', src |-> w, to |-> to, dst |-> to])]
    /\ UNCHANGED <<poolVars, down, alive, log, restarts>>

\* msg_recv_data in the parent goes through conncache: the connections message
\* m is copied to.  destination is read before msg->dst is written.
\* Wrong variant: the rewritten msg->dst is what decides.
TargetsRewritten(m) ==
    {i \in DOMAIN conncache :
        /\ owner[conncache[i]] # "none"
        /\ m.to \in {"all", owner[conncache[i]]}
        /\ \A j \in 1 .. i - 1 : owner[conncache[j]] \in {"none", owner[conncache[i]]}}

Targets(m) ==
    {i \in DOMAIN conncache :
        /\ owner[conncache[i]] # "none"
        /\ m.to \in {"all", owner[conncache[i]]}}

\* What the relaying of m puts in the pipe of worker w: one copy for each of
\* its entries.  The pipe of a process that is gone is never read.
Copies(m, w) ==
    IF w \notin alive THEN << >>
    ELSE [i \in 1 .. Cardinality({k \in Targets(m) : owner[conncache[k]] = w})
            |-> [m EXCEPT !.dst = w]]

Relay(w) ==
    /\ up[w] # << >>
    /\ up' = [up EXCEPT ![w] = Tail(@)]
    /\ down' = [v \in Workers |-> down[v] \o Copies(Head(up[w]), v)]
    /\ UNCHANGED <<poolVars, alive, log, sent, restarts>>

\* msg_recv_data in a worker: the callback is given the message.
Receive(w) ==
    /\ w \in alive /\ down[w] # << >>
    /\ down' = [down EXCEPT ![w] = Tail(@)]
    /\ log' = [log EXCEPT ![w] = Append(@, Head(down[w]))]
    /\ UNCHANGED <<poolVars, up, alive, sent, restarts>>

Crash(w) ==
    /\ w \in alive /\ restarts < MaxRestarts
    /\ restarts' = restarts + 1
    /\ alive' = alive \ {w}
    /\ down' = [down EXCEPT ![w] = << >>]
    /\ log' = [log EXCEPT ![w] = << >>]
    /\ UNCHANGED <<poolVars, up, sent>>

\* kore_msg_parent_remove: the disconnect callback sets hdlr_extra to NULL and
\* the element goes to the head of the free list.
\* kore_msg_parent_add takes an element and appends it to conncache.
\* Wrong variant: the element stays on the free list.
ReaddShared(w) ==
    /\ freelist' = <<msg0[w]>> \o freelist
    /\ conncache' = Append(conncache, msg0[w])
    /\ UNCHANGED <<msg0, owner>>

Readd(w) ==
    LET avail == <<msg0[w]>> \o freelist
    IN  /\ freelist' = Tail(avail)
        /\ msg0' = [msg0 EXCEPT ![w] = Head(avail)]
        /\ owner' = [owner EXCEPT ![msg0[w]] = "none", ![Head(avail)] = w]
        /\ conncache' = Append(conncache, Head(avail))

\* worker_reaper, once net_recv_flush has relayed what was left in the pipe.
Restart(w) ==
    /\ w \notin alive /\ up[w] = << >>
    /\ Readd(w)
    /\ alive' = alive \cup {w}
    /\ UNCHANGED <<up, down, log, sent, restarts>>
-----------------------------------------------------------------------------
MessagesNext == \E w \in Workers :
            \/ \E to \in Dst : Send(w, to)
            \/ Relay(w) \/ Receive(w) \/ Crash(w) \/ Restart(w)

MessagesSpec == MessagesInit /\ [][MessagesNext]_messagesVars

\* Every process goes on reading its pipes, and the parent reaps.
MessagesFairSpec == MessagesSpec /\ \A w \in Workers : /\ WF_messagesVars(Relay(w)) /\ WF_messagesVars(Receive(w))
                                       /\ WF_messagesVars(Restart(w))
-----------------------------------------------------------------------------
\* A worker never stops with "received message for incorrect worker": what is
\* in its pipe names it and was meant for it.
RightWorker ==
    \A w \in Workers : \A i \in DOMAIN down[w] :
        down[w][i].dst = w /\ down[w][i].to \in {"all", w}

\* A worker that runs can be reached: its connection is in conncache, is in
\* use, and no element of the pool is handed out twice.
Reachable ==
    /\ \A w \in alive : owner[msg0[w]] = w
                        /\ \E i \in DOMAIN conncache : conncache[i] = msg0[w]
    /\ \A v, w \in Workers : msg0[v] = msg0[w] => v = w
    /\ \A i \in DOMAIN freelist : owner[freelist[i]] = "none"

\* Messages of one sender reach a worker in the order they were sent, across
\* restarts of either.
InOrder ==
    \A w \in Workers : \A i, j \in DOMAIN log[w] :
        i < j /\ log[w][i].src = log[w][j].src => log[w][i].num <= log[w][j].num

\* A message is given to a worker at most once, plus once for every restart so
\* far: each leaves one more entry for the same connection in conncache.
CopiesBounded ==
    \A w \in Workers : \A n \in 1 .. MaxSends :
        Cardinality({i \in DOMAIN log[w] : log[w][i].num = n}) <= 1 + restarts

\* What a worker gets through the parent (msg_recv_data) was meant for it, in
\* the order of its sender and no more often than restarts explain, whichever
\* workers crash and are restarted, and it can be reached as long as it runs.
TrafficSound == RightWorker /\ Reachable /\ InOrder /\ CopiesBounded

OnItsWay(w, n) ==
    /\ w \in alive
    /\ \E v \in Workers : \E i \in DOMAIN up[v] : up[v][i].num = n /\ up[v][i].to \in {"all", w}
Arrived(w, n) == w \notin alive \/ \E i \in DOMAIN log[w] : log[w][i].num = n

\* A message sent to a worker is received by it, unless it crashes.
Delivered == \A w \in Workers : \A n \in 1 .. MaxSends : OnItsWay(w, n) ~> Arrived(w, n)
=============================================================================
