---------------------------- MODULE KeyExchange -----------------------------
(***************************************************************************)
(* Private-key operations of the workers (src/tls_openssl.c) done by the   *)
(* key manager process (src/keymgr_openssl.c).  A worker sends a request   *)
(* and waits for a response, at most one second.  Neither carries a        *)
(* number: here num is a history value that says which request a response  *)
(* was made for.  Requests reach the key manager and responses the worker  *)
(* in order, each response Repeats times: msg.c relays it once per entry of *)
(* the worker in conncache (module Messages).                              *)
(***************************************************************************)
EXTENDS Integers, Sequences

CONSTANTS
    Askers,       \* worker processes
    Sizes,        \* RSA_size of the keys in use
    Repeats,      \* entries a worker has in conncache: 1 + its restarts
    MaxRequests,  \* bound: requests of a worker
    MaxTimeouts   \* bound: requests of a worker that are not answered in time

ASSUME KeyBounds == MaxRequests \in Nat /\ MaxTimeouts \in Nat

VARIABLES
    doing,     \* "idle" or "await" (in tls_keymgr_await_data)
    size,      \* RSA_size of the key of the current request
    asked,     \* number of the current or last request of each worker
    reqs,      \* requests on their way to the key manager
    wire,      \* copies of responses the parent has yet to write
    resps,     \* responses in each worker's pipe
    answer,    \* what tls_keymgr_rsa_privenc returned last (num 0: -1)
    overdue,   \* history: how many requests were given up after a second
    last       \* history: the highest number a request was answered with

keysVars == <<doing, size, asked, reqs, wire, resps, answer, overdue, last>>

Numbers == 1 .. MaxRequests
Higher(m, n) == IF m > n THEN m ELSE n
Request == [from : Askers, num : Numbers, size : Sizes]

KeysTypeOK ==
    /\ doing \in [Askers -> {"idle", "await"}]
    /\ size \in [Askers -> Sizes]
    /\ asked \in [Askers -> 0 .. MaxRequests]
    /\ reqs \in Seq(Request)
    /\ wire \in [Askers -> Seq(Request)] /\ resps \in [Askers -> Seq(Request)]
    /\ answer \in [Askers -> [num : 0 .. MaxRequests, size : Sizes]]
    /\ overdue \in [Askers -> 0 .. MaxTimeouts]
    /\ last \in [Askers -> 0 .. MaxRequests]

KeysInit ==
    /\ doing = [w \in Askers |-> "idle"]
    /\ size \in [Askers -> Sizes]
    /\ asked = [w \in Askers |-> 0]
    /\ reqs = << >>
    /\ wire = [w \in Askers |-> << >>] /\ resps = [w \in Askers |-> << >>]
    /\ answer = [w \in Askers |-> [num |-> 0, size |-> size[w]]]
    /\ overdue = [w \in Askers |-> 0]
    /\ last = [w \in Askers |-> 0]
-----------------------------------------------------------------------------
\* tls_keymgr_rsa_privenc sends the request; tls_keymgr_await_data clears
\* keymgr_response and waits.
Ask(w, s) ==
    /\ doing[w] = "idle" /\ asked[w] < MaxRequests
    /\ asked' = [asked EXCEPT ![w] = @ + 1]
    /\ size' = [size EXCEPT ![w] = s]
    /\ reqs' = Append(reqs, [from |-> w, num |-> asked'[w], size |-> s])
    /\ doing' = [doing EXCEPT ![w] = "await"]
    /\ answer' = [answer EXCEPT ![w] = [num |-> 0, size |-> s]]
    /\ UNCHANGED <<wire, resps, overdue, last>>

\* keymgr_msg_recv and keymgr_rsa_encrypt: no response when there is no such key or it fails.
Serve ==
    /\ reqs # << >>
    /\ reqs' = Tail(reqs)
    /\ LET r == Head(reqs)
       IN  \E n \in {0, Repeats} :
              wire' = [wire EXCEPT ![r.from] = @ \o [i \in 1 .. n |-> r]]
    /\ UNCHANGED <<doing, size, asked, resps, answer, overdue, last>>

\* msg_recv_data in the parent writes one copy to the worker's pipe.
RelayResponse(w) ==
    /\ wire[w] # << >>
    /\ wire' = [wire EXCEPT ![w] = Tail(@)]
    /\ resps' = [resps EXCEPT ![w] = Append(@, Head(wire[w]))]
    /\ UNCHANGED <<doing, size, asked, reqs, answer, overdue, last>>

Answer(w, r) == [num |-> IF r.size = size[w] THEN r.num ELSE 0, size |-> size[w]]

\* One net_recv_flush gives every response in the pipe to
\* tls_keymgr_msg_response: the last one stays in keymgr_buf.
\* Wrong variant: what was read is still there for the next request.
ObtainAgain(w) ==
    /\ doing[w] = "await" /\ resps[w] # << >>
    /\ answer' = [answer EXCEPT ![w] = Answer(w, resps[w][Len(resps[w])])]
    /\ doing' = [doing EXCEPT ![w] = "idle"]
    /\ last' = [last EXCEPT ![w] = Higher(@, answer'[w].num)]
    /\ UNCHANGED <<size, asked, reqs, wire, resps, overdue>>

Obtain(w) ==
    /\ doing[w] = "await" /\ resps[w] # << >>
    /\ resps' = [resps EXCEPT ![w] = << >>]
    /\ answer' = [answer EXCEPT ![w] = Answer(w, resps[w][Len(resps[w])])]
    /\ doing' = [doing EXCEPT ![w] = "idle"]
    /\ last' = [last EXCEPT ![w] = Higher(@, answer'[w].num)]
    /\ UNCHANGED <<size, asked, reqs, wire, overdue>>

\* The second is over, whatever is in the pipe.
Timeout(w) ==
    /\ doing[w] = "await" /\ overdue[w] < MaxTimeouts
    /\ overdue' = [overdue EXCEPT ![w] = @ + 1]
    /\ doing' = [doing EXCEPT ![w] = "idle"]
    /\ UNCHANGED <<size, asked, reqs, wire, resps, answer, last>>

\* The event loop reads the pipe while no request waits; the next await clears
\* keymgr_response.
Drain(w) ==
    /\ doing[w] = "idle" /\ resps[w] # << >>
    /\ resps' = [resps EXCEPT ![w] = << >>]
    /\ UNCHANGED <<doing, size, asked, reqs, wire, answer, overdue, last>>
-----------------------------------------------------------------------------
KeysNext ==
    \/ Serve
    \/ \E w \in Askers : \/ \E s \in Sizes : Ask(w, s)
                         \/ RelayResponse(w) \/ Obtain(w) \/ Timeout(w) \/ Drain(w)

KeysSpec == KeysInit /\ [][KeysNext]_keysVars
-----------------------------------------------------------------------------
\* With one entry in conncache, a result lags behind its request by no more
\* requests than were given up: a second that is over once shifts all later
\* answers by at most one; and no result is older than one used before.
LagBounded ==
    \A w \in Askers : answer[w].num # 0 =>
        /\ asked[w] - answer[w].num \in 0 .. overdue[w]
        /\ answer[w].num = last[w]
=============================================================================
