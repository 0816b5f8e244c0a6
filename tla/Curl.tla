-------------------------------- MODULE Curl --------------------------------
(***************************************************************************)
(* Asynchronous transfers through libcurl (src/curl.c): handles bound to   *)
(* sleeping requests, the descriptors that libcurl has watched, the list   *)
(* of runs that events leave behind, the timer it asks for, completion and *)
(* cleanup.  libcurl itself is external: a transfer may ask for another    *)
(* event, or end, whenever libcurl is called.                              *)
(***************************************************************************)
EXTENDS Integers, Sequences, FiniteSets

CONSTANTS
    Clients,    \* struct kore_curl, each with a request of its own
    SockFds,    \* descriptors: numbers, the lowest free one is taken
    MaxSteps    \* bound: calls in which libcurl changes what it waits for

ASSUME CurlBounds == SockFds \subseteq Nat \ {0} /\ MaxSteps \in Nat

VARIABLES
    client,     \* "none", "running", "finished" (message pending), "told", "clean"
    sock,       \* libcurl: the descriptor of each transfer, 0 when it has none
    cached,     \* fd_cache: the descriptors with scheduled = 1
    epoll,      \* the descriptors that epoll watches
    runlist,    \* the descriptors in runlist
    curlTimer,  \* "none" or "armed"
    immediate,  \* timeout_immediate: "yes" or "no"
    requester,  \* the request of each client: "awake", "asleep", "deleted", "over"
    stage,      \* "loop", "process" (before curl_process), "runs" (kore_curl_run_scheduled)
    steps,      \* history: changes so far
    told,       \* history: how often each client was told of its end
    fatal       \* history: epoll_ctl refused to remove a descriptor ("yes" or "no")

curlVars == <<client, sock, cached, epoll, runlist, curlTimer, immediate, requester, stage, steps,
              told, fatal>>

CurlTypeOK ==
    /\ client \in [Clients -> {"none", "running", "finished", "told", "clean"}]
    /\ sock \in [Clients -> SockFds \cup {0}] /\ cached \subseteq SockFds /\ epoll \subseteq SockFds
    /\ runlist \in Seq(SockFds) /\ curlTimer \in {"none", "armed"} /\ immediate \in {"yes", "no"}
    /\ stage \in {"loop", "process", "runs"}
    /\ requester \in [Clients -> {"awake", "asleep", "deleted", "over"}]
    /\ steps \in 0 .. MaxSteps /\ told \in [Clients -> Nat] /\ fatal \in {"yes", "no"}

\* kore_curl_sysinit.
CurlInit ==
    /\ client = [k \in Clients |-> "none"] /\ sock = [k \in Clients |-> 0]
    /\ cached = {} /\ epoll = {} /\ runlist = << >>
    /\ curlTimer = "none" /\ immediate = "no"
    /\ requester = [k \in Clients |-> "awake"] /\ stage = "loop"
    /\ steps = 0 /\ told = [k \in Clients |-> 0] /\ fatal = "no"

UsedFds == {sock[k] : k \in Clients} \ {0}
Transferring(k) == client[k] = "running"
-----------------------------------------------------------------------------
\* curl_timer, called by libcurl with the timeout it wants.
curl_timer(w) ==
    /\ immediate' = IF w = "now" THEN "yes" ELSE "no"
    /\ curlTimer' = IF w = "later" THEN "armed" ELSE "none"

\* curl_socket with CURL_POLL_IN, OUT or INOUT: registered anew, and run once.
curl_socket_poll(fd, runs) ==
    /\ fatal' = IF fd \in cached /\ fd \notin epoll THEN "yes" ELSE fatal
    /\ cached' = cached \cup {fd} /\ epoll' = epoll \cup {fd}
    /\ runlist' = Append(runs, fd)

\* curl_socket with CURL_POLL_REMOVE, after which libcurl closes the descriptor.
curl_socket_remove(fd, runs) ==
    /\ fatal' = IF fd \in cached /\ fd \notin epoll THEN "yes" ELSE fatal
    /\ cached' = cached \ {fd} /\ epoll' = epoll \ {fd}
    /\ runlist' = runs

\* The descriptor that a new socket gets.
LowestFree(fd) == fd \notin UsedFds /\ \A other \in SockFds \ UsedFds : fd <= other

\* curl_multi_socket_action on transfer k.  runs is what remains of runlist.
NothingNew(runs) ==
    /\ runlist' = runs
    /\ UNCHANGED <<client, sock, cached, epoll, steps, fatal>>
Watches(k, runs) ==
    /\ Transferring(k) /\ steps < MaxSteps /\ steps' = steps + 1
    /\ \E fd \in SockFds :
          /\ IF sock[k] # 0 THEN fd = sock[k] ELSE LowestFree(fd)
          /\ sock' = [sock EXCEPT ![k] = fd] /\ curl_socket_poll(fd, runs)
    /\ UNCHANGED client
TransferEnds(k, runs) ==
    /\ Transferring(k) /\ client' = [client EXCEPT ![k] = "finished"]
    /\ sock' = [sock EXCEPT ![k] = 0]
    /\ IF sock[k] # 0 THEN curl_socket_remove(sock[k], runs)
       ELSE runlist' = runs /\ UNCHANGED <<cached, epoll, fatal>>
    /\ UNCHANGED steps
curl_multi_socket_action(K, runs) ==
    \/ NothingNew(runs)
    \/ \E k \in K : Watches(k, runs) \/ TransferEnds(k, runs)

\* curl_process, at the end of which no message is pending.
curl_process(after) ==
    LET done == {k \in Clients : after[k] = "finished"}
    IN  /\ told' = [k \in Clients |-> IF k \in done THEN told[k] + 1 ELSE told[k]]
        /\ requester' = [k \in Clients |-> IF k \in done /\ requester[k] = "asleep" THEN "awake" ELSE requester[k]]
-----------------------------------------------------------------------------
\* A handler: kore_curl_init, kore_curl_bind_request, kore_curl_run; libcurl
\* asks to be called at once.
kore_curl_run(k) ==
    /\ stage = "loop" /\ client[k] = "none" /\ requester[k] = "awake"
    /\ client' = [client EXCEPT ![k] = "running"]
    /\ requester' = [requester EXCEPT ![k] = "asleep"]
    /\ curl_timer("now")
    /\ UNCHANGED <<sock, cached, epoll, runlist, stage, steps, told, fatal>>

\* curl_timeout, from kore_curl_do_timeout or from the timer: any transfer may
\* move, then libcurl says when it wants to be called again.  With nothing
\* running it is not called again.
curl_timeout ==
    /\ stage = "loop" /\ (immediate = "yes" \/ curlTimer = "armed")
    /\ \E K \in {{k} : k \in Clients} \cup {{}} : curl_multi_socket_action(K, runlist)
    /\ \E w \in {"none", "later"} :
          /\ (\E k \in Clients : client'[k] = "running") => w = "later"
          /\ curl_timer(w)
    /\ stage' = "process"
    /\ UNCHANGED <<requester, told>>

\* kore_platform_event_wait: curl_event_handle.
Event(fd) ==
    /\ stage = "loop" /\ fd \in epoll /\ Len(runlist) < Cardinality(SockFds)
    /\ runlist' = Append(runlist, fd)
    /\ UNCHANGED <<client, sock, cached, epoll, curlTimer, immediate, requester, stage, steps, told, fatal>>

\* kore_curl_run_scheduled begins, once the events have been taken.
kore_curl_run_scheduled ==
    /\ stage = "loop" /\ runlist # << >> /\ stage' = "runs"
    /\ UNCHANGED <<client, sock, cached, epoll, runlist, curlTimer, immediate, requester, steps, told, fatal>>

\* curl_run_handle for the first of runlist: its descriptor may have been
\* closed, or belong to another transfer by now.
curl_run_handle ==
    /\ stage = "runs" /\ runlist # << >>
    /\ curl_multi_socket_action({k \in Clients : sock[k] = Head(runlist)}, Tail(runlist))
    /\ UNCHANGED <<curlTimer, immediate, requester, stage, told>>

\* The end of kore_curl_run_scheduled and of curl_timeout: curl_process, in
\* which the handle of a client that was told is gone.
Process ==
    /\ stage = "process" \/ (stage = "runs" /\ runlist = << >>)
    /\ stage' = "loop"
    /\ curl_process(client)
    /\ client' = [k \in Clients |-> IF client[k] = "finished" THEN "told" ELSE client[k]]
    /\ UNCHANGED <<sock, cached, epoll, runlist, curlTimer, immediate, steps, fatal>>

\* The client of the server has gone.
RequestGone(k) ==
    /\ stage = "loop" /\ requester[k] = "asleep" /\ requester' = [requester EXCEPT ![k] = "deleted"]
    /\ UNCHANGED <<client, sock, cached, epoll, runlist, curlTimer, immediate, stage, steps, told, fatal>>

\* kore_curl_cleanup, by the handler or by http_request_free:
\* curl_multi_remove_handle forgets the transfer and its message.
kore_curl_cleanup(k) ==
    /\ stage = "loop" /\ requester[k] \in {"deleted", "awake"} /\ client[k] # "none" /\ client[k] # "clean"
    /\ client' = [client EXCEPT ![k] = "clean"] /\ requester' = [requester EXCEPT ![k] = "over"]
    /\ sock' = [sock EXCEPT ![k] = 0]
    /\ IF sock[k] # 0 THEN curl_socket_remove(sock[k], runlist)
       ELSE UNCHANGED <<cached, epoll, runlist, fatal>>
    /\ UNCHANGED <<curlTimer, immediate, stage, steps, told>>

CurlNext ==
    \/ \E k \in Clients : kore_curl_run(k) \/ RequestGone(k) \/ kore_curl_cleanup(k)
    \/ \E fd \in SockFds : Event(fd)
    \/ curl_timeout \/ kore_curl_run_scheduled \/ curl_run_handle \/ Process

CurlSpec == CurlInit /\ [][CurlNext]_curlVars
-----------------------------------------------------------------------------
\* The descriptors marked in the cache are those that epoll watches, and they
\* belong to transfers: epoll_ctl never refuses, which would end the worker.
WatchedAgree ==
    /\ fatal = "no" /\ cached = epoll
    /\ epoll \subseteq UsedFds

\* A client is told of the end of its transfer once, and not after its
\* cleanup; a sleeping request has a transfer that is going on, and a timeout
\* through which libcurl will be called for it.
ToldOnce ==
    \A k \in Clients :
        /\ told[k] = (IF client[k] = "told" THEN 1 ELSE IF client[k] = "clean" THEN told[k] ELSE 0)
        /\ told[k] <= 1
        /\ requester[k] = "over" => client[k] = "clean"
        /\ requester[k] = "asleep" => client[k] \in {"running", "finished"}
        /\ requester[k] = "asleep" /\ stage = "loop" => client[k] = "running" /\ (curlTimer = "armed" \/ immediate = "yes")
=============================================================================
