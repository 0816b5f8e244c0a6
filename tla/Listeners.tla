----------------------------- MODULE Listeners ------------------------------
(***************************************************************************)
(* The listening sockets of the parent and of the workers that inherit     *)
(* them (src/kore.c): how a server is set up from the configuration file   *)
(* or by a Python application, what is undone when a step of it fails, and *)
(* who removes the file of a UNIX socket as processes come and go.         *)
(***************************************************************************)
EXTENDS Integers, FiniteSets

CONSTANTS
    SocketPaths, \* UNIX sockets that have a file
    Abstract,    \* UNIX sockets whose name starts with "@": they have none
    Servers,     \* names of servers
    Forked,      \* processes that the parent forks
    Keymgrs,     \* the ones of them that run kore_keymgr_run
    MaxBinds     \* bound: sockets made

ASSUME PortApart == "port" \notin SocketPaths

VARIABLES
    listeners,   \* kore_servers of each process: listeners by name of the server
    fs,          \* the socket that the file of a path leads to, 0 for no file
    up,          \* of each process: "none", "up", "gone" (orderly) or "dead"; the parent
                 \* is "start" before it forks, a worker that outlived its parent "orphan"
    nsockets,    \* sockets made so far
    nlisteners,  \* nlisteners
    given        \* history: calls of kore_server_bind_unix with a path, since the start

listenersVars == <<listeners, fs, up, nsockets, nlisteners, given>>
Processes == {"parent"} \cup Forked
Hosts == SocketPaths \cup Abstract \cup {"port"}
none == [s \in {} |-> {}]
Listener(host, fd) == [host |-> host, fd |-> fd]

ListenersTypeOK ==
    /\ \A p \in Processes :
          /\ DOMAIN listeners[p] \subseteq Servers
          /\ \A s \in DOMAIN listeners[p] : listeners[p][s] \subseteq [host : Hosts, fd : -1 .. MaxBinds]
    /\ fs \in [SocketPaths -> 0 .. MaxBinds] /\ up \in [Processes -> {"none", "start", "up", "orphan", "gone", "dead"}]
    /\ nsockets \in 0 .. MaxBinds /\ nlisteners \in 0 .. MaxBinds /\ given \in [SocketPaths -> 0 .. MaxBinds]

ListenersInit ==
    /\ listeners = [p \in Processes |-> none] /\ fs = [q \in SocketPaths |-> 0]
    /\ up = [p \in Processes |-> IF p = "parent" THEN "start" ELSE "none"]
    /\ nsockets = 0 /\ nlisteners = 0 /\ given = [q \in SocketPaths |-> 0]

Configuring == up["parent"] = "start"
Running(p) == up[p] \in {"start", "up", "orphan"}

\* kore_listener_free of the listeners on hosts, in process p: the file goes
\* with the listener of the parent only.
kore_listener_free(p, hosts) ==
    [q \in SocketPaths |-> IF q \in hosts /\ p = "parent" THEN 0 ELSE fs[q]]

kore_server_lookup(s) == s \in DOMAIN listeners["parent"]
kore_server_create(s) == [n \in DOMAIN listeners["parent"] \cup {s} |->
                             IF n = s THEN {} ELSE listeners["parent"][n]]
-----------------------------------------------------------------------------
\* kore_listener_create, then kore_listener_init, bind and listen, any of
\* which may fail: kore_listener_free then, though nlisteners has counted it.
\* held are the listeners of the parent at the call.
kore_listener_create == nsockets < MaxBinds /\ nlisteners' = nlisteners + 1 /\ nsockets' = nsockets + 1
kore_listener_init(s, host, held, ok) ==
    IF ok THEN [held EXCEPT ![s] = @ \cup {Listener(host, nsockets + 1)}] ELSE held

kore_server_bind(s, held, ok) ==
    /\ kore_listener_create
    /\ listeners' = [listeners EXCEPT !["parent"] = kore_listener_init(s, "port", held, ok)]
    /\ UNCHANGED <<fs, given>>

\* kore_server_bind_unix: a file that is there is removed before bind makes
\* its own; a failure removes it as well, whoever made it.
kore_server_bind_unix(s, host, held, ok) ==
    /\ kore_listener_create
    /\ listeners' = [listeners EXCEPT !["parent"] = kore_listener_init(s, host, held, ok)]
    /\ given' = [q \in SocketPaths |-> IF q = host THEN given[q] + 1 ELSE given[q]]
    /\ fs' = IF ok THEN [q \in SocketPaths |-> IF q = host THEN nsockets + 1 ELSE fs[q]]
                   ELSE kore_listener_free("parent", {host})

Bind(s, host, held, ok) ==
    IF host = "port" THEN kore_server_bind(s, held, ok) ELSE kore_server_bind_unix(s, host, held, ok)

\* configure_bind and configure_bind_unix, in the context of a server that
\* configure_server has made or of the last one: a failure is fatal.
configure_bind(s, host, ok) ==
    /\ Configuring
    /\ Bind(s, host, IF kore_server_lookup(s) THEN listeners["parent"] ELSE kore_server_create(s), ok)
    /\ up' = IF ok THEN up ELSE [up EXCEPT !["parent"] = "dead"]

\* python_kore_server: the application may go on after a failure; a server
\* that could not be bound stays behind, without listeners.
python_kore_server_bind(s, host, ok) ==
    /\ Configuring /\ ~ kore_server_lookup(s)
    /\ Bind(s, host, kore_server_create(s), ok)
    /\ UNCHANGED up

\* kore_worker_spawn: the child has what the parent has.  The key manager
\* forgets the descriptors in kore_server_closeall.
kore_server_closeall(of) == [s \in DOMAIN of |-> {Listener(l.host, -1) : l \in of[s]}]

kore_worker_spawn(w) ==
    /\ Running("parent") /\ ~ Running(w) /\ up' = [up EXCEPT !["parent"] = "up", ![w] = "up"]
    /\ listeners' = [listeners EXCEPT ![w] =
          IF w \in Keymgrs THEN kore_server_closeall(listeners["parent"]) ELSE listeners["parent"]]
    /\ UNCHANGED <<fs, nsockets, nlisteners, given>>

\* kore_server_cleanup, as a worker or the parent ends: kore_server_free of
\* every server, and kore_listener_free of every listener.  The parent ends
\* after its workers.
OnHosts(p) == {l.host : l \in UNION {listeners[p][s] : s \in DOMAIN listeners[p]}}

kore_server_cleanup(p) ==
    /\ up[p] \in {"up", "orphan"} /\ p \notin Keymgrs
    /\ p = "parent" => \A w \in Forked : up[w] # "up"
    /\ up' = [up EXCEPT ![p] = "gone"]
    /\ fs' = kore_listener_free(p, OnHosts(p))
    /\ listeners' = [listeners EXCEPT ![p] = none]
    /\ UNCHANGED <<nsockets, nlisteners, given>>

\* A process is killed, or the key manager ends.
Killed(p) ==
    /\ Running(p) /\ up' = [up EXCEPT ![p] = "dead"]
    /\ listeners' = [listeners EXCEPT ![p] = none]
    /\ UNCHANGED <<fs, nsockets, nlisteners, given>>

\* kore is started again: main sets nlisteners and kore_servers.  Workers of
\* the parent that was killed may still be running.
Started ==
    /\ ~ Running("parent")
    /\ up' = [p \in Processes |-> IF p = "parent" THEN "start" ELSE IF up[p] = "up" THEN "orphan" ELSE up[p]]
    /\ listeners' = [listeners EXCEPT !["parent"] = none]
    /\ nlisteners' = 0 /\ given' = [q \in SocketPaths |-> 0]
    /\ UNCHANGED <<fs, nsockets>>

ListenersNext ==
    \/ \E s \in Servers, host \in Hosts, ok \in BOOLEAN :
          configure_bind(s, host, ok) \/ python_kore_server_bind(s, host, ok)
    \/ \E w \in Forked : kore_worker_spawn(w)
    \/ \E p \in Processes : kore_server_cleanup(p) \/ Killed(p)
    \/ Started

ListenersSpec == ListenersInit /\ [][ListenersNext]_listenersVars
-----------------------------------------------------------------------------
\* A UNIX socket that the parent listens on is reached by its file, whatever
\* workers end, are killed or are left over from a parent that was killed
\* (kore_listener_free looks at worker), unless the same path was given twice;
\* a parent that ends in order leaves no file of a path it was given.
SocketsReachable ==
    /\ \A s \in DOMAIN listeners["parent"] : \A l \in listeners["parent"][s] :
          l.host \in SocketPaths /\ given[l.host] = 1 => fs[l.host] = l.fd
    /\ up["parent"] = "gone" => \A q \in SocketPaths : given[q] > 0 => fs[q] = 0
=============================================================================
