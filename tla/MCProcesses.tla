---------------------------- MODULE MCProcesses ----------------------------
(***************************************************************************)
(* The processes from the configuration to the shutdown, and what they do  *)
(* for a connection, for model checking in one run: nine parts that do not *)
(* touch each other's state.  turn says which part a behaviour is about.   *)
(* Lifecycle, the start-up, Tls and Dispatch are extended; the other       *)
(* parts, and two more settings of Lifecycle and Acme, are instances that  *)
(* use the same variables, under the names that their modules give them.   *)
(***************************************************************************)
EXTENDS Lifecycle, Startup, Tls, Dispatch

VARIABLES turn, v1, v2, v3, v4, v5, v6, v7, v8, v9, v10, v11, v12, v13, v14, v15, v16, v17

part == <<v1, v2, v3, v4, v5, v6, v7, v8, v9, v10, v11, v12, v13, v14, v15, v16, v17>>
all == <<turn, part, vars, configVars, listenersVars, tlsVars, dispatchVars>>

CONSTANT Forms

MCOrder == <<"p", "a">>

\* Two domains, one of which also stands for every other host, with routes
\* of the same path that differ in methods, authentication, hooks, parameters.
RouteOf(paths, methods, login, hooks, params) ==
    [paths |-> paths, methods |-> methods, auth |-> login, redirect |-> "no",
     hooks |-> hooks, params |-> params]
ParamOf(name, qs, method, async) == [name |-> name, qs |-> qs, method |-> method, async |-> async]
Plain ==
    [hosts |-> {"a"}, cafile |-> "no",
     redirects |-> <<[paths |-> {"/old"}, status |-> 301], [paths |-> {"/none"}, status |-> 404]>>,
     routes |-> <<RouteOf({"/"}, {"get"}, "none", Hooks, <<ParamOf("x", "yes", "get", "no")>>),
                  RouteOf({"/", "/old"}, {"get", "post", "delete"}, "cookie", {"on_free"},
                          <<ParamOf("x", "yes", "post", "no"), ParamOf("x", "no", "post", "yes")>>)>>]
Wild ==
    [hosts |-> {"a", "b"}, cafile |-> "yes", redirects |-> << >>,
     routes |-> <<RouteOf({"/"}, {"post"}, "request", Hooks, << >>),
                  RouteOf({"/"}, {"get"}, "untyped", {}, << >>),
                  RouteOf({"/old"}, {"get"}, "header", {}, << >>)>>]
MCSites == {<<Plain, Wild>>, <<Wild, Plain>>}
MCRequests ==
    {m \in [form : {"good", "line", "crowded", "bracket", "header"}, host : {"a", "b", "c", "toolong"},
            path : {"/", "/old", "/none", "toolong"}, version : {"1.1", "1.0", "2"},
            method : {"get", "post", "delete", "brew"},
            length : {"nobody", "none", "zero", "some", "large"}] :
        /\ m.form # "good" => m.host = "a" /\ m.path = "/" /\ m.length = "some"
        /\ m.version # "1.1" => m.host = "a" /\ m.path = "/"
        /\ m.length # "some" => m.path = "/" /\ m.method \in {"post", "delete"}}
MCArguments ==
    {[name |-> "x", qs |-> "yes", decodes |-> "yes", valid |-> "yes"],
     [name |-> "x", qs |-> "no", decodes |-> "yes", valid |-> "no"],
     [name |-> "x", qs |-> "yes", decodes |-> "no", valid |-> "yes"]}
MCPeers == {[sni |-> "none", cert |-> "no"], [sni |-> "a", cert |-> "yes"]}

\* Forms of two parts, with contents that look like a boundary or its start.
PartsOf ==
    [head : {"F", "U"}, content : {<< >>, <<"d">>, <<"-", "-">>, <<"r", "d">>}]
    \cup [head : {"E", "X"}, content : {<<"d">>, <<"r", "n">>}]
MCForms ==
    {<<p, q>> : p \in PartsOf,
                q \in {r \in PartsOf : r.content \in {<<"d">>, <<"-", "-">>} /\ r.head \in {"F", "U"}}}

C == INSTANCE Lifecycle WITH
         Workers <- {1, 2}, Keymgr <- 2, Timer <- "yes", Children <- "yes",
         Policies <- {"restart"}, MaxDeaths <- 1, MaxSignals <- 1, policy <- v1, parent <- v2,
         kore_quit <- v3, sig_recv <- v4, last_sig <- v5, proc <- v6, running <- v7, pid <- v8,
         ready <- v9, spawning <- v10, module <- v11, deaths <- v12, sent <- v13

Lo == INSTANCE AccessLog WITH
         Workers <- {1, 2}, Domains <- {"d"}, Lens <- {2, 4}, BUFLEN <- 9, SYNC <- 6, HDR <- 2,
         GUESS <- 2, LOGBUF_SIZE <- 10, DOMAIN_LOGBUF_LEN <- 6, TICKS <- 2, MaxEntries <- 2,
         MaxDeaths <- 1, wpc <- v1, cur <- v2, lock <- v3, buf <- v4, parent <- v5, at <- v6,
         force <- v7, ticks <- v8, logbuf <- v9, dbuf <- v10, file <- v11, quit <- v12,
         written <- v13, lost <- v14, spoiled <- v15, deaths <- v16

A == INSTANCE Acme WITH
         Auths <- {1, 2}, Lates <- {"no"},
         FaultsAt <- {"directory", "account", "nonce", "request"}, MaxFaults <- 1,
         MaxOrders <- 1, MaxDue <- 1, MaxReloads <- 1, MaxOps <- 2, late <- v1,
         acmeproc_ready <- v2, due <- v3, redo <- v4, cert <- v5, challenge <- v6,
         toKeymgr <- v7, toAcme <- v8, directory <- v9, account <- v10, order <- v11,
         signops <- v12, ca <- v13, made <- v14, faults <- v15, reloads <- v16, dropped <- v17

B == INSTANCE Acme WITH
         Auths <- {1}, Lates <- {"yes"},
         FaultsAt <- {"directory", "account", "nonce", "request"}, MaxFaults <- 0,
         MaxOrders <- 1, MaxDue <- 1, MaxReloads <- 0, MaxOps <- 2, late <- v1,
         acmeproc_ready <- v2, due <- v3, redo <- v4, cert <- v5, challenge <- v6,
         toKeymgr <- v7, toAcme <- v8, directory <- v9, account <- v10, order <- v11,
         signops <- v12, ca <- v13, made <- v14, faults <- v15, reloads <- v16, dropped <- v17

F == INSTANCE Body WITH
         Kinds <- {"memory", "disk"}, Forms <- Forms, Cuts <- {0, 3, 5}, DATA <- 4, MaxOps <- 3,
         sent <- v1, pos <- v2, length <- v3, offset <- v4, in <- v5, out <- v6, pc <- v7,
         todo <- v8, start <- v9, fields <- v10, files <- v11, split <- v12, sought <- v13,
         parsed <- v14, right <- v15, ops <- v16

-----------------------------------------------------------------------------
ProcessesInit ==
    /\ Init /\ ConfigInit /\ ListenersInit /\ TlsInit /\ DispatchInit
    /\ \/ /\ turn \in {"lifecycle", "config", "listeners", "tls", "dispatch"}
          /\ v1 = 0 /\ v2 = 0 /\ v3 = 0 /\ v4 = 0 /\ v5 = 0 /\ v6 = 0 /\ v7 = 0 /\ v8 = 0
          /\ v9 = 0 /\ v10 = 0 /\ v11 = 0 /\ v12 = 0 /\ v13 = 0 /\ v14 = 0 /\ v15 = 0 /\ v16 = 0
          /\ v17 = 0
       \/ /\ turn = "children" /\ C!Init
          /\ v14 = 0 /\ v15 = 0 /\ v16 = 0 /\ v17 = 0
       \/ /\ turn = "log" /\ Lo!Init
          /\ v17 = 0
       \/ /\ turn = "acme" /\ A!Init
       \/ /\ turn = "late" /\ B!Init
       \/ /\ turn = "body" /\ F!Init
          /\ v17 = 0
    /\ turn # "lifecycle" => policy = "restart"
    /\ turn # "config" => mode = "hosts"
    /\ turn # "dispatch" => domains = <<Plain, Wild>> /\ peer.cert = "no"

ProcessesNext ==
    /\ UNCHANGED turn
    /\ \/ /\ turn = "lifecycle" /\ Next
          /\ UNCHANGED <<part, configVars, listenersVars, tlsVars, dispatchVars>>
       \/ /\ turn = "config" /\ ConfigNext
          /\ UNCHANGED <<part, vars, listenersVars, tlsVars, dispatchVars>>
       \/ /\ turn = "listeners" /\ ListenersNext
          /\ UNCHANGED <<part, vars, configVars, tlsVars, dispatchVars>>
       \/ /\ turn = "tls" /\ TlsNext
          /\ UNCHANGED <<part, vars, configVars, listenersVars, dispatchVars>>
       \/ /\ turn = "dispatch" /\ DispatchNext
          /\ UNCHANGED <<part, vars, configVars, listenersVars, tlsVars>>
       \/ /\ UNCHANGED <<vars, configVars, listenersVars, tlsVars, dispatchVars>>
          /\ \/ turn = "children" /\ C!Next /\ UNCHANGED <<v14, v15, v16, v17>>
             \/ turn = "log" /\ Lo!Next /\ UNCHANGED <<v17>>
             \/ turn = "acme" /\ A!Next
             \/ turn = "late" /\ B!Next
             \/ turn = "body" /\ F!Next /\ UNCHANGED <<v17>>

ProcessesSpec == ProcessesInit /\ [][ProcessesNext]_all
-----------------------------------------------------------------------------
\* The type invariants of the modules.
TypesOK ==
    /\ turn = "lifecycle" => TypeOK
    /\ turn = "config" => ConfigTypeOK
    /\ turn = "listeners" => ListenersTypeOK
    /\ turn = "tls" => TlsTypeOK
    /\ turn = "dispatch" => DispatchTypeOK
    /\ turn = "children" => C!TypeOK
    /\ turn = "log" => Lo!TypeOK
    /\ turn = "acme" => A!TypeOK
    /\ turn = "late" => B!TypeOK
    /\ turn = "body" => F!TypeOK

\* AccessLog: entries are parsed as they were written, whatever the order of
\* the workers, the parent and the death of a worker, and the shared buffer is
\* only touched under its lock.
EntriesKept == turn = "log" => Lo!EntriesKept /\ Lo!LockHeldInside

\* Acme: a challenge is answered after its certificate is there, an order runs
\* with the challenges it uses, an operation is for an order that is still
\* there, and somebody works on a domain without a certificate.
OrdersFollowed ==
    /\ turn = "acme" => A!ChallengeFirst /\ A!ChallengesKnown /\ A!OpsLive /\ A!Followed
    /\ turn = "late" => B!ChallengeFirst /\ B!ChallengesKnown /\ B!OpsLive /\ B!Followed

\* Body: the parts of a form are found and read as they were sent, wherever
\* the reads cut the body.
FormParsed == turn = "body" => F!FormParsed /\ F!ReadsRight
=============================================================================
