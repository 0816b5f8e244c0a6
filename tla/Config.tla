------------------------------- MODULE Config -------------------------------
(***************************************************************************)
(* How the parent builds its servers, domains, routes, validators and      *)
(* authentication blocks before it starts: from the lines of a             *)
(* configuration file (src/config.c), with the context that a "}" closes,  *)
(* or from calls of the Python application (src/python.c), whose routes    *)
(* are installed at the end.                                               *)
(***************************************************************************)
EXTENDS Integers, Sequences, FiniteSets

CONSTANTS
    Modes,      \* where the configuration comes from: "python", or a file; bounds, a
                \* file of "hosts" has no routes, one of "routes" one of each, one of
                \* "extras" neither, but redirects, hooks, logs and file maps
    Names,      \* names of domains
    Paths,      \* paths of routes
    Methods,    \* request methods
    MaxServers, MaxDoms, MaxRoutes  \* bounds: how many of each

VARIABLES
    mode,       \* one of Modes
    servers,    \* kore_servers, oldest first: the tls of each
    doms,       \* the domains, by id
    routes,     \* the routes, in the order of their creation
    auths,      \* auth_list: what each has, of {"type", "validator"}
    validators, \* number of validators
    privsep, server, dom, route, auth,  \* current_*: an index, or 0 for NULL
    primary_dom,\* an index of doms, or 0
    pyroutes,   \* routes of the Python application, not yet installed
    outcome,    \* "reading", "resolving" (the Python routes), "fatal", "crash", "accepted", or "no domain"
    late        \* history: tls was given for a server that had a domain

configVars == <<mode, servers, doms, routes, auths, validators, privsep, server, dom, route, auth,
          primary_dom, pyroutes, outcome, late>>
tables == <<servers, doms, routes, auths, validators, primary_dom, pyroutes, late>>
contexts == <<privsep, server, dom, route, auth>>

Hooks == {"on_headers", "on_body_chunk", "on_free"}
Extras == {"redirect", "return", "filemap", "accesslog"}
Domain == [name : Names, server : 0 .. MaxServers, certs : SUBSET {"certfile", "certkey"},
           acme : {"yes", "no"}, extras : SUBSET Extras]
Route == [dom : 1 .. MaxDoms, path : Paths, methods : SUBSET Methods, params : SUBSET Methods,
          rcall : {"NULL", "set"}, auth : {"none", "named", "own"}, hooks : SUBSET Hooks]
PyRoute == [name : Names \union {"none"}, path : Paths, methods : SUBSET Methods]

ConfigTypeOK ==
    /\ mode \in Modes /\ servers \in Seq({"yes", "no"}) /\ doms \in Seq(Domain)
    /\ routes \in Seq(Route) /\ auths \in Seq(SUBSET {"type", "validator"}) /\ validators \in 0 .. 1
    /\ privsep \in 0 .. 1 /\ server \in 0 .. Len(servers) /\ dom \in 0 .. Len(doms)
    /\ route \in 0 .. Len(routes) /\ auth \in 0 .. Len(auths) /\ primary_dom \in 0 .. Len(doms)
    /\ pyroutes \in Seq(PyRoute)
    /\ outcome \in {"reading", "resolving", "fatal", "crash", "accepted", "no domain"}
    /\ late \in {"yes", "no"}

ConfigInit ==
    /\ mode \in Modes
    /\ servers = << >> /\ doms = << >> /\ routes = << >> /\ auths = << >> /\ validators = 0
    /\ privsep = 0 /\ server = 0 /\ dom = 0 /\ route = 0 /\ auth = 0 /\ primary_dom = 0
    /\ pyroutes = << >> /\ outcome = "reading" /\ late = "no"

Stops(how) == outcome' = how /\ UNCHANGED tables /\ UNCHANGED contexts
Line(m) ==
    /\ mode \in (IF m = "file" THEN {"hosts", "routes", "extras"} ELSE {m})
    /\ outcome = "reading" /\ UNCHANGED mode
Room(table, max) == Len(table) < (IF mode \in {"routes", "extras"} THEN 1 ELSE max)
Goes == UNCHANGED outcome

\* kore_domain_new: the domain, and the primary one.
New(name, srv, certs, acme) ==
    [name |-> name, server |-> srv, certs |-> certs, acme |-> acme, extras |-> {}]
kore_domain_new == IF primary_dom = 0 THEN Len(doms) + 1 ELSE primary_dom

\* kore_domain_attach.
Taken(s, name) == \E d \in DOMAIN doms : doms[d].server = s /\ doms[d].name = name
kore_domain_attach(d, s, was) == IF servers[s] = "no" /\ was = d THEN 0 ELSE was
-----------------------------------------------------------------------------
\* The lines that open a context, each with "{" at its end.
configure_privsep ==
    /\ Line("file") /\ mode = "hosts"
    /\ IF privsep # 0 THEN Stops("fatal")
       ELSE privsep' = 1 /\ Goes /\ UNCHANGED <<tables, server, dom, route, auth>>

configure_server ==
    /\ Line("file") /\ Room(servers, MaxServers)
    /\ IF server # 0 THEN Stops("fatal")
       ELSE /\ servers' = Append(servers, "yes") /\ server' = Len(servers) + 1 /\ Goes
            /\ UNCHANGED <<doms, routes, auths, validators, primary_dom, pyroutes, late,
                           privsep, dom, route, auth>>

configure_domain(name) ==
    /\ Line("file") /\ Room(doms, MaxDoms)
    /\ IF dom # 0 THEN Stops("fatal")
       ELSE /\ doms' = Append(doms, New(name, 0, {}, "no")) /\ primary_dom' = kore_domain_new
            /\ dom' = Len(doms) + 1 /\ Goes
            /\ UNCHANGED <<servers, routes, auths, validators, pyroutes, late,
                           privsep, server, route, auth>>

configure_route(path) ==
    /\ Line("file") /\ mode \in {"routes", "extras"} /\ Room(routes, MaxRoutes)
    /\ IF dom = 0 \/ route # 0 THEN Stops("fatal")
       ELSE /\ routes' = Append(routes, [dom |-> dom, path |-> path, methods |-> Methods,
                                         params |-> {}, rcall |-> "NULL", auth |-> "none",
                                         hooks |-> {}])
            /\ route' = Len(routes) + 1 /\ Goes
            /\ UNCHANGED <<servers, doms, auths, validators, primary_dom, pyroutes, late,
                           privsep, server, dom, auth>>

configure_authentication ==
    /\ Line("file") /\ mode = "routes" /\ Room(auths, 1)
    /\ IF auth # 0 THEN Stops("fatal")
       ELSE /\ auths' = Append(auths, {}) /\ auth' = Len(auths) + 1 /\ Goes
            /\ UNCHANGED <<servers, doms, routes, validators, primary_dom, pyroutes, late,
                           privsep, server, dom, route>>

\* A "}": one context is closed, in this order, the domain's with a check.
Complete(d) ==
    /\ doms[d].server # 0
    /\ servers[doms[d].server] = "yes" =>
          doms[d].acme = "yes" \/ doms[d].certs = {"certfile", "certkey"}

Close ==
    /\ Line("file") /\ UNCHANGED tables
    /\ IF privsep # 0 THEN privsep' = 0 /\ Goes /\ UNCHANGED <<server, dom, route, auth>>
       ELSE IF server # 0 THEN server' = 0 /\ Goes /\ UNCHANGED <<privsep, dom, route, auth>>
       ELSE IF route # 0 THEN route' = 0 /\ Goes /\ UNCHANGED <<privsep, server, dom, auth>>
       ELSE IF auth # 0
       THEN IF "validator" \in auths[auth]
            THEN auth' = 0 /\ Goes /\ UNCHANGED <<privsep, server, dom, route>>
            ELSE outcome' = "fatal" /\ UNCHANGED contexts
       ELSE IF dom # 0 /\ ~ Complete(dom) THEN outcome' = "fatal" /\ UNCHANGED contexts
       ELSE dom' = 0 /\ Goes /\ UNCHANGED <<privsep, server, route, auth>>
-----------------------------------------------------------------------------
\* The lines inside a context.
configure_tls(yesno) ==
    /\ Line("file")
    /\ IF server = 0 THEN Stops("fatal")
       ELSE /\ servers' = [servers EXCEPT ![server] = yesno] /\ Goes
            /\ late' = IF \E d \in DOMAIN doms : doms[d].server = server THEN "yes" ELSE late
            /\ UNCHANGED <<doms, routes, auths, validators, primary_dom, pyroutes, contexts>>

configure_attach(s) ==
    /\ Line("file")
    /\ IF dom = 0 \/ s \notin DOMAIN servers THEN Stops("fatal")
       ELSE IF doms[dom].server # 0 \/ Taken(s, doms[dom].name) THEN Stops("fatal")
       ELSE /\ doms' = [doms EXCEPT ![dom].server = s] /\ Goes
            /\ primary_dom' = kore_domain_attach(dom, s, primary_dom)
            /\ UNCHANGED <<servers, routes, auths, validators, pyroutes, late, contexts>>

\* configure_certfile and configure_certkey.
configure_certfile(which) ==
    /\ Line("file") /\ mode = "hosts"
    /\ IF dom = 0 THEN Stops("fatal")
       ELSE /\ doms' = [doms EXCEPT ![dom].certs = @ \union {which}] /\ Goes
            /\ UNCHANGED <<servers, routes, auths, validators, primary_dom, pyroutes, late,
                           contexts>>

configure_acme(yesno) ==
    /\ Line("file") /\ mode = "hosts"
    /\ IF dom = 0 THEN Stops("fatal")
       ELSE /\ doms' = [doms EXCEPT ![dom].acme = yesno,
                           ![dom].certs = IF yesno = "yes" THEN {"certfile", "certkey"} ELSE @]
            /\ Goes
            /\ UNCHANGED <<servers, routes, auths, validators, primary_dom, pyroutes, late,
                           contexts>>

\* configure_route_handler, _methods, _authenticate and configure_validate.
SetsRoute(to) ==
    /\ routes' = [routes EXCEPT ![route] = to] /\ Goes
    /\ UNCHANGED <<servers, doms, auths, validators, primary_dom, pyroutes, late, contexts>>

configure_route_handler ==
    /\ Line("file")
    /\ IF route = 0 THEN Stops("fatal") ELSE SetsRoute([routes[route] EXCEPT !.rcall = "set"])

configure_route_methods(ms) ==
    /\ Line("file")
    /\ IF route = 0 THEN Stops("fatal") ELSE SetsRoute([routes[route] EXCEPT !.methods = ms])

configure_route_authenticate ==
    /\ Line("file")
    /\ IF route = 0 \/ auths = << >> THEN Stops("fatal")
       ELSE SetsRoute([routes[route] EXCEPT !.auth = "named"])

configure_validate(m) ==
    /\ Line("file")
    /\ IF validators = 0 THEN Stops("fatal")
       ELSE IF route = 0 THEN Stops("crash")
       ELSE IF m \notin routes[route].methods THEN Stops("fatal")
       ELSE SetsRoute([routes[route] EXCEPT !.params = @ \union {m}])

\* configure_route_on_headers, _on_body_chunk and _on_free: the function may
\* not be there.
configure_route_on_headers(hook) ==
    /\ Line("file") /\ mode = "extras"
    /\ \/ Stops("fatal")
       \/ route # 0 /\ SetsRoute([routes[route] EXCEPT !.hooks = @ \union {hook}])

\* configure_redirect, configure_return, configure_filemap and
\* configure_accesslog: what they name may be refused, and a domain has one
\* access log.
configure_redirect(extra) ==
    /\ Line("file") /\ mode = "extras"
    /\ \/ Stops("fatal")
       \/ /\ dom # 0 /\ (extra = "accesslog" => extra \notin doms[dom].extras)
          /\ doms' = [doms EXCEPT ![dom].extras = @ \union {extra}] /\ Goes
          /\ UNCHANGED <<servers, routes, auths, validators, primary_dom, pyroutes, late,
                         contexts>>

configure_validator ==
    /\ Line("file") /\ mode # "extras" /\ validators = 0
    /\ \/ Stops("fatal")
       \/ /\ validators' = 1 /\ Goes
          /\ UNCHANGED <<servers, doms, routes, auths, primary_dom, pyroutes, late, contexts>>

configure_authentication_validator ==
    /\ Line("file")
    /\ IF auth = 0 \/ validators = 0 THEN Stops("fatal")
       ELSE /\ auths' = [auths EXCEPT ![auth] = @ \union {"validator"}] /\ Goes
            /\ UNCHANGED <<servers, doms, routes, validators, primary_dom, pyroutes, late,
                           contexts>>

configure_authentication_type ==
    /\ Line("file")
    /\ IF auth = 0 THEN Stops("fatal")
       ELSE /\ auths' = [auths EXCEPT ![auth] = @ \union {"type"}] /\ Goes
            /\ UNCHANGED <<servers, doms, routes, validators, primary_dom, pyroutes, late,
                           contexts>>
-----------------------------------------------------------------------------
\* The calls of a Python application; an exception ends the program.
python_kore_server(yesno) ==
    /\ Line("python") /\ Room(servers, MaxServers)
    /\ \/ Stops("fatal")
       \/ /\ servers' = Append(servers, yesno) /\ Goes
          /\ UNCHANGED <<doms, routes, auths, validators, primary_dom, pyroutes, late,
                         contexts>>

python_kore_domain(name, s) ==
    /\ Line("python") /\ Room(doms, MaxDoms)
    /\ IF s \notin DOMAIN servers THEN Stops("fatal")
       ELSE \/ (servers[s] = "yes" \/ Taken(s, name)) /\ Stops("fatal")
            \/ /\ ~ Taken(s, name)
               /\ \E acme \in IF servers[s] = "yes" THEN {"yes", "no"} ELSE {"no"} :
                     doms' = Append(doms, New(name, s,
                        IF servers[s] = "yes" THEN {"certfile", "certkey"} ELSE {}, acme))
               /\ primary_dom' = kore_domain_attach(Len(doms) + 1, s, kore_domain_new)
               /\ Goes
               /\ UNCHANGED <<servers, routes, auths, validators, pyroutes, late, contexts>>

\* kore.route() as a decorator, with its domain named or not, and
\* domain.route(): the route waits for kore_python_routes_resolve.
python_kore_route(name, path, ms) ==
    /\ Line("python") /\ Len(pyroutes) < MaxRoutes
    /\ pyroutes' = Append(pyroutes, [name |-> name, path |-> path, methods |-> ms]) /\ Goes
    /\ UNCHANGED <<servers, doms, routes, auths, validators, primary_dom, late, contexts>>

\* python_route_domain_resolve: the loop over the servers goes on after a
\* match, so that the last one, which is the oldest, decides.
python_route_domain_resolve(name) ==
    IF name # "none"
    THEN {d \in DOMAIN doms : doms[d].name = name /\ doms[d].server = 1}
    ELSE IF Len(doms) = 1 THEN {1} ELSE {}

\* python_route_methods: the methods that were listed, all of them when none
\* were, and HEAD with GET.
python_route_methods(listed) ==
    IF listed = {} THEN Methods
    ELSE listed \union (IF "get" \in listed THEN {"head"} \intersect Methods ELSE {})

\* python_route_params, called for each method that was listed: with the
\* dictionary of the method and with that of the query string.
python_route_params(listed, declared) ==
    IF "qs" \in declared THEN listed ELSE listed \intersect declared

\* What python_route_install makes of the route r on domain d.
Installed(r, d, declared, a, hooks) ==
    [dom |-> d, path |-> r.path, methods |-> python_route_methods(r.methods),
     params |-> python_route_params(r.methods, declared), rcall |-> "set", auth |-> a,
     hooks |-> hooks]
Duplicate(rt) ==
    \E i \in DOMAIN routes : /\ routes[i].dom = rt.dom /\ routes[i].path = rt.path
                             /\ routes[i].methods \intersect rt.methods # {}

\* kore_python_routes_resolve, one python_route_install at a time; what the
\* application gave for methods, parameters, authentication or hooks may be
\* refused, and ends the program as a duplicate does.
\* Wrong variant: the route is compared before its methods are known.
InstallDuplicate(declared, a, hooks) ==
    /\ mode = "python" /\ outcome = "resolving" /\ pyroutes # << >>
    /\ LET r == Head(pyroutes)
           found == python_route_domain_resolve(r.name)
       IN  IF found = {} THEN outcome' = "no domain" /\ UNCHANGED <<routes, pyroutes>>
           ELSE \E d \in found :
                IF Duplicate([dom |-> d, path |-> r.path, methods |-> r.methods])
                THEN outcome' = "fatal" /\ UNCHANGED <<routes, pyroutes>>
                ELSE /\ routes' = Append(routes, Installed(r, d, declared, a, hooks))
                     /\ pyroutes' = Tail(pyroutes) /\ Goes
    /\ UNCHANGED <<mode, servers, doms, auths, validators, primary_dom, late, contexts>>

python_route_install(declared, a, hooks) ==
    /\ mode = "python" /\ outcome = "resolving" /\ pyroutes # << >>
    /\ LET r == Head(pyroutes)
           found == python_route_domain_resolve(r.name)
       IN  IF found = {} THEN outcome' = "no domain" /\ UNCHANGED <<routes, pyroutes>>
           ELSE \E d \in found :
                LET rt == Installed(r, d, declared, a, hooks) IN
                \/ outcome' = "fatal" /\ UNCHANGED <<routes, pyroutes>>
                \/ /\ ~ Duplicate(rt) /\ routes' = Append(routes, rt)
                   /\ pyroutes' = Tail(pyroutes) /\ Goes
    /\ UNCHANGED <<mode, servers, doms, auths, validators, primary_dom, late, contexts>>

\* The end of the file or of the Python application, and of the resolving:
\* kore_parse_config does not look at the contexts that are still open, and
\* ends the program when no module was loaded.
EndOfFile ==
    /\ \/ outcome = "reading" /\ outcome' \in {"resolving", "fatal"}
       \/ outcome = "resolving" /\ pyroutes = << >> /\ outcome' = "accepted"
    /\ UNCHANGED <<mode, tables, contexts>>
-----------------------------------------------------------------------------
ConfigNext ==
    \/ configure_privsep \/ configure_server \/ configure_authentication \/ Close
    \/ \E n \in Names : configure_domain(n)
    \/ \E p \in Paths : configure_route(p)
    \/ \E yesno \in {"yes", "no"} :
          configure_tls(yesno) \/ configure_acme(yesno) \/ python_kore_server(yesno)
    \/ \E s \in 1 .. MaxServers : configure_attach(s)
    \/ \E which \in {"certfile", "certkey"} : configure_certfile(which)
    \/ configure_route_handler \/ configure_route_authenticate
    \/ \E ms \in SUBSET Methods \ {{}} : configure_route_methods(ms)
    \/ \E m \in Methods : configure_validate(m)
    \/ configure_validator \/ configure_authentication_validator \/ configure_authentication_type
    \/ \E n \in Names, s \in 1 .. MaxServers : python_kore_domain(n, s)
    \/ \E n \in Names \union {"none"}, p \in Paths, ms \in SUBSET Methods :
          python_kore_route(n, p, ms)
    \/ \E hook \in Hooks : configure_route_on_headers(hook)
    \/ \E extra \in Extras : configure_redirect(extra)
    \/ \E declared \in {{}, {"get"}, {"qs"}}, a \in {"none", "own"} :
          python_route_install(declared, a, IF a = "own" THEN Hooks ELSE {})
    \/ EndOfFile

ConfigSpec == ConfigInit /\ [][ConfigNext]_configVars
-----------------------------------------------------------------------------
Closed == dom = 0 /\ auth = 0 /\ server = 0 /\ route = 0 /\ privsep = 0

\* A configuration that is accepted with every context closed is complete:
\* every domain is on a server, which has no other of its name, with what TLS
\* needs there; an authentication block has its validator; and connections
\* that name no domain get a primary one that has TLS, unless a tls line came
\* after the attach.
ConfigComplete ==
    outcome = "accepted" /\ Closed =>
        /\ \A d \in DOMAIN doms : Complete(d)
        /\ \A d, e \in DOMAIN doms :
              d # e => doms[d].server # doms[e].server \/ doms[d].name # doms[e].name
        /\ \A a \in DOMAIN auths : "validator" \in auths[a]
        /\ primary_dom # 0 /\ late = "no" => servers[doms[primary_dom].server] = "yes"

\* Of the routes of a Python application at most one answers a method of a
\* path, whatever methods were listed, left out or added, and a route has
\* parameters only for methods that it answers.
RoutesApart ==
    mode = "python" =>
        /\ \A i \in DOMAIN routes : routes[i].params \subseteq routes[i].methods
        /\ \A i, j \in DOMAIN routes :
            i # j /\ routes[i].dom = routes[j].dom /\ routes[i].path = routes[j].path =>
                routes[i].methods \intersect routes[j].methods = {}
=============================================================================
