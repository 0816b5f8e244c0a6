------------------------------ MODULE Dispatch ------------------------------
(***************************************************************************)
(* How a worker dispatches one request (src/http.c, src/domain.c,          *)
(* src/route.c, src/auth.c, src/validator.c, src/module.c): from the       *)
(* received headers to a domain, a redirect or a route, the hooks of the   *)
(* route, its authentication, its handler with the arguments it may see,   *)
(* and the answer; while a SIGHUP may replace the module that holds the    *)
(* functions.                                                              *)
(***************************************************************************)
EXTENDS Integers, Sequences

CONSTANTS
    Sites,       \* what server->domains may be
    Requests,    \* requests that a client may send
    Arguments,   \* arguments that it may give with them
    Peers,       \* what the TLS handshake may have found: [sni, cert]
    Chunks,      \* body: chunks that make up a body
    NULL,        \* no request, no route
    MaxCalls,    \* bound: functions called for the request
    MaxLoads     \* bound: reloads of the module

\* A list (TAILQ), whatever its entries are.
Listed(s) == Len(s) \in Nat /\ DOMAIN s = 1 .. Len(s)

ASSUME DispatchAssumption ==
    /\ Chunks \in Nat /\ MaxCalls \in Nat /\ MaxLoads \in Nat
    /\ NULL \notin Requests /\ \A p \in Peers : p.cert \in {"yes", "no"}
    /\ \A site \in Sites : Listed(site) /\ \A i \in DOMAIN site :
          /\ Listed(site[i].redirects) /\ Listed(site[i].routes)
          /\ \A j \in DOMAIN site[i].routes : site[i].routes[j] # NULL

VARIABLES
    domains,     \* server->domains: sequence of [hosts, cafile, redirects, routes]
    peer,        \* c->tls_sni, or "none", and c->tls_cert: "yes" or "no"
    msg,         \* what the client sent, or NULL
    req,         \* "none", "body", "complete", "delete", "freed"
    rt,          \* req->rt
    left,        \* chunks of the body that are still to come
    authed,      \* HTTP_REQUEST_AUTHED: "yes" or "no"
    arguments,   \* req->arguments
    task,        \* a task of the request is unfinished: "yes" or "no"
    gone,        \* the connection was closed: "yes" or "no"
    answers,     \* history: statuses sent
    calls,       \* history: functions called, [fn, at, now]: resolved at, version loaded
    loaded,      \* version of the module that is loaded
    rcalls,      \* version that the handlers (rt->rcall) point into
    vcalls       \* version that the validators (val->rcall) point into

dispatchVars == <<domains, peer, msg, req, rt, left, authed, arguments, task, gone, answers, calls,
                  loaded, rcalls, vcalls>>
code == <<loaded, rcalls, vcalls>>

\* What s has at the first of the places hits; NULL is the empty set.
FirstOf(s, hits) == {s[i] : i \in {j \in hits : \A k \in hits : j <= k}}

DispatchTypeOK ==
    /\ domains \in Sites /\ peer \in Peers /\ msg \in Requests \cup {NULL}
    /\ req \in {"none", "body", "complete", "delete", "freed"}
    /\ rt = NULL \/ \E i \in DOMAIN domains : \E j \in DOMAIN domains[i].routes : rt = domains[i].routes[j]
    /\ left \in 0 .. Chunks /\ authed \in {"yes", "no"} /\ arguments \subseteq Arguments
    /\ task \in {"yes", "no"} /\ gone \in {"yes", "no"}
    /\ Len(answers) \in 0 .. 2 /\ Len(calls) \in 0 .. MaxCalls + 2
    /\ loaded \in 0 .. MaxLoads /\ rcalls \in 0 .. loaded /\ vcalls \in 0 .. loaded

DispatchInit ==
    /\ domains \in Sites /\ peer \in Peers
    /\ msg = NULL /\ req = "none" /\ rt = NULL /\ left = 0 /\ authed = "no" /\ arguments = {}
    /\ task = "no" /\ gone = "no" /\ answers = << >> /\ calls = << >>
    /\ loaded = 0 /\ rcalls = 0 /\ vcalls = 0
-----------------------------------------------------------------------------
\* kore_domain_lookup: the first domain whose pattern matches the host.
kore_domain_lookup(host) ==
    FirstOf(domains, {i \in DOMAIN domains : host \in domains[i].hosts})

\* kore_route_lookup: the first route for the path that allows the method.
kore_route_lookup(dom, path, method) ==
    FirstOf(dom.routes, {i \in DOMAIN dom.routes :
        path \in dom.routes[i].paths /\ method \in dom.routes[i].methods})

\* Its result when there is none is 0 unless a route has the path.
exists(dom, path) == \E i \in DOMAIN dom.routes : path \in dom.routes[i].paths

\* http_check_redirect: the first redirect (or return) whose expression matches
\* the path.
http_check_redirect(dom, path) ==
    FirstOf(dom.redirects, {i \in DOMAIN dom.redirects : path \in dom.redirects[i].paths})

RoutesOf(m) == UNION {kore_route_lookup(d, m.path, m.method) : d \in kore_domain_lookup(m.host)}
RedirectsOf(m) == UNION {http_check_redirect(d, m.path) : d \in kore_domain_lookup(m.host)}

ExpectBody(method) == method \in {"delete", "post", "put", "patch"}
KnownMethod(method) == ExpectBody(method) \/ method \in {"get", "head", "options"}

\* A check and the status it answers with: {} when it passes.  Of several the
\* first that fails decides.
Check(fails, status) == IF fails THEN {status} ELSE {}
Pass(checks) == \A i \in DOMAIN checks : checks[i] = {}
Fails(checks, i, status) == status \in checks[i] /\ \A j \in 1 .. i - 1 : checks[j] = {}

\* http_request_new: the checks in their order, and a redirect before what
\* the routes say.
Redirect == 11
http_request_new(m) ==
    LET dom == kore_domain_lookup(m.host)
    IN <<Check(m.form = "crowded", 503),
         Check(m.host = "toolong", 400),
         Check(m.path = "toolong", 414),
         Check(m.version \notin {"1.0", "1.1"}, 505),
         Check(m.form = "bracket", 400),
         Check(peer.sni # "none" /\ peer.sni # m.host, 421),
         Check(dom = {}, 404),
         Check(\E d \in dom : d.cafile = "yes" /\ peer.cert = "no", 403),
         Check(~ KnownMethod(m.method), 400),
         Check(m.version = "1.0" /\ m.method \notin {"get", "post", "head"}, 405),
         {r.status : r \in RedirectsOf(m)},
         Check(\A d \in dom : ~ exists(d, m.path), 404),
         Check(RoutesOf(m) = {}, 405)>>

\* http_header_recv, the headers after the request line and the host, and the
\* length of a body that is expected; BodyMax 0 is the method not allowed.
HeaderChecks(m) ==
    <<Check(m.form = "header", 400),
      Check(ExpectBody(m.method) /\ m.length = "nobody", 405),
      Check(ExpectBody(m.method) /\ m.length = "none" /\ m.method # "delete", 411),
      Check(ExpectBody(m.method) /\ m.length = "large", 413)>>

\* These complete the request at once, and the on_headers hook is left out.
EmptyBody(m) == ExpectBody(m.method) /\ m.length \in {"none", "zero"}
-----------------------------------------------------------------------------
\* kore_runtime_http_request, kore_runtime_http_body_chunk,
\* kore_runtime_validator: a function of the module is called.
Called(fn, at) == [fn |-> fn, at |-> at, now |-> loaded]
Hook(route, fn) == IF fn \in route.hooks THEN <<Called(fn, 0)>> ELSE << >>

\* http_request_new refuses: no request is left, but the on_free hook of a
\* route that was found before the redirect is called.
Refused(status) == answers' = Append(answers, status) /\ req' = "freed" /\ UNCHANGED <<rt, left>>
RefusedBy(m, i, status) ==
    /\ Fails(http_request_new(m), i, status) /\ Refused(status)
    /\ calls' = IF i = Redirect /\ \E r \in RoutesOf(m) : "on_free" \in r.hooks
                THEN Append(calls, Called("on_free", 0)) ELSE calls

\* http_body_update with the bytes that came with the headers, even none:
\* the on_body_chunk hook sees them before the on_headers hook is called.
\* A hook or a write that fails is answered here and once more by
\* http_header_recv.  The file for a large body may not be had.
BodyWithHeaders(route, n) ==
    LET chunk == Hook(route, "on_body_chunk") IN
    \/ /\ left' = Chunks - n
       /\ calls' = calls \o (chunk \o Hook(route, "on_headers"))
       /\ \/ req' = (IF n = Chunks THEN "complete" ELSE "body")
          \/ "on_headers" \in route.hooks /\ req' = "delete"
       /\ UNCHANGED answers
    \/ /\ calls' = calls \o chunk /\ req' = "delete" /\ left' = Chunks
       /\ answers' = answers \o <<500, 500>>
    \/ /\ "on_body_chunk" \notin route.hooks /\ req' = "delete" /\ left' = Chunks
       /\ answers' = Append(answers, 500) /\ UNCHANGED calls

\* The rest of http_header_recv, for a request that was made.
HeadersDone(m, route) ==
    \/ \E i \in DOMAIN HeaderChecks(m) : \E status \in HeaderChecks(m)[i] :
          /\ Fails(HeaderChecks(m), i, status) /\ req' = "delete"
          /\ answers' = Append(answers, status) /\ UNCHANGED <<left, calls>>
    \/ /\ Pass(HeaderChecks(m)) /\ EmptyBody(m) /\ req' = "complete"
       /\ UNCHANGED <<left, calls, answers>>
    \/ /\ Pass(HeaderChecks(m)) /\ ExpectBody(m.method) /\ ~ EmptyBody(m)
       /\ \E n \in 0 .. Chunks : BodyWithHeaders(route, n)
    \/ /\ Pass(HeaderChecks(m)) /\ ~ ExpectBody(m.method)
       /\ calls' = calls \o Hook(route, "on_headers")
       /\ \/ req' = "complete"
          \/ "on_headers" \in route.hooks /\ req' = "delete"
       /\ UNCHANGED <<left, answers>>

\* http_header_recv with a whole set of headers.
http_header_recv(m) ==
    /\ msg = NULL /\ gone = "no" /\ msg' = m
    /\ \/ m.form = "line" /\ Refused(400) /\ UNCHANGED calls
       \/ /\ m.form # "line"
          /\ \E i \in DOMAIN http_request_new(m) : \E status \in http_request_new(m)[i] : RefusedBy(m, i, status)
       \/ /\ m.form # "line" /\ Pass(http_request_new(m))
          /\ \E route \in RoutesOf(m) : rt' = route /\ HeadersDone(m, route)
    /\ UNCHANGED <<domains, peer, authed, arguments, task, gone, code>>

\* http_body_recv: http_body_update with the next chunk.  When it fails the
\* connection is closed.
http_body_recv ==
    /\ req = "body" /\ gone = "no" /\ Len(calls) < MaxCalls
    /\ calls' = calls \o Hook(rt, "on_body_chunk")
    /\ \/ /\ left' = left - 1 /\ req' = (IF left = 1 THEN "complete" ELSE "body")
          /\ UNCHANGED <<gone, answers>>
       \/ /\ req' = "delete" /\ gone' = "yes" /\ answers' = Append(answers, 500)
          /\ UNCHANGED left
    /\ UNCHANGED <<domains, peer, msg, rt, authed, arguments, task, code>>
-----------------------------------------------------------------------------
\* kore_auth_run, where it refuses: without a type nothing is answered; the
\* cookie or the header may be missing, or its validator refuses it; a
\* validator of type "request" answers by itself, or does not.
kore_auth_run ==
    LET validated == Append(calls, Called("validator", vcalls))
        refusal == IF rt.redirect = "yes" THEN 302 ELSE 403
    IN \/ rt.auth = "untyped" /\ UNCHANGED <<calls, answers>>
       \/ /\ rt.auth \in {"cookie", "header"} /\ calls' \in {calls, validated}
          /\ answers' = Append(answers, refusal)
       \/ /\ rt.auth = "request" /\ calls' = validated
          /\ answers' \in {answers, Append(answers, 401)}

NeedsAuth == rt.auth # "none" /\ authed = "no"

\* kore_validator_check: what the expression or the function says; one that
\* is a coroutine answers KORE_RESULT_RETRY, which is taken for a yes.
python_runtime_validator(p) == p.async = "yes"
kore_validator_check(a, p) == a.valid = "yes" \/ python_runtime_validator(p)

\* http_argument_add, for each argument: the first parameter of the route
\* with its name, place and method decides.
http_argument_add(a) ==
    /\ a.decodes = "yes"
    /\ \E p \in FirstOf(rt.params, {i \in DOMAIN rt.params :
                 /\ rt.params[i].name = a.name /\ rt.params[i].qs = a.qs
                 /\ rt.params[i].method = msg.method}) : kore_validator_check(a, p)

\* http_populate_qs for any method, http_populate_post and
\* http_populate_multipart_form for POST only.
Populate(given) ==
    {a \in given : http_argument_add(a) /\ (a.qs = "yes" \/ msg.method = "post")}

\* http_process_request, authentication refused.
Forbidden ==
    /\ req = "complete" /\ NeedsAuth /\ Len(calls) < MaxCalls
    /\ kore_auth_run /\ req' = "delete"
    /\ UNCHANGED <<domains, peer, msg, rt, left, authed, arguments, task, gone, code>>

\* Authentication is not decided yet: KORE_RESULT_RETRY.
AuthRetry ==
    /\ req = "complete" /\ NeedsAuth /\ rt.auth # "untyped" /\ Len(calls) < MaxCalls
    /\ calls' = Append(calls, Called("validator", vcalls))
    /\ UNCHANGED <<domains, peer, msg, req, rt, left, authed, arguments, task, gone, answers, code>>

\* The rest of http_process_request: the handler runs, after authentication
\* let it; its result answers, closes the connection or asks to be called
\* again.  The handler may start a task, and looks at the arguments.
\* Wrong variant: authentication is asked for but its result not looked at.
ProcessUnasked(given) ==
    /\ req = "complete" /\ Len(calls) < MaxCalls
    /\ calls' = Append(calls, Called("handler", rcalls))
    /\ authed' = authed /\ arguments' = arguments \cup Populate(given)
    /\ req' = "delete" /\ answers' = Append(answers, 200) /\ UNCHANGED <<gone, task>>
    /\ UNCHANGED <<domains, peer, msg, rt, left, code>>

http_process_request(given) ==
    /\ req = "complete" /\ Len(calls) < MaxCalls
    /\ NeedsAuth => rt.auth # "untyped"
    /\ calls' = calls \o (IF NeedsAuth THEN <<Called("validator", vcalls), Called("handler", rcalls)>>
                         ELSE <<Called("handler", rcalls)>>)
    /\ authed' = IF NeedsAuth THEN "yes" ELSE authed
    /\ arguments' = arguments \cup Populate(given)
    /\ \/ req' = "delete" /\ answers' = Append(answers, 200) /\ UNCHANGED <<gone, task>>
       \/ req' = "delete" /\ gone' = "yes" /\ UNCHANGED <<answers, task>>
       \/ UNCHANGED <<req, answers, gone>> /\ task' \in {task, "yes"}
    /\ UNCHANGED <<domains, peer, msg, rt, left, code>>

\* http_request_free, from http_process: the on_free hook is called first,
\* and a task that has not finished keeps the request, to be freed again.
http_request_free ==
    /\ req = "delete" /\ Len(calls) < MaxCalls + 2
    /\ calls' = calls \o Hook(rt, "on_free")
    /\ req' = IF task = "yes" THEN "delete" ELSE "freed"
    /\ UNCHANGED <<domains, peer, msg, rt, left, authed, arguments, task, gone, answers, code>>

TaskDone ==
    /\ task = "yes" /\ task' = "no"
    /\ UNCHANGED <<domains, peer, msg, req, rt, left, authed, arguments, gone, answers, calls, code>>

\* The client leaves: kore_connection_remove marks its requests.
Leave ==
    /\ gone = "no" /\ req \in {"body", "complete"} /\ gone' = "yes" /\ req' = "delete"
    /\ UNCHANGED <<domains, peer, msg, rt, left, authed, arguments, task, answers, calls, code>>

\* kore_module_reload: a new version, unless the file is not there or the
\* module refuses; then kore_route_reload and kore_validator_reload look the
\* functions up again.  The hooks of the routes are not looked up again.
kore_module_reload ==
    /\ loaded < MaxLoads
    /\ loaded' \in {loaded, loaded + 1} /\ rcalls' = loaded' /\ vcalls' = loaded'
    /\ UNCHANGED <<domains, peer, msg, req, rt, left, authed, arguments, task, gone, answers, calls>>

DispatchNext ==
    \/ \E m \in Requests : http_header_recv(m)
    \/ \E given \in SUBSET Arguments : http_process_request(given)
    \/ http_body_recv \/ Forbidden \/ AuthRetry \/ http_request_free
    \/ TaskDone \/ Leave \/ kore_module_reload

DispatchSpec == DispatchInit /\ [][DispatchNext]_dispatchVars
-----------------------------------------------------------------------------
Ran(fn) == {i \in DOMAIN calls : calls[i].fn = fn}

\* Domain n of the server is the first for the host of the request.
ForHost(n) == msg.host \in domains[n].hosts /\ \A k \in 1 .. n - 1 : msg.host \notin domains[k].hosts

\* The request belongs to its route: the domain is the first for the host,
\* agrees with the TLS server name and has its client certificate; none of its
\* redirects takes the path; the route is the first for path and method.
Belongs ==
    /\ peer.sni \in {"none", msg.host}
    /\ \E n \in DOMAIN domains : LET d == domains[n] IN
          /\ ForHost(n) /\ (d.cafile = "yes" => peer.cert = "yes")
          /\ \A i \in DOMAIN d.redirects : msg.path \notin d.redirects[i].paths
          /\ \E i \in DOMAIN d.routes :
                /\ rt = d.routes[i] /\ msg.path \in rt.paths /\ msg.method \in rt.methods
                /\ \A j \in 1 .. i - 1 :
                      msg.path \notin d.routes[j].paths \/ msg.method \notin d.routes[j].methods

\* The handler of a route runs only for a request that belongs to it, whose
\* body is there, and after a validator was asked when the route authenticates:
\* what http_request_new, http_header_recv, kore_auth_run and
\* http_process_request see to together.
HandlerAllowed ==
    Ran("handler") # {} =>
        /\ Belongs /\ left = 0
        /\ rt.auth # "none" => \A h \in Ran("handler") : \E v \in Ran("validator") : v < h

\* The hooks of a route bracket the request.  on_headers runs before the
\* handler, unless the body is empty, and at most once; no call follows
\* on_free but another on_free, which a task that was pending causes; and a
\* request that was freed had its on_free when its route has one.
HooksBracket ==
    /\ \A i, j \in Ran("on_headers") : i = j
    /\ \A h \in Ran("handler") : "on_headers" \in rt.hooks /\ ~ EmptyBody(msg)
                                 => \E i \in Ran("on_headers") : i < h
    /\ \A f \in Ran("on_free") : \A i \in f + 1 .. Len(calls) : i \in Ran("on_free")
    /\ req = "freed" /\ rt # NULL /\ "on_free" \in rt.hooks => Ran("on_free") # {}

\* Every handler and validator is called in the version of the module that is
\* loaded, whenever the reload came.
CallsFresh == \A i \in Ran("handler") \cup Ran("validator") : calls[i].at = calls[i].now

\* A redirect, or a return, of the domain for the host takes the path and
\* answers with the status.
Redirected(status) ==
    \E n \in DOMAIN domains : /\ ForHost(n)
                              /\ \E i \in DOMAIN domains[n].redirects :
                                    /\ msg.path \in domains[n].redirects[i].paths
                                    /\ domains[n].redirects[i].status = status

\* A status says what it means: 404 is a host or a path that nothing serves,
\* 405 a path that is served but not so, the status of a redirect a redirect;
\* and a request is answered at most once, but for a body that failed as it
\* came with the headers.
StatusMeans ==
    /\ Len(answers) <= 1 \/ answers = <<500, 500>>
    /\ answers = <<404>> =>
          \/ Redirected(404)
          \/ \A n \in DOMAIN domains : ForHost(n) =>
                \A i \in DOMAIN domains[n].routes : msg.path \notin domains[n].routes[i].paths
    /\ answers = <<405>> =>
          \/ Redirected(405) \/ msg.version = "1.0" \/ msg.length = "nobody"
          \/ \A n \in DOMAIN domains : ForHost(n) =>
                /\ \E i \in DOMAIN domains[n].routes : msg.path \in domains[n].routes[i].paths
                /\ \A i \in DOMAIN domains[n].routes : \/ msg.path \notin domains[n].routes[i].paths
                                                       \/ msg.method \notin domains[n].routes[i].methods
    /\ \A status \in {301, 303, 307, 308} : answers = <<status>> => Redirected(status)

\* A handler sees no argument that its route does not declare for the method
\* and the place the argument came from, nor one whose validator said no.
ArgumentsDeclared ==
    \A a \in arguments : \E i \in DOMAIN rt.params : LET p == rt.params[i] IN
        /\ p.name = a.name /\ p.qs = a.qs /\ p.method = msg.method
        /\ a.decodes = "yes" /\ (a.valid = "yes" \/ p.async = "yes")

\* What a worker does with a request is what the configuration says.
DispatchSound == HandlerAllowed /\ HooksBracket /\ CallsFresh /\ StatusMeans /\ ArgumentsDeclared
=============================================================================
