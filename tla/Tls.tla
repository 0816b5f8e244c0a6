-------------------------------- MODULE Tls ---------------------------------
(***************************************************************************)
(* The TLS contexts of a worker's domains and the handshakes that use them *)
(* (src/tls_openssl.c, src/connection.c, src/worker.c): certificates, CRLs *)
(* and ACME challenges come as messages from the key manager               *)
(* (src/keymgr_openssl.c) between the steps of the handshakes.             *)
(***************************************************************************)
EXTENDS Integers, Sequences, FiniteSets

CONSTANTS
    Conns,       \* connections
    Domains,     \* domains of the server
    Order,       \* server->domains: the domains in their order
    Primary,     \* primary_dom
    Cafile,      \* domains that ask for a client certificate
    Certs,       \* client certificates
    NoCert,      \* c->tls_cert is NULL
    MaxReloads,  \* bound: reloads of the key manager
    MaxOrders    \* bound: messages about ACME challenges, set and cleared in turn

ASSUME TlsNames == Primary \in Domains

VARIABLES
    disk,        \* what dom->crlfile revokes, of each domain
    msgs,        \* messages of the key manager that the worker has not handled
    ctx,         \* dom->tls_ctx: 0 is NULL, else an index of tls_ctxs
    tls_ctxs,    \* contexts made so far: [dom, revoked]
    challenge,   \* dom->acme_challenge: "yes" or "no"
    conn,        \* the connections
    worker,      \* "up", or "crashed"
    reloads, orders

tlsVars == <<disk, msgs, ctx, tls_ctxs, challenge, conn, worker, reloads, orders>>

Fresh ==
    [state |-> "none", on |-> 0, sni |-> "no", alpn |-> "no", proto |-> "unknown",
     cert |-> NoCert, wanted |-> "no", shown |-> "domain", active |-> "no", passed |-> "no"]

TlsTypeOK ==
    /\ disk \in [Domains -> SUBSET Certs]
    /\ \A i \in DOMAIN msgs : msgs[i].id \in {"cert", "crl", "set", "clear"} /\ msgs[i].dom \in Domains
    /\ ctx \in [Domains -> 0 .. Len(tls_ctxs)]
    /\ \A i \in DOMAIN tls_ctxs : tls_ctxs[i].dom \in Domains /\ tls_ctxs[i].revoked \subseteq Certs
    /\ challenge \in [Domains -> {"yes", "no"}]
    /\ \A c \in Conns :
          /\ conn[c].state \in {"none", "accepted", "hello", "verified", "up", "gone"}
          /\ conn[c].on \in 0 .. Len(tls_ctxs) /\ conn[c].cert \in Certs \cup {NoCert}
          /\ conn[c].proto \in {"unknown", "http", "websocket", "acme"}
    /\ worker \in {"up", "crashed"} /\ reloads \in 0 .. MaxReloads /\ orders \in 0 .. MaxOrders

TlsInit ==
    /\ disk = [d \in Domains |-> {}] /\ msgs = << >>
    /\ ctx = [d \in Domains |-> 0] /\ tls_ctxs = << >> /\ challenge = [d \in Domains |-> "no"]
    /\ conn = [c \in Conns |-> Fresh] /\ worker = "up" /\ reloads = 0 /\ orders = 0

Shaking(c) == conn[c].state \in {"accepted", "hello", "verified"}   \* CONN_STATE_TLS_SHAKE
Gone(c) == [conn[c] EXCEPT !.state = "gone"]                         \* kore_connection_disconnect
-----------------------------------------------------------------------------
\* keymgr_submit_certificates for one domain: its certificate, and its CRL
\* when it asks for client certificates.  The bytes of a certificate may not
\* be one: good is "no".
keymgr_submit_certificates(d, good) ==
    <<[id |-> "cert", dom |-> d, good |-> good, revoked |-> {}]>>
    \o (IF d \in Cafile THEN <<[id |-> "crl", dom |-> d, good |-> "yes", revoked |-> disk[d]]>>
        ELSE << >>)

\* What that is for one domain after the other.
Submitted(good) ==
    LET sent[i \in 0 .. Len(Order)] ==
          IF i = 0 THEN << >> ELSE sent[i - 1] \o keymgr_submit_certificates(Order[i], good[i])
    IN  sent[Len(Order)]

\* keymgr_reload at the start, on SIGUSR1, and keymgr_certificate_request.
keymgr_reload ==
    /\ worker = "up" /\ reloads < MaxReloads /\ reloads' = reloads + 1
    /\ \E bad \in Domains \cup {"none"} :
          msgs' = msgs \o Submitted([i \in DOMAIN Order |-> IF Order[i] = bad THEN "no" ELSE "yes"])
    /\ UNCHANGED <<disk, ctx, tls_ctxs, challenge, conn, worker, orders>>

\* The operator revokes a certificate: dom->crlfile is written.
Revoke(d, cert) ==
    /\ reloads < MaxReloads /\ disk' = [disk EXCEPT ![d] = @ \cup {cert}]
    /\ UNCHANGED <<msgs, ctx, tls_ctxs, challenge, conn, worker, reloads, orders>>

\* keymgr_acme_challenge_cert sets a challenge, keymgr_acme_install_cert
\* clears one, of any domain with an order.
Challenge(d) ==
    /\ worker = "up" /\ orders < MaxOrders /\ orders' = orders + 1
    /\ msgs' = Append(msgs, [id |-> IF orders % 2 = 0 THEN "set" ELSE "clear", dom |-> d,
                             good |-> "yes", revoked |-> {}])
    /\ UNCHANGED <<disk, ctx, tls_ctxs, challenge, conn, worker, reloads>>
-----------------------------------------------------------------------------
\* kore_tls_domain_setup: a context of its own for the new certificate, with
\* an empty store; the handshakes that go on keep the one they have.  A
\* certificate that cannot be read leaves the domain without.
kore_tls_domain_setup(d, good) ==
    IF good = "no" THEN ctx' = [ctx EXCEPT ![d] = 0] /\ UNCHANGED tls_ctxs
    ELSE /\ tls_ctxs' = Append(tls_ctxs, [dom |-> d, revoked |-> {}])
         /\ ctx' = [ctx EXCEPT ![d] = Len(tls_ctxs) + 1]

\* kore_tls_domain_crl: the CRL goes to the store of the domain's context.
\* The connections whose certificate it revokes are closed, those of HTTP
\* only; one in its handshake has no protocol yet and is passed over.
kore_tls_domain_crl(d, revoked) ==
    IF ctx[d] = 0 THEN worker' = "crashed" /\ UNCHANGED <<tls_ctxs, conn>>
    ELSE /\ tls_ctxs' = [tls_ctxs EXCEPT ![ctx[d]].revoked = @ \cup revoked]
         /\ conn' = [c \in Conns |->
                IF conn[c].proto # "http"
                THEN IF Shaking(c) THEN [conn[c] EXCEPT !.passed = "yes"] ELSE conn[c]
                ELSE IF conn[c].state = "up" /\ conn[c].cert \in revoked THEN Gone(c) ELSE conn[c]]
         /\ UNCHANGED worker

\* worker_keymgr_response, for the message that comes next.
worker_keymgr_response ==
    /\ worker = "up" /\ msgs # << >> /\ msgs' = Tail(msgs)
    /\ LET m == Head(msgs) IN
       \/ /\ m.id = "cert" /\ kore_tls_domain_setup(m.dom, m.good)
          /\ UNCHANGED <<challenge, conn, worker>>
       \/ /\ m.id = "crl" /\ kore_tls_domain_crl(m.dom, m.revoked) /\ UNCHANGED <<challenge, ctx>>
       \/ /\ m.id = "set" /\ challenge' = [challenge EXCEPT ![m.dom] = "yes"]
          /\ IF ctx[m.dom] = 0 THEN kore_tls_domain_setup(m.dom, "yes") ELSE UNCHANGED <<ctx, tls_ctxs>>
          /\ UNCHANGED <<conn, worker>>
       \/ /\ m.id = "clear" /\ challenge' = [challenge EXCEPT ![m.dom] = "no"]
          /\ UNCHANGED <<ctx, tls_ctxs, conn, worker>>
    /\ UNCHANGED <<disk, reloads, orders>>
-----------------------------------------------------------------------------
Set(c, r) == conn' = [conn EXCEPT ![c] = r]
Elsewhere == UNCHANGED <<disk, msgs, ctx, tls_ctxs, challenge, worker, reloads, orders>>

\* kore_connection_accept on a TLS server.
kore_connection_accept(c) ==
    /\ worker = "up" /\ conn[c].state = "none"
    /\ Set(c, [Fresh EXCEPT !.state = "accepted"]) /\ Elsewhere

\* tls_acme_challenge_set_cert
tls_acme_challenge_set_cert(r, d) ==
    IF challenge[d] = "yes" THEN [r EXCEPT !.shown = "challenge", !.proto = "acme"] ELSE r

\* tls_sni_cb, with the name d: the context of d when it has one.
\* Wrong variant: an ALPN that came before is forgotten.
SniForgets(r, d) ==
    IF ctx[d] = 0 THEN r
    ELSE [r EXCEPT !.on = ctx[d], !.sni = "yes", !.active = challenge[d],
                   !.wanted = IF d \in Cafile THEN "yes" ELSE "no"]

tls_sni_cb(r, d) ==
    IF ctx[d] = 0 THEN r
    ELSE LET s == [r EXCEPT !.on = ctx[d], !.sni = "yes", !.active = challenge[d],
                            !.wanted = IF d \in Cafile THEN "yes" ELSE "no"]
         IN IF r.alpn = "yes" THEN tls_acme_challenge_set_cert(s, d) ELSE s

\* tls_acme_alpn, set up with the domain of the context it is called on.
tls_acme_alpn(r) ==
    LET s == [r EXCEPT !.alpn = "yes"] IN
    IF r.sni = "yes" THEN tls_acme_challenge_set_cert(s, tls_ctxs[r.on].dom) ELSE s

\* The hello of the client: kore_tls_connection_accept makes c->tls from the
\* context of primary_dom; OpenSSL calls back for the name and for ALPN, in
\* the order of its version.
Hello(c, name, alpn, order) ==
    LET start == [conn[c] EXCEPT !.state = "hello", !.on = ctx[Primary],
                                 !.wanted = IF Primary \in Cafile THEN "yes" ELSE "no"]
        named(r) == IF name = "none" THEN r ELSE tls_sni_cb(r, name)
        asked(r) == IF alpn = "yes" THEN tls_acme_alpn(r) ELSE r
        met == IF order = "sni first" THEN asked(named(start)) ELSE named(asked(start))
    IN /\ worker = "up" /\ conn[c].state = "accepted" /\ ctx[Primary] # 0
       /\ Set(c, IF met.proto = "acme" THEN [met EXCEPT !.wanted = "no"] ELSE met) /\ Elsewhere

\* No certificate yet for primary_dom: the connection is closed, whenever
\* the handshake comes back to it.
NotComplete(c) ==
    /\ worker = "up" /\ Shaking(c) /\ ctx[Primary] = 0 /\ Set(c, Gone(c)) /\ Elsewhere

\* The certificate of the client is verified against the store of the
\* context (tls_domain_x509_verify); the handshake is not complete yet.
Verify(c, cert) ==
    /\ worker = "up" /\ conn[c].state = "hello" /\ ctx[Primary] # 0
    /\ IF conn[c].wanted = "no"
       THEN cert = NoCert /\ Set(c, [conn[c] EXCEPT !.state = "verified"])
       ELSE Set(c, IF cert = NoCert \/ cert \in tls_ctxs[conn[c].on].revoked THEN Gone(c)
                   ELSE [conn[c] EXCEPT !.state = "verified", !.cert = cert])
    /\ Elsewhere

\* SSL_accept is done: an ACME client is sent away, another one is HTTP from
\* here on (kore_connection_handle).
HandshakeDone(c) ==
    /\ worker = "up" /\ conn[c].state = "verified" /\ ctx[Primary] # 0
    /\ Set(c, IF conn[c].proto = "acme" THEN Gone(c)
              ELSE [conn[c] EXCEPT !.state = "up", !.proto = "http"])
    /\ Elsewhere

\* kore_websocket_handshake, and the end of a connection.
Upgrade(c) ==
    /\ worker = "up" /\ conn[c].state = "up" /\ conn[c].proto = "http"
    /\ Set(c, [conn[c] EXCEPT !.proto = "websocket"]) /\ Elsewhere
kore_connection_disconnect(c) ==
    /\ worker = "up" /\ conn[c].state \notin {"none", "gone"} /\ Set(c, Gone(c)) /\ Elsewhere

TlsNext ==
    \/ keymgr_reload \/ worker_keymgr_response
    \/ \E d \in Cafile, cert \in Certs : Revoke(d, cert)
    \/ \E d \in Domains : Challenge(d)
    \/ \E c \in Conns :
          \/ kore_connection_accept(c) \/ NotComplete(c) \/ HandshakeDone(c) \/ Upgrade(c)
          \/ kore_connection_disconnect(c)
          \/ \E name \in Domains \cup {"none"}, alpn \in {"yes", "no"},
                order \in {"sni first", "alpn first"} : Hello(c, name, alpn, order)
          \/ \E cert \in Certs \cup {NoCert} : Verify(c, cert)

TlsSpec == TlsInit /\ [][TlsNext]_tlsVars
-----------------------------------------------------------------------------
\* The store that stands for domain d, once its CRL is there.
Revoked(d) == IF ctx[d] = 0 THEN {} ELSE tls_ctxs[ctx[d]].revoked
Authenticated(c) == conn[c].state = "up" /\ conn[c].proto = "http" /\ conn[c].cert # NoCert

\* Once the worker has handled a CRL, no HTTP connection is up whose client
\* certificate the CRL revokes, except one that was in its handshake as the
\* CRL came: certificate, CRL and handshake may come in any order.
RevokedPruned ==
    \A c \in Conns : Authenticated(c) =>
        LET d == tls_ctxs[conn[c].on].dom IN
        conn[c].passed = "yes" \/ conn[c].cert \notin Revoked(d)

\* The challenge certificate is shown exactly to a client that asks for
\* acme-tls/1 and names a domain whose challenge is active, whichever of the
\* two OpenSSL parses first, and such a client never becomes an HTTP
\* connection.
ChallengeShown ==
    \A c \in Conns :
        /\ conn[c].state \in {"hello", "verified"} =>
              (conn[c].shown = "challenge" <=>
                  conn[c].alpn = "yes" /\ conn[c].sni = "yes" /\ conn[c].active = "yes")
        /\ conn[c].state = "up" => conn[c].shown = "domain" /\ conn[c].proto # "acme"

\* A client of a domain that asks for certificates is up only with one.
ClientKnown ==
    \A c \in Conns : conn[c].state = "up" /\ tls_ctxs[conn[c].on].dom \in Cafile => conn[c].cert # NoCert

\* What a connection that is up, or in its handshake, can rely on.
PeersVerified == RevokedPruned /\ ChallengeShown /\ ClientKnown
=============================================================================
