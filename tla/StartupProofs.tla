--------------------------- MODULE StartupProofs ----------------------------
(***************************************************************************)
(* Proofs about the start of the server.  Config, the domains and routes   *)
(* of the configuration: what the "}" of a domain checked stays so, since  *)
(* the server of a domain is closed before it.  Listeners, the listening   *)
(* sockets: every path that was given has a listener or no file.           *)
(***************************************************************************)
EXTENDS Startup, TLAPS

DomainRecord == [name : Names, server : Nat, certs : SUBSET {"certfile", "certkey"},
                 acme : {"yes", "no"}, extras : SUBSET Extras]

ContextShape ==
    /\ servers \in Seq({"yes", "no"}) /\ doms \in Seq(DomainRecord)
    /\ auths \in Seq(SUBSET {"type", "validator"})
    /\ server \in 0 .. Len(servers) /\ dom \in 0 .. Len(doms) /\ auth \in 0 .. Len(auths)
    /\ primary_dom \in 0 .. Len(doms) /\ late \in {"yes", "no"}
    /\ \A d \in 1 .. Len(doms) : doms[d].server \in 0 .. Len(servers)
    /\ mode = "python" => server = 0 /\ dom = 0

\* A domain whose context is closed passed the check of its "}", and its
\* server is closed as well: no tls line changes what was checked.
DomainsClosed == \A d \in 1 .. Len(doms) : d # dom => Complete(d) /\ doms[d].server # server
NamesApart ==
    \A d, e \in 1 .. Len(doms) :
        d # e /\ doms[d].server # 0 => doms[d].server # doms[e].server \/ doms[d].name # doms[e].name
AuthsValidated == \A a \in 1 .. Len(auths) : a # auth => "validator" \in auths[a]
PrimaryTls ==
    primary_dom # 0 /\ late = "no" /\ doms[primary_dom].server # 0 =>
        servers[doms[primary_dom].server] = "yes"

ConfigInv == ContextShape /\ DomainsClosed /\ NamesApart /\ AuthsValidated /\ PrimaryTls

\* The tables are empty and no context is open at the start.
LEMMA ConfigInitial == ConfigInit => ConfigInv
<1> DEFINE R == DomainRecord
           A == SUBSET {"type", "validator"}
<1> HIDE DEF R, A
<1>1. << >> \in Seq(R) /\ << >> \in Seq(A) /\ << >> \in Seq({"yes", "no"}) /\ Len(<< >>) = 0
  OBVIOUS
<1> USE DEF R, A
<1> QED
  BY <1>1 DEF ConfigInit, ConfigInv, ContextShape, DomainsClosed, NamesApart, AuthsValidated, PrimaryTls

\* The lines and calls that leave servers, domains and blocks alone.
LEMMA ConfigQuiet ==
    ASSUME ConfigInv, UNCHANGED <<mode, servers, doms, auths, primary_dom, late, server, dom, auth>>
    PROVE  ConfigInv'
BY DEF ConfigInv, ContextShape, DomainsClosed, NamesApart, AuthsValidated, PrimaryTls, Complete

\* A table that grows by one (TAILQ_INSERT_TAIL).
LEMMA AppendFacts ==
    ASSUME NEW S, NEW s \in Seq(S), NEW e \in S
    PROVE  /\ Append(s, e) \in Seq(S) /\ Len(s) \in Nat /\ Len(Append(s, e)) = Len(s) + 1
           /\ \A i \in 1 .. Len(s) : Append(s, e)[i] = s[i]
           /\ Append(s, e)[Len(s) + 1] = e
OBVIOUS

\* A table with one entry changed in place.
LEMMA ReplaceFacts ==
    ASSUME NEW S, NEW s \in Seq(S), NEW i \in 1 .. Len(s), NEW e \in S
    PROVE  /\ [s EXCEPT ![i] = e] \in Seq(S) /\ Len(s) \in Nat /\ Len([s EXCEPT ![i] = e]) = Len(s)
           /\ \A j \in 1 .. Len(s) : [s EXCEPT ![i] = e][j] = IF j = i THEN e ELSE s[j]
           /\ s[i] \in S
OBVIOUS

\* A server is made: the domains that there are lie on older ones.
LEMMA ServerMade ==
    ASSUME ConfigInv, NEW tls \in {"yes", "no"}, servers' = Append(servers, tls),
           server' = server \/ (server' = Len(servers) + 1 /\ mode # "python"),
           UNCHANGED <<mode, doms, auths, primary_dom, late, dom, auth>>
    PROVE  ConfigInv'
<1>1. /\ servers' \in Seq({"yes", "no"}) /\ Len(servers) \in Nat /\ Len(servers') = Len(servers) + 1
      /\ \A i \in 1 .. Len(servers) : servers'[i] = servers[i]
  <2>1. servers \in Seq({"yes", "no"})
    BY DEF ConfigInv, ContextShape
  <2> QED  BY <2>1, AppendFacts, SMTT(30)
<1>2. ContextShape'
  BY <1>1, SMTT(30) DEF ConfigInv, ContextShape
<1>3. \A d \in 1 .. Len(doms) : doms[d].server \in 0 .. Len(servers)
  BY SMTT(30) DEF ConfigInv, ContextShape
<1>4. DomainsClosed'
  <2> SUFFICES ASSUME NEW d \in 1 .. Len(doms), d # dom  PROVE Complete(d)' /\ doms[d].server # server'
    BY SMTT(30) DEF DomainsClosed
  <2>1. Complete(d) /\ doms[d].server # server /\ doms[d].server \in 1 .. Len(servers)
    BY <1>3, SMTT(30) DEF ConfigInv, DomainsClosed, Complete
  <2> QED  BY <1>1, <2>1, SMTT(30) DEF Complete
<1>5. PrimaryTls'
  BY <1>1, <1>3, SMTT(30) DEF ConfigInv, ContextShape, PrimaryTls
<1> QED  BY <1>2, <1>4, <1>5, SMTT(30) DEF ConfigInv, NamesApart, AuthsValidated

\* A domain is made: by a line, on no server yet and with its context open, or
\* by a call, complete and attached.
LEMMA DomainMade ==
    ASSUME ConfigInv, NEW r \in DomainRecord, doms' = Append(doms, r),
           \/ /\ r.server = 0 /\ dom = 0 /\ dom' = Len(doms) + 1 /\ mode # "python"
              /\ primary_dom' = kore_domain_new
           \/ /\ r.server \in 1 .. Len(servers) /\ ~ Taken(r.server, r.name) /\ server = 0 /\ dom' = dom
              /\ servers[r.server] = "yes" => r.certs = {"certfile", "certkey"}
              /\ primary_dom' = kore_domain_attach(Len(doms) + 1, r.server, kore_domain_new),
           UNCHANGED <<mode, servers, auths, late, server, auth>>
    PROVE  ConfigInv'
<1> DEFINE n == Len(doms) + 1
<1>1. /\ doms' \in Seq(DomainRecord) /\ Len(doms) \in Nat /\ Len(doms') = n
      /\ \A i \in 1 .. Len(doms) : doms'[i] = doms[i]
      /\ doms'[n] = r
  <2>1. doms \in Seq(DomainRecord)
    BY DEF ConfigInv, ContextShape
  <2> QED  BY <2>1, AppendFacts, SMTT(30)
<1>2. r.server \in 0 .. Len(servers) /\ Len(servers) \in Nat
  BY SMTT(30) DEF ConfigInv, ContextShape
<1>3. primary_dom \in 0 .. Len(doms) /\ primary_dom' \in 0 .. n /\ (primary_dom' \in {0, primary_dom, n})
  BY <1>1, SMTT(30) DEF ConfigInv, ContextShape, kore_domain_new, kore_domain_attach
<1>4. ContextShape'
  BY <1>1, <1>2, <1>3, SMTT(30) DEF ConfigInv, ContextShape
<1>5. DomainsClosed'
  <2> SUFFICES ASSUME NEW d \in 1 .. n, d # dom'  PROVE Complete(d)' /\ doms'[d].server # server
    BY <1>1, Zenon DEF DomainsClosed
  <2>1. CASE d \in 1 .. Len(doms)
    <3>1. d # dom  BY <1>1, <2>1, SMTT(30)
    <3> QED  BY <1>1, <2>1, <3>1, Zenon DEF ConfigInv, DomainsClosed, Complete
  <2>2. CASE d = n
    BY <1>1, <2>2, SMTT(30) DEF Complete
  <2> QED  BY <1>1, <2>1, <2>2, SMTT(30)
<1>6. NamesApart'
  <2>1. \A d \in 1 .. Len(doms) : r.server # 0 => doms[d].server # r.server \/ doms[d].name # r.name
    <3>1. DOMAIN doms = 1 .. Len(doms)
      BY SMTT(30) DEF ConfigInv, ContextShape
    <3> QED  BY <3>1, Zenon DEF Taken
  <2>2. ASSUME NEW d \in 1 .. n, NEW e \in 1 .. n, d # e, doms'[d].server # 0
        PROVE  doms'[d].server # doms'[e].server \/ doms'[d].name # doms'[e].name
    <3>1. d \in 1 .. Len(doms) \/ d = n
      BY <1>1, SMTT(30)
    <3>2. e \in 1 .. Len(doms) \/ e = n
      BY <1>1, SMTT(30)
    <3>3. CASE d = n
      BY <1>1, <2>1, <2>2, <3>2, <3>3, Zenon
    <3>4. CASE e = n
      BY <1>1, <2>1, <2>2, <3>1, <3>4, Zenon
    <3> QED  BY <1>1, <2>2, <3>1, <3>2, <3>3, <3>4, SMTT(30) DEF ConfigInv, NamesApart
  <2> QED  BY <1>1, <2>2, SMTT(30) DEF NamesApart
<1>7. PrimaryTls'
  <2>1. CASE primary_dom' = n
    <3>1. primary_dom' # primary_dom
      BY <1>1, <1>3, <2>1, SMTT(30)
    <3>2. r.server # 0 => servers[r.server] = "yes"
      BY <1>1, <2>1, SMTT(30) DEF kore_domain_attach, kore_domain_new, ConfigInv, ContextShape
    <3> QED  BY <1>1, <2>1, <3>2, Zenon DEF PrimaryTls
  <2>2. CASE primary_dom' = primary_dom /\ primary_dom # 0
    BY <1>1, <1>3, <2>2, SMTT(30) DEF ConfigInv, PrimaryTls
  <2> QED  BY <1>3, <2>1, <2>2, Zenon DEF PrimaryTls
<1> QED  BY <1>4, <1>5, <1>6, <1>7, Zenon DEF ConfigInv, AuthsValidated

\* A line in the context of a domain keeps its name, and its server or that it
\* has none.
LEMMA DomainSet ==
    ASSUME ConfigInv, dom # 0, NEW r \in DomainRecord, doms' = [doms EXCEPT ![dom] = r],
           r.name = doms[dom].name,
           \/ /\ r.server = doms[dom].server /\ primary_dom' = primary_dom
           \/ /\ doms[dom].server = 0 /\ r.server \in 1 .. Len(servers) /\ ~ Taken(r.server, r.name)
              /\ primary_dom' = kore_domain_attach(dom, r.server, primary_dom),
           UNCHANGED <<mode, servers, auths, late, server, dom, auth>>
    PROVE  ConfigInv'
<1>1. dom \in 1 .. Len(doms) /\ doms \in Seq(DomainRecord) /\ DOMAIN doms = 1 .. Len(doms)
  BY DEF ConfigInv, ContextShape
<1>2. /\ doms' \in Seq(DomainRecord) /\ Len(doms) \in Nat /\ Len(doms') = Len(doms)
      /\ \A d \in 1 .. Len(doms) : doms'[d] = IF d = dom THEN r ELSE doms[d]
  BY <1>1, ReplaceFacts, SMTT(30)
<1>3. r.server \in 0 .. Len(servers)
  BY <1>1, SMTT(30) DEF ConfigInv, ContextShape
<1>4. primary_dom' \in {0, primary_dom}
  BY SMTT(30) DEF kore_domain_attach
<1>5. ContextShape'
  BY <1>2, <1>3, <1>4, SMTT(30) DEF ConfigInv, ContextShape
<1>6. DomainsClosed'
  BY <1>2, SMTT(30) DEF ConfigInv, DomainsClosed, Complete
<1>7. NamesApart'
  <2>1. r.server # doms[dom].server =>
           \A d \in 1 .. Len(doms) : doms[d].server # r.server \/ doms[d].name # r.name
    BY <1>1, Zenon DEF Taken
  <2>2. ASSUME NEW d \in 1 .. Len(doms), NEW e \in 1 .. Len(doms), d # e, doms'[d].server # 0
        PROVE  doms'[d].server # doms'[e].server \/ doms'[d].name # doms'[e].name
    <3>1. CASE d # dom /\ e # dom
      BY <1>2, <2>2, <3>1, SMTT(30) DEF ConfigInv, NamesApart
    <3>2. CASE d = dom
      <4>1. doms'[d] = r /\ doms'[e] = doms[e]
        BY <1>2, <2>2, <3>2, Zenon
      <4> QED  BY <2>1, <2>2, <3>2, <4>1, SMTT(30) DEF ConfigInv, NamesApart
    <3>3. CASE e = dom
      <4>1. doms'[e] = r /\ doms'[d] = doms[d]
        BY <1>2, <2>2, <3>3, Zenon
      <4> QED  BY <2>1, <2>2, <3>3, <4>1, SMTT(30) DEF ConfigInv, NamesApart
    <3> QED  BY <3>1, <3>2, <3>3, Zenon
  <2> QED  BY <1>2, <2>2, SMTT(30) DEF NamesApart
<1>8. PrimaryTls'
  <2>1. CASE primary_dom' # 0 /\ primary_dom # dom
    BY <1>2, <1>4, <2>1, SMTT(30) DEF ConfigInv, ContextShape, PrimaryTls
  <2>2. CASE primary_dom' # 0 /\ primary_dom = dom
    <3>1. r.server = doms[dom].server \/ servers[r.server] # "no"
      BY <1>1, <2>2, Zenon DEF kore_domain_attach
    <3>2. r.server # 0 => servers[r.server] \in {"yes", "no"}
      BY <1>3, SMTT(30) DEF ConfigInv, ContextShape
    <3>3. doms'[primary_dom'] = r
      BY <1>1, <1>2, <1>4, <2>2, Zenon
    <3> QED  BY <2>2, <3>1, <3>2, <3>3, Zenon DEF ConfigInv, PrimaryTls
  <2> QED  BY <2>1, <2>2, Zenon DEF PrimaryTls
<1> QED  BY <1>5, <1>6, <1>7, <1>8, Zenon DEF ConfigInv, AuthsValidated

\* A tls line: no domain whose context is closed is on the server, and one
\* that is makes the line late.
LEMMA TlsSet ==
    ASSUME ConfigInv, NEW yesno \in {"yes", "no"}, server # 0,
           servers' = [servers EXCEPT ![server] = yesno],
           late' = IF \E d \in DOMAIN doms : doms[d].server = server THEN "yes" ELSE late,
           UNCHANGED <<mode, doms, auths, primary_dom, server, dom, auth>>
    PROVE  ConfigInv'
<1>1. /\ servers \in Seq({"yes", "no"}) /\ server \in 1 .. Len(servers)
      /\ DOMAIN doms = 1 .. Len(doms)
  BY SMTT(30) DEF ConfigInv, ContextShape
<1>2. /\ servers' \in Seq({"yes", "no"}) /\ Len(servers) \in Nat /\ Len(servers') = Len(servers)
      /\ \A s \in 1 .. Len(servers) : servers'[s] = IF s = server THEN yesno ELSE servers[s]
  BY <1>1, ReplaceFacts, SMTT(30)
<1>3. ContextShape'
  BY <1>2, Zenon DEF ConfigInv, ContextShape
<1>4. \A d \in 1 .. Len(doms) : doms[d].server \in 0 .. Len(servers)
  BY SMTT(30) DEF ConfigInv, ContextShape
<1>5. DomainsClosed'
  BY <1>2, <1>4, SMTT(30) DEF ConfigInv, DomainsClosed, Complete
<1>6. PrimaryTls'
  <2> SUFFICES ASSUME primary_dom # 0, late' = "no", doms[primary_dom].server # 0
               PROVE  servers'[doms[primary_dom].server] = "yes"
    BY Zenon DEF PrimaryTls
  <2>1. primary_dom \in 1 .. Len(doms)
    BY SMTT(30) DEF ConfigInv, ContextShape
  <2>2. ~ \E d \in DOMAIN doms : doms[d].server = server
    BY SMTT(30)
  <2>3. late = "no" /\ doms[primary_dom].server # server
    BY <1>1, <2>1, <2>2, Zenon
  <2> QED  BY <1>2, <1>4, <2>1, <2>3, SMTT(30) DEF ConfigInv, PrimaryTls
<1> QED  BY <1>3, <1>5, <1>6, SMTT(30) DEF ConfigInv, NamesApart, AuthsValidated

\* The blocks of authentication: made, and given what they need.
LEMMA AuthSet ==
    ASSUME ConfigInv, NEW has \in SUBSET {"type", "validator"},
           \/ auth = 0 /\ auths' = Append(auths, has) /\ auth' = Len(auths) + 1
           \/ auth # 0 /\ auths' = [auths EXCEPT ![auth] = has] /\ auth' = auth,
           UNCHANGED <<mode, servers, doms, primary_dom, late, server, dom>>
    PROVE  ConfigInv'
<1> DEFINE A == SUBSET {"type", "validator"}
<1>1. auths \in Seq(A) /\ auth \in 0 .. Len(auths) /\ Len(auths) \in Nat /\ has \in A
  BY DEF ConfigInv, ContextShape
<1>2. \A a \in 1 .. Len(auths) : a # auth => "validator" \in auths[a]
  BY DEF ConfigInv, AuthsValidated
<1> HIDE DEF A
<1>3. auths' \in Seq(A) /\ auth' \in 0 .. Len(auths') /\ AuthsValidated'
  <2>1. CASE auth = 0
    <3>1. auths' = Append(auths, has) /\ auth' = Len(auths) + 1
      BY <2>1, SMTT(30)
    <3>2. /\ auths' \in Seq(A) /\ Len(auths') = Len(auths) + 1
          /\ \A a \in 1 .. Len(auths) : auths'[a] = auths[a]
      BY <1>1, <3>1, AppendFacts, SMTT(30)
    <3> QED  BY <1>1, <1>2, <2>1, <3>1, <3>2, SMTT(30) DEF AuthsValidated
  <2>2. CASE auth # 0
    <3>1. auths' = [auths EXCEPT ![auth] = has] /\ auth' = auth /\ auth \in 1 .. Len(auths)
      BY <1>1, <2>2, SMTT(30)
    <3>2. /\ auths' \in Seq(A) /\ Len(auths') = Len(auths)
          /\ \A a \in 1 .. Len(auths) : auths'[a] = IF a = auth THEN has ELSE auths[a]
      BY <1>1, <3>1, ReplaceFacts, SMTT(30)
    <3> QED  BY <1>1, <1>2, <3>1, <3>2, Zenon DEF AuthsValidated
  <2> QED  BY <2>1, <2>2
<1> QED
  BY <1>3, Zenon DEF A, ConfigInv, ContextShape, DomainsClosed, NamesApart, PrimaryTls, Complete

\* A "}" closes a context whose check it passed.
LEMMA CloseKeeps == ASSUME ConfigInv, Close PROVE ConfigInv'
<1>1. UNCHANGED <<mode, servers, doms, auths, primary_dom, late>> /\ mode # "python"
  BY Zenon DEF Close, Line, tables
<1>2. /\ dom' \in {0, dom} /\ server' \in {0, server} /\ auth' \in {0, auth}
      /\ dom' # dom => Complete(dom) /\ server = 0 /\ server' = 0
      /\ auth' # auth => "validator" \in auths[auth]
  BY Zenon DEF Close, contexts
<1>3. ContextShape'
  BY <1>1, <1>2, SMTT(30) DEF ConfigInv, ContextShape
<1>4. DomainsClosed'
  <2> SUFFICES ASSUME NEW d \in 1 .. Len(doms), d # dom'  PROVE Complete(d) /\ doms[d].server # server'
    BY <1>1, Zenon DEF DomainsClosed, Complete
  <2> QED  BY <1>2, Zenon DEF ConfigInv, DomainsClosed, Complete
<1>5. AuthsValidated'
  BY <1>1, <1>2, SMTT(30) DEF ConfigInv, AuthsValidated
<1> QED  BY <1>1, <1>3, <1>4, <1>5, SMTT(30) DEF ConfigInv, NamesApart, PrimaryTls

\* Every line and every call keeps ConfigInv.
LEMMA ConfigInductive == ASSUME ConfigInv, [ConfigNext]_configVars PROVE ConfigInv'
<1> DEFINE Still == UNCHANGED <<mode, servers, doms, auths, primary_dom, late, server, dom, auth>>
<1>0. Still => ConfigInv'
  BY ConfigQuiet, SMTT(30)
<1>1. \A how : Stops(how) /\ UNCHANGED mode => Still
  BY DEF Stops, tables, contexts
<1>2. ASSUME NEW to, SetsRoute(to), UNCHANGED mode  PROVE Still
  BY <1>2, SMTT(30) DEF SetsRoute, contexts
<1>3. ASSUME dom # 0  PROVE doms[dom] \in DomainRecord /\ dom \in 1 .. Len(doms)
  BY <1>3, SMTT(30) DEF ConfigInv, ContextShape
<1> HIDE DEF Still
<1>4. CASE configure_privsep
  BY <1>0, <1>1, <1>4, Zenon DEF configure_privsep, Line, tables, Still
<1>5. CASE configure_server
  <2>1. CASE server = 0
    BY <1>5, <2>1, ServerMade, Zenon DEF configure_server, Line
  <2> QED  BY <1>0, <1>1, <1>5, <2>1, Zenon DEF configure_server, Line
<1>6. ASSUME NEW n \in Names, configure_domain(n)  PROVE ConfigInv'
  <2>1. CASE dom = 0
    <3> DEFINE r == New(n, 0, {}, "no")
    <3>1. r \in DomainRecord /\ r.server = 0
      BY DEF New, DomainRecord
    <3>2. /\ doms' = Append(doms, r) /\ dom' = Len(doms) + 1 /\ mode # "python"
          /\ primary_dom' = kore_domain_new /\ UNCHANGED <<mode, servers, auths, late, server, auth>>
      BY <1>6, <2>1, Zenon DEF configure_domain, Line
    <3> HIDE DEF r
    <3> QED  BY <2>1, <3>1, <3>2, DomainMade, Zenon
  <2> QED  BY <1>0, <1>1, <1>6, <2>1, Zenon DEF configure_domain, Line
<1>7. ASSUME NEW p \in Paths, configure_route(p)  PROVE ConfigInv'
  BY <1>0, <1>1, <1>7, Zenon DEF configure_route, Line, Still
<1>8. CASE configure_authentication
  <2>1. CASE auth = 0
    <3>1. auths' = Append(auths, {}) /\ auth' = Len(auths) + 1 /\ UNCHANGED <<mode, servers, doms, primary_dom, late, server, dom>>
      BY <1>8, <2>1 DEF configure_authentication, Line
    <3> QED  BY <2>1, <3>1, AuthSet, SMTT(30)
  <2> QED  BY <1>0, <1>1, <1>8, <2>1, Zenon DEF configure_authentication, Line
<1>9. CASE Close
  BY <1>9, CloseKeeps, SMTT(30)
<1>10. ASSUME NEW yesno \in {"yes", "no"}, configure_tls(yesno)  PROVE ConfigInv'
  <2>1. CASE server # 0
    <3>1. /\ servers' = [servers EXCEPT ![server] = yesno]
          /\ late' = IF \E d \in DOMAIN doms : doms[d].server = server THEN "yes" ELSE late
          /\ UNCHANGED <<mode, doms, auths, primary_dom, server, dom, auth>>
      BY <1>10, <2>1, Zenon DEF configure_tls, Line, contexts
    <3> QED  BY <2>1, <3>1, TlsSet, Zenon
  <2> QED  BY <1>0, <1>1, <1>10, <2>1, Zenon DEF configure_tls, Line
<1>11. ASSUME NEW s \in 1 .. MaxServers, configure_attach(s)  PROVE ConfigInv'
  <2>1. CASE dom # 0 /\ s \in DOMAIN servers /\ doms[dom].server = 0 /\ ~ Taken(s, doms[dom].name)
    <3> DEFINE r == [doms[dom] EXCEPT !.server = s]
    <3>1. s \in 1 .. Len(servers) /\ s \in Nat
      BY <2>1, SMTT(30) DEF ConfigInv, ContextShape
    <3>2. r \in DomainRecord /\ r.server = s /\ r.name = doms[dom].name
      BY <1>3, <2>1, <3>1, Zenon DEF DomainRecord
    <3>3. /\ doms' = [doms EXCEPT ![dom] = r] /\ primary_dom' = kore_domain_attach(dom, s, primary_dom)
          /\ UNCHANGED <<mode, servers, auths, late, server, dom, auth>>
      BY <1>11, <2>1, Zenon DEF configure_attach, Line, contexts
    <3> HIDE DEF r
    <3> QED  BY <2>1, <3>1, <3>2, <3>3, DomainSet, Zenon
  <2> QED  BY <1>0, <1>1, <1>11, <2>1, Zenon DEF configure_attach, Line
<1>12. ASSUME dom # 0, NEW r \in DomainRecord, doms' = [doms EXCEPT ![dom] = r],
              r.name = doms[dom].name, r.server = doms[dom].server,
              UNCHANGED <<mode, servers, auths, primary_dom, late, server, dom, auth>>
       PROVE  ConfigInv'
  BY <1>12, DomainSet, Zenon
<1>13. ASSUME NEW which \in {"certfile", "certkey"}, configure_certfile(which)  PROVE ConfigInv'
  <2>1. CASE dom # 0
    <3> DEFINE r == [doms[dom] EXCEPT !.certs = @ \union {which}]
    <3>1. r \in DomainRecord /\ r.name = doms[dom].name /\ r.server = doms[dom].server
      BY <1>3, <2>1, Zenon DEF DomainRecord
    <3>2. /\ doms' = [doms EXCEPT ![dom] = r]
          /\ UNCHANGED <<mode, servers, auths, primary_dom, late, server, dom, auth>>
      BY <1>13, <2>1, Zenon DEF configure_certfile, Line, contexts
    <3> HIDE DEF r
    <3> QED  BY <1>12, <2>1, <3>1, <3>2, Zenon
  <2> QED  BY <1>0, <1>1, <1>13, <2>1 DEF configure_certfile, Line
<1>14. ASSUME NEW yesno \in {"yes", "no"}, configure_acme(yesno)  PROVE ConfigInv'
  <2>1. CASE dom # 0
    <3> DEFINE r == [doms[dom] EXCEPT !.acme = yesno,
                        !.certs = IF yesno = "yes" THEN {"certfile", "certkey"} ELSE @]
    <3>1. r \in DomainRecord /\ r.name = doms[dom].name /\ r.server = doms[dom].server
      BY <1>3, <2>1, Zenon DEF DomainRecord
    <3>2. /\ doms' = [doms EXCEPT ![dom] = r]
          /\ UNCHANGED <<mode, servers, auths, primary_dom, late, server, dom, auth>>
      <4>1. dom \in DOMAIN doms /\ doms[dom] \in DomainRecord
        BY <1>3, <2>1, SMTT(30) DEF ConfigInv, ContextShape
      <4> QED  BY <1>14, <2>1, <4>1 DEF configure_acme, Line, contexts, DomainRecord
    <3> HIDE DEF r
    <3> QED  BY <1>12, <2>1, <3>1, <3>2, Zenon
  <2> QED  BY <1>0, <1>1, <1>14, <2>1, Zenon DEF configure_acme, Line
<1>15. ASSUME NEW extra \in Extras, configure_redirect(extra)  PROVE ConfigInv'
  <2>1. CASE dom # 0 /\ doms' = [doms EXCEPT ![dom].extras = @ \union {extra}]
               /\ UNCHANGED <<mode, servers, auths, primary_dom, late, server, dom, auth>>
    <3> DEFINE r == [doms[dom] EXCEPT !.extras = @ \union {extra}]
    <3>1. r \in DomainRecord /\ r.name = doms[dom].name /\ r.server = doms[dom].server
      BY <1>3, <2>1, Zenon DEF DomainRecord
    <3>2. doms' = [doms EXCEPT ![dom] = r]
      BY <2>1
    <3> HIDE DEF r
    <3> QED  BY <1>12, <2>1, <3>1, <3>2, Zenon
  <2> QED  BY <1>0, <1>1, <1>15, <2>1, Zenon DEF configure_redirect, Line, contexts
<1>16. CASE configure_route_handler \/ configure_route_authenticate
  BY <1>0, <1>1, <1>2, <1>16, SMTT(30) DEF configure_route_handler, configure_route_authenticate, Line
<1>17. ASSUME NEW ms, configure_route_methods(ms)  PROVE ConfigInv'
  BY <1>0, <1>1, <1>2, <1>17, SMTT(30) DEF configure_route_methods, Line
<1>18. ASSUME NEW m, configure_validate(m)  PROVE ConfigInv'
  BY <1>0, <1>1, <1>2, <1>18, Zenon DEF configure_validate, Line
<1>19. ASSUME NEW hook, configure_route_on_headers(hook)  PROVE ConfigInv'
  BY <1>0, <1>1, <1>2, <1>19, SMTT(30) DEF configure_route_on_headers, Line
<1>20. CASE configure_validator
  BY <1>0, <1>1, <1>20, Zenon DEF configure_validator, Line, contexts, Still
<1>21. ASSUME auth # 0, NEW what \in {"type", "validator"}, auths' = [auths EXCEPT ![auth] = @ \union {what}],
              UNCHANGED <<mode, servers, doms, primary_dom, late, server, dom, auth>>
       PROVE  ConfigInv'
  <2> DEFINE has == auths[auth] \union {what}
  <2>1. auths[auth] \in SUBSET {"type", "validator"}
    BY <1>21 DEF ConfigInv, ContextShape
  <2>2. has \in SUBSET {"type", "validator"} /\ auths' = [auths EXCEPT ![auth] = has]
    BY <1>21, <2>1, SMTT(30)
  <2> HIDE DEF has
  <2> QED  BY <1>21, <2>2, AuthSet, Zenon
<1>22. CASE configure_authentication_validator
  BY <1>0, <1>1, <1>21, <1>22, Zenon DEF configure_authentication_validator, Line, contexts
<1>23. CASE configure_authentication_type
  BY <1>0, <1>1, <1>21, <1>23, Zenon DEF configure_authentication_type, Line, contexts
<1>24. ASSUME NEW yesno \in {"yes", "no"}, python_kore_server(yesno)  PROVE ConfigInv'
  <2>1. CASE servers' = Append(servers, yesno) /\ UNCHANGED <<mode, doms, auths, primary_dom, late, server, dom, auth>>
    BY <2>1, ServerMade, Zenon
  <2> QED  BY <1>0, <1>1, <1>24, <2>1, Zenon DEF python_kore_server, Line, contexts
<1>25. ASSUME NEW n \in Names, NEW s \in 1 .. MaxServers, python_kore_domain(n, s)  PROVE ConfigInv'
  <2>1. CASE Stops("fatal")
    BY <1>0, <1>1, <1>25, <2>1, Zenon DEF python_kore_domain, Line
  <2>2. CASE ~ Stops("fatal")
    <3>1. PICK acme \in {"yes", "no"} :
             doms' = Append(doms, New(n, s, IF servers[s] = "yes" THEN {"certfile", "certkey"} ELSE {}, acme))
      BY <1>25, <2>2, Zenon DEF python_kore_domain
    <3> DEFINE r == New(n, s, IF servers[s] = "yes" THEN {"certfile", "certkey"} ELSE {}, acme)
    <3>2. /\ s \in DOMAIN servers /\ mode = "python" /\ ~ Taken(s, n)
          /\ primary_dom' = kore_domain_attach(Len(doms) + 1, s, kore_domain_new)
          /\ UNCHANGED <<mode, servers, auths, late, server, dom, auth>>
      BY <1>25, <2>2, Zenon DEF python_kore_domain, Line, contexts
    <3>3. s \in 1 .. Len(servers) /\ s \in Nat /\ server = 0
      BY <3>2, SMTT(30) DEF ConfigInv, ContextShape
    <3>4. /\ r \in DomainRecord /\ r.server = s /\ r.name = n
          /\ servers[s] = "yes" => r.certs = {"certfile", "certkey"}
      BY <3>3, Zenon DEF New, DomainRecord
    <3>5. doms' = Append(doms, r)
      BY <3>1, SMTT(30)
    <3> HIDE DEF r
    <3> QED  BY <3>2, <3>3, <3>4, <3>5, DomainMade, Zenon
  <2> QED  BY <2>1, <2>2, SMTT(30)
<1>26. ASSUME NEW n, NEW p, NEW ms, python_kore_route(n, p, ms)  PROVE ConfigInv'
  BY <1>0, <1>26, Zenon DEF python_kore_route, Line, contexts, Still
<1>27. ASSUME NEW declared, NEW a, NEW hooks, python_route_install(declared, a, hooks)  PROVE ConfigInv'
  BY <1>0, <1>27, Zenon DEF python_route_install, contexts, Still
<1>28. CASE EndOfFile \/ UNCHANGED configVars
  BY <1>0, <1>28, Zenon DEF EndOfFile, configVars, tables, contexts, Still
<1> QED
  BY <1>4, <1>5, <1>6, <1>7, <1>8, <1>9, <1>10, <1>11, <1>13, <1>14, <1>15, <1>16, <1>17, <1>18, <1>19, SMTT(30),
     <1>20, <1>22, <1>23, <1>24, <1>25, <1>26, <1>27, <1>28 DEF ConfigNext

\* The routes of a Python application, and the ones that wait.
RouteRecord == [dom : Nat, path : Paths, methods : SUBSET Methods, params : SUBSET Methods,
                rcall : {"NULL", "set"}, auth : {"none", "named", "own"}, hooks : SUBSET Hooks]
RoutesInv ==
    mode = "python" =>
        /\ routes \in Seq(RouteRecord) /\ pyroutes \in Seq(PyRoute)
        /\ \A i \in 1 .. Len(routes) : routes[i].params \subseteq routes[i].methods
        /\ \A i, j \in 1 .. Len(routes) :
              i # j /\ routes[i].dom = routes[j].dom /\ routes[i].path = routes[j].path =>
                  routes[i].methods \intersect routes[j].methods = {}

\* What an installed route is: HEAD is among the methods when GET is, and the
\* parameters are for methods that were listed.
LEMMA InstalledRoute ==
    ASSUME NEW r \in PyRoute, NEW d \in Nat, NEW declared, NEW a \in {"none", "own"},
           NEW hooks \in SUBSET Hooks
    PROVE  /\ Installed(r, d, declared, a, hooks) \in RouteRecord
           /\ Installed(r, d, declared, a, hooks).params \subseteq
                 Installed(r, d, declared, a, hooks).methods
<1>1. r.methods \in SUBSET Methods /\ r.path \in Paths
  BY SMTT(30) DEF PyRoute
<1>2. /\ python_route_methods(r.methods) \in SUBSET Methods
      /\ r.methods \subseteq python_route_methods(r.methods)
  BY <1>1, SMTT(30) DEF python_route_methods
<1>3. python_route_params(r.methods, declared) \subseteq r.methods
  BY DEF python_route_params
<1> QED  BY <1>1, <1>2, <1>3, Zenon DEF Installed, RouteRecord

\* python_route_install adds a route that overlaps with none.
LEMMA InstallKeeps ==
    ASSUME ConfigInv, RoutesInv, NEW declared, NEW a \in {"none", "own"}, NEW hooks \in SUBSET Hooks,
           python_route_install(declared, a, hooks)
    PROVE  RoutesInv'
<1> DEFINE r == Head(pyroutes)
<1>1. /\ mode = "python" /\ mode' = mode /\ doms' = doms /\ pyroutes # << >>
      /\ routes \in Seq(RouteRecord) /\ pyroutes \in Seq(PyRoute)
  BY Zenon DEF python_route_install, RoutesInv
<1>2. CASE UNCHANGED <<routes, pyroutes>>
  BY <1>1, <1>2, SMTT(30) DEF RoutesInv
<1>3. CASE ~ UNCHANGED <<routes, pyroutes>>
  <2>1. PICK d \in python_route_domain_resolve(r.name) :
           /\ ~ Duplicate(Installed(r, d, declared, a, hooks))
           /\ routes' = Append(routes, Installed(r, d, declared, a, hooks))
           /\ pyroutes' = Tail(pyroutes)
    BY <1>3, Zenon DEF python_route_install
  <2>2. d \in Nat
    <3>1. DOMAIN doms = 1 .. Len(doms) /\ Len(doms) \in Nat
      BY SMTT(30) DEF ConfigInv, ContextShape
    <3> QED  BY <3>1, SMTT(30) DEF python_route_domain_resolve
  <2>3. r \in PyRoute /\ pyroutes' \in Seq(PyRoute)
    BY <1>1, <2>1
  <2> DEFINE rt == Installed(r, d, declared, a, hooks)
             R == RouteRecord
  <2>4. rt \in R /\ rt.params \subseteq rt.methods
    BY <2>2, <2>3, InstalledRoute, Zenon
  <2>5. routes' = Append(routes, rt) /\ ~ Duplicate(rt) /\ routes \in Seq(R)
    BY <1>1, <2>1, Zenon
  <2> HIDE DEF rt, R, r
  <2>6. /\ routes' \in Seq(R) /\ Len(routes) \in Nat /\ Len(routes') = Len(routes) + 1
        /\ \A i \in 1 .. Len(routes) : routes'[i] = routes[i]
        /\ routes'[Len(routes) + 1] = rt
    BY <2>4, <2>5, AppendFacts, SMTT(30)
  <2>7. \A i \in 1 .. Len(routes) :
           routes[i].dom = rt.dom /\ routes[i].path = rt.path => routes[i].methods \intersect rt.methods = {}
    BY <2>5, SMTT(30) DEF Duplicate
  <2>8. \A i \in 1 .. Len(routes') : routes'[i].params \subseteq routes'[i].methods
    BY <1>1, <2>4, <2>6, SMTT(30) DEF RoutesInv
  <2>9. ASSUME NEW i \in 1 .. Len(routes'), NEW j \in 1 .. Len(routes'), i # j,
               routes'[i].dom = routes'[j].dom, routes'[i].path = routes'[j].path
        PROVE  routes'[i].methods \intersect routes'[j].methods = {}
    <3>1. i \in 1 .. Len(routes) \/ i = Len(routes) + 1
      BY <2>6, SMTT(30)
    <3>2. j \in 1 .. Len(routes) \/ j = Len(routes) + 1
      BY <2>6, SMTT(30)
    <3>3. CASE i = Len(routes) + 1
      BY <2>6, <2>7, <2>9, <3>2, <3>3, Zenon
    <3>4. CASE j = Len(routes) + 1
      BY <2>6, <2>7, <2>9, <3>1, <3>4, Zenon
    <3> QED  BY <1>1, <2>6, <2>9, <3>1, <3>2, <3>3, <3>4, Zenon DEF RoutesInv
  <2> QED  BY <1>1, <2>3, <2>6, <2>8, <2>9, Zenon DEF RoutesInv, R
<1> QED  BY <1>2, <1>3, SMTT(30)

\* Only python_kore_route and python_route_install touch the routes of an
\* application.
LEMMA RoutesInductive == ASSUME ConfigInv, RoutesInv, [ConfigNext]_configVars PROVE RoutesInv'
<1>1. ASSUME NEW declared, NEW a \in {"none", "own"},
             python_route_install(declared, a, IF a = "own" THEN Hooks ELSE {})
      PROVE  RoutesInv'
  BY <1>1, InstallKeeps, SMTT(30)
<1>2. ASSUME NEW n \in Names \union {"none"}, NEW p \in Paths, NEW ms \in SUBSET Methods,
             python_kore_route(n, p, ms)
      PROVE  RoutesInv'
  <2> DEFINE r == [name |-> n, path |-> p, methods |-> ms]
  <2>1. r \in PyRoute
    BY DEF PyRoute
  <2>2. mode = "python" /\ pyroutes' = Append(pyroutes, r) /\ UNCHANGED <<mode, routes>>
    BY <1>2, SMTT(30) DEF python_kore_route, Line
  <2> HIDE DEF r
  <2>3. pyroutes' \in Seq(PyRoute)
    BY <2>1, <2>2, AppendFacts, Zenon DEF RoutesInv
  <2> QED  BY <2>2, <2>3, Zenon DEF RoutesInv
<1>3. mode # "python" /\ mode' = mode => RoutesInv'
  BY Zenon DEF RoutesInv
<1>4. UNCHANGED <<mode, routes, pyroutes>> => RoutesInv'
  BY Zenon DEF RoutesInv
<1>5. \A how : Stops(how) => UNCHANGED <<routes, pyroutes>>
  BY DEF Stops, tables
<1>6. ASSUME NEW yesno, python_kore_server(yesno)  PROVE RoutesInv'
  BY <1>4, <1>5, <1>6, Zenon DEF python_kore_server, Line
<1>7. ASSUME NEW n, NEW s, python_kore_domain(n, s)  PROVE RoutesInv'
  BY <1>4, <1>5, <1>7, Zenon DEF python_kore_domain, Line
<1>8. CASE EndOfFile \/ UNCHANGED configVars
  BY <1>4, <1>8, Zenon DEF EndOfFile, configVars, tables
<1>9. Line("file") => mode # "python" /\ mode' = mode
  BY SMTT(30) DEF Line
<1>10. CASE \/ configure_privsep \/ configure_server \/ configure_authentication \/ Close
            \/ \E n \in Names : configure_domain(n)
            \/ \E p \in Paths : configure_route(p)
            \/ \E yesno \in {"yes", "no"} : configure_tls(yesno) \/ configure_acme(yesno)
            \/ \E s \in 1 .. MaxServers : configure_attach(s)
            \/ \E which \in {"certfile", "certkey"} : configure_certfile(which)
  BY <1>3, <1>9, <1>10, Zenon DEF configure_privsep, configure_server, configure_authentication, Close,
     configure_domain, configure_route, configure_tls, configure_acme, configure_attach, configure_certfile
<1>11. CASE \/ configure_route_handler \/ configure_route_authenticate
            \/ \E ms \in SUBSET Methods \ {{}} : configure_route_methods(ms)
            \/ \E m \in Methods : configure_validate(m)
            \/ configure_validator \/ configure_authentication_validator \/ configure_authentication_type
            \/ \E hook \in Hooks : configure_route_on_headers(hook)
            \/ \E extra \in Extras : configure_redirect(extra)
  BY <1>3, <1>9, <1>11, Zenon DEF configure_route_handler, configure_route_authenticate, configure_route_methods,
     configure_validate, configure_validator, configure_authentication_validator,
     configure_authentication_type, configure_route_on_headers, configure_redirect
<1> QED
  BY <1>1, <1>2, <1>6, <1>7, <1>8, <1>10, <1>11, Zenon DEF ConfigNext

\* For any names, paths, methods and order of lines or calls: a configuration
\* that is accepted with every context closed is complete (kore_parse_config
\* and configure_attach), and of the routes of a Python application one at
\* most answers a method of a path (python_route_install).
THEOREM ConfigSound == ConfigSpec => [](ConfigComplete /\ RoutesApart)
<1>1. ConfigInit => ConfigInv /\ RoutesInv
  <2>1. ConfigInit => RoutesInv
    <3> DEFINE R == RouteRecord
               P == PyRoute
    <3> HIDE DEF R, P
    <3>1. << >> \in Seq(R) /\ << >> \in Seq(P) /\ Len(<< >>) = 0
      OBVIOUS
    <3> QED  BY <3>1 DEF R, P, ConfigInit, RoutesInv
  <2> QED  BY <2>1, ConfigInitial, SMTT(30)
<1>2. ConfigInv /\ RoutesInv /\ [ConfigNext]_configVars => (ConfigInv /\ RoutesInv)'
  BY ConfigInductive, RoutesInductive
<1>3. ConfigInv /\ RoutesInv => ConfigComplete /\ RoutesApart
  <2> SUFFICES ASSUME ConfigInv, RoutesInv  PROVE ConfigComplete /\ RoutesApart
    OBVIOUS
  <2>1. /\ DOMAIN doms = 1 .. Len(doms) /\ DOMAIN auths = 1 .. Len(auths)
        /\ primary_dom \in 0 .. Len(doms)
    BY DEF ConfigInv, ContextShape
  <2>2. mode = "python" => DOMAIN routes = 1 .. Len(routes)
    BY SMTT(30) DEF RoutesInv
  <2>3. ConfigComplete
    <3> SUFFICES ASSUME Closed
                 PROVE  /\ \A d \in DOMAIN doms : Complete(d)
                        /\ \A d, e \in DOMAIN doms :
                              d # e => doms[d].server # doms[e].server \/ doms[d].name # doms[e].name
                        /\ \A a \in DOMAIN auths : "validator" \in auths[a]
                        /\ primary_dom # 0 /\ late = "no" => servers[doms[primary_dom].server] = "yes"
      BY SMTT(30) DEF ConfigComplete
    <3>1. \A d \in 1 .. Len(doms) : Complete(d) /\ doms[d].server # 0
      BY DEF ConfigInv, DomainsClosed, Closed, Complete
    <3>2. \A a \in 1 .. Len(auths) : "validator" \in auths[a]
      BY DEF ConfigInv, AuthsValidated, Closed
    <3>3. primary_dom # 0 /\ late = "no" => servers[doms[primary_dom].server] = "yes"
      BY <2>1, <3>1, SMTT(30) DEF ConfigInv, PrimaryTls
    <3> QED  BY <2>1, <3>1, <3>2, <3>3, Zenon DEF ConfigInv, NamesApart
  <2>4. RoutesApart
    BY <2>2, Zenon DEF RoutesInv, RoutesApart
  <2> QED  BY <2>3, <2>4
<1> QED  BY <1>1, <1>2, <1>3, PTL DEF ConfigSpec
-----------------------------------------------------------------------------
\* A listener of the parent was given its path, and a path that was given
\* once leads to it; a path that was given has no file, or a listener that
\* removes it as the parent ends.
Leads(held) ==
    \A s \in DOMAIN held : \A l \in held[s] :
        l.host \in SocketPaths => given[l.host] > 0 /\ (given[l.host] = 1 => fs[l.host] = l.fd)
Removed(hosts) == \A q \in SocketPaths : given[q] > 0 => q \in hosts \/ fs[q] = 0

ListenersInv ==
    /\ listeners = [p \in Processes |-> listeners[p]] /\ up = [p \in Processes |-> up[p]]
    /\ given \in [SocketPaths -> Nat]
    /\ Leads(listeners["parent"])
    /\ Running("parent") => Removed(OnHosts("parent"))
    /\ up["parent"] = "gone" => Removed({})

\* Nothing is bound and no path was given at the start.
LEMMA ListenersInitial == ListenersInit => ListenersInv
BY DEF ListenersInit, ListenersInv, Leads, Removed, Running, OnHosts, Processes, none

\* A socket is bound for a server, which is there already or is new, and
\* bind or listen may fail.
LEMMA BindKeeps ==
    ASSUME ListenersInv, Configuring, NEW s, NEW host \in Hosts, NEW ok \in BOOLEAN,
           NEW held, s \in DOMAIN held,
           \/ held = listeners["parent"]
           \/ /\ held = kore_server_create(s)
              /\ s \notin DOMAIN listeners["parent"],
           Bind(s, host, held, ok), up' = up \/ up' = [up EXCEPT !["parent"] = "dead"]
    PROVE  ListenersInv'
<1> DEFINE before == listeners["parent"]
           new == IF ok THEN {Listener(host, nsockets + 1)} ELSE {}
           after == listeners'["parent"]
<1>1. /\ DOMAIN held = DOMAIN before \cup {s}
      /\ \A t \in DOMAIN before : held[t] = before[t]
      /\ s \notin DOMAIN before => held[s] = {}
  BY DEF kore_server_create
<1>2. listeners' = [listeners EXCEPT !["parent"] = kore_listener_init(s, host, held, ok)]
  BY DEF Bind, kore_server_bind, kore_server_bind_unix
<1>3. "parent" \in Processes /\ Running("parent")
  BY DEF Processes, Configuring, Running
<1>4. after = IF ok THEN [held EXCEPT ![s] = @ \cup new] ELSE held
  BY <1>2, <1>3, Zenon DEF ListenersInv, kore_listener_init
<1> HIDE DEF after, new
<1>5. /\ DOMAIN after = DOMAIN before \cup {s}
      /\ \A t \in DOMAIN after : after[t] = (IF t \in DOMAIN before THEN before[t] ELSE {})
                                              \cup (IF t = s THEN new ELSE {})
  BY <1>1, <1>4 DEF new
<1>6. \A l \in new : l.host = host /\ l.fd = nsockets + 1
  BY DEF new, Listener
<1>7. given' = [q \in SocketPaths |-> IF q = host THEN given[q] + 1 ELSE given[q]]
  BY PortApart DEF Bind, kore_server_bind, kore_server_bind_unix, ListenersInv
<1>8. \A q \in SocketPaths : fs'[q] = IF q = host THEN IF ok THEN nsockets + 1 ELSE 0 ELSE fs[q]
  BY PortApart DEF Bind, kore_server_bind, kore_server_bind_unix, kore_listener_free
<1>9. given' \in [SocketPaths -> Nat]
  BY <1>7, SMTT(30) DEF ListenersInv
<1>10. Leads(listeners["parent"])'
  <2> SUFFICES ASSUME NEW t \in DOMAIN after, NEW l \in after[t], l.host \in SocketPaths
               PROVE  given'[l.host] > 0 /\ (given'[l.host] = 1 => fs'[l.host] = l.fd)
    BY Zenon DEF Leads, after
  <2>1. CASE l \in new
    <3>1. l.host = host /\ l.fd = nsockets + 1 /\ ok
      BY <1>6, <2>1, Zenon DEF new
    <3>2. given[host] \in Nat /\ given'[host] = given[host] + 1 /\ fs'[host] = nsockets + 1
      BY <1>7, <1>8, <3>1, Zenon DEF ListenersInv
    <3> QED  BY <3>1, <3>2, SMTT(30)
  <2>2. CASE l \notin new
    <3>1. t \in DOMAIN before /\ l \in before[t]
      BY <1>5, <2>2, SMTT(30)
    <3>2. given[l.host] \in Nat /\ given[l.host] > 0 /\ (given[l.host] = 1 => fs[l.host] = l.fd)
      BY <3>1, Zenon DEF ListenersInv, Leads
    <3>3. given'[l.host] = IF l.host = host THEN given[l.host] + 1 ELSE given[l.host]
      BY <1>7, Zenon
    <3> QED  BY <1>8, <3>2, <3>3, SMTT(30)
  <2> QED  BY <2>1, <2>2, Zenon
<1>11. Removed(OnHosts("parent"))'
  <2> SUFFICES ASSUME NEW q \in SocketPaths, given'[q] > 0, fs'[q] # 0
               PROVE  \E t \in DOMAIN after : \E l \in after[t] : q = l.host
    BY DEF Removed, OnHosts, after
  <2>1. CASE q = host
    <3>1. ok  BY <1>8, <2>1, Zenon
    <3>2. Listener(host, nsockets + 1) \in after[s] /\ s \in DOMAIN after
      BY <1>5, <3>1, Zenon DEF new
    <3> QED  BY <2>1, <3>2, Zenon DEF Listener
  <2>2. CASE q # host
    <3>1. given[q] > 0 /\ fs[q] # 0
      BY <1>7, <1>8, <2>2, Zenon
    <3>2. PICK t \in DOMAIN before : \E l \in before[t] : q = l.host
      BY <1>3, <3>1, SMTT(30) DEF ListenersInv, Removed, OnHosts
    <3> QED  BY <1>5, <3>2, Zenon
  <2> QED  BY <2>1, <2>2, Zenon
<1>12. listeners' = [p \in Processes |-> listeners'[p]] /\ up' = [p \in Processes |-> up'[p]]
  BY <1>2, Zenon DEF ListenersInv
<1>13. up'["parent"] # "gone"
  BY <1>3 DEF ListenersInv, Configuring
<1> QED  BY <1>9, <1>10, <1>11, <1>12, <1>13, Zenon DEF ListenersInv, after

\* Every bind, fork, end, death and start keeps ListenersInv.
LEMMA ListenersInductive ==
    ASSUME ListenersInv, [ListenersNext]_listenersVars PROVE ListenersInv'
<1> USE DEF ListenersInv
<1>0. "parent" \in Processes
  BY DEF Processes
<1>1. ASSUME NEW s \in Servers, NEW host \in Hosts, NEW ok \in BOOLEAN, configure_bind(s, host, ok)
      PROVE  ListenersInv'
  <2> DEFINE held == IF kore_server_lookup(s) THEN listeners["parent"] ELSE kore_server_create(s)
  <2>1. s \in DOMAIN held
    BY DEF kore_server_lookup, kore_server_create
  <2>2. \/ held = listeners["parent"]
        \/ held = kore_server_create(s) /\ s \notin DOMAIN listeners["parent"]
    BY DEF kore_server_lookup
  <2>3. Configuring /\ Bind(s, host, held, ok) /\ (up' = up \/ up' = [up EXCEPT !["parent"] = "dead"])
    BY <1>1 DEF configure_bind
  <2> HIDE DEF held, ListenersInv
  <2> QED  BY <2>1, <2>2, <2>3, BindKeeps, SMTT(30)
<1>2. ASSUME NEW s \in Servers, NEW host \in Hosts, NEW ok \in BOOLEAN,
             python_kore_server_bind(s, host, ok)
      PROVE  ListenersInv'
  <2> DEFINE held == kore_server_create(s)
  <2>1. s \in DOMAIN held
    BY DEF kore_server_create
  <2>2. s \notin DOMAIN listeners["parent"] /\ Configuring /\ Bind(s, host, held, ok) /\ up' = up
    BY <1>2 DEF python_kore_server_bind, kore_server_lookup
  <2>3. held = kore_server_create(s)
    OBVIOUS
  <2> HIDE DEF held, ListenersInv
  <2> QED  BY <2>1, <2>2, <2>3, BindKeeps, SMTT(30)
<1>3. ASSUME NEW w \in Forked, kore_worker_spawn(w)  PROVE ListenersInv'
  <2>1. w # "parent" /\ w \in Processes /\ UNCHANGED <<fs, given>>
    BY <1>3 DEF kore_worker_spawn, Processes
  <2>2. listeners'["parent"] = listeners["parent"] /\ up'["parent"] = "up" /\ Running("parent")
    BY <1>0, <1>3, <2>1, Zenon DEF kore_worker_spawn
  <2>3. listeners' = [p \in Processes |-> listeners'[p]] /\ up' = [p \in Processes |-> up'[p]]
    BY <1>3, Zenon DEF kore_worker_spawn
  <2>4. Removed(OnHosts("parent"))'
    BY <2>1, <2>2 DEF Removed, OnHosts
  <2>5. Leads(listeners["parent"])'
    BY <2>1, <2>2, Zenon DEF Leads
  <2> QED  BY <2>1, <2>2, <2>3, <2>4, <2>5, Zenon
<1>4. ASSUME NEW p \in Processes, kore_server_cleanup(p)  PROVE ListenersInv'
  <2>1. listeners' = [q \in Processes |-> listeners'[q]] /\ up' = [q \in Processes |-> up'[q]]
    BY <1>4, Zenon DEF kore_server_cleanup
  <2>2. CASE p = "parent"
    <3>1. listeners'["parent"] = none /\ up'["parent"] = "gone" /\ Removed(OnHosts("parent")) /\ given' = given
      BY <1>0, <1>4, <2>2, Zenon DEF kore_server_cleanup, Running
    <3>2. \A q \in SocketPaths : fs'[q] = IF q \in OnHosts("parent") THEN 0 ELSE fs[q]
      BY <1>4, <2>2, Zenon DEF kore_server_cleanup, kore_listener_free
    <3>3. Removed({})'
      BY <3>1, <3>2, Zenon DEF Removed
    <3> QED  BY <2>1, <3>1, <3>3, Zenon DEF Leads, Running, none
  <2>3. CASE p # "parent"
    <3>1. listeners'["parent"] = listeners["parent"] /\ up'["parent"] = up["parent"] /\ given' = given
      BY <1>0, <1>4, <2>3, Zenon DEF kore_server_cleanup
    <3>2. \A q \in SocketPaths : fs'[q] = fs[q]
      BY <1>4, <2>3, Zenon DEF kore_server_cleanup, kore_listener_free
    <3> QED  BY <2>1, <3>1, <3>2, SMTT(30) DEF Leads, Removed, OnHosts, Running
  <2> QED  BY <2>2, <2>3, Zenon
<1>5. ASSUME NEW p \in Processes, Killed(p)  PROVE ListenersInv'
  <2>1. listeners' = [q \in Processes |-> listeners'[q]] /\ up' = [q \in Processes |-> up'[q]]
    BY <1>5, Zenon DEF Killed
  <2>2. CASE p = "parent"
    <3>1. listeners'["parent"] = none /\ up'["parent"] = "dead" /\ given' = given
      BY <1>0, <1>5, <2>2 DEF Killed
    <3> QED  BY <2>1, <3>1, Zenon DEF Leads, Running, none
  <2>3. CASE p # "parent"
    <3>1. /\ listeners'["parent"] = listeners["parent"] /\ up'["parent"] = up["parent"]
          /\ UNCHANGED <<given, fs>>
      BY <1>0, <1>5, <2>3, Zenon DEF Killed
    <3> QED  BY <2>1, <3>1, SMTT(30) DEF Leads, Removed, OnHosts, Running
  <2> QED  BY <2>2, <2>3, Zenon
<1>6. CASE Started
  <2>1. /\ listeners' = [q \in Processes |-> listeners'[q]] /\ up' = [q \in Processes |-> up'[q]]
        /\ listeners'["parent"] = none /\ up'["parent"] = "start"
        /\ given' = [q \in SocketPaths |-> 0]
    BY <1>0, <1>6, Zenon DEF Started
  <2> QED  BY <2>1 DEF Leads, Removed, none
<1>7. CASE UNCHANGED listenersVars
  BY <1>7 DEF listenersVars, Leads, Removed, OnHosts, Running
<1> HIDE DEF ListenersInv
<1> QED  BY <1>1, <1>2, <1>3, <1>4, <1>5, <1>6, <1>7, Zenon DEF ListenersNext

\* For any paths, servers, processes and binds: a UNIX socket that the parent
\* listens on is reached by its file, whoever ends or is killed, and a parent
\* that ends in order leaves none of its files (kore_listener_free).
THEOREM SocketsKept == ListenersSpec => []SocketsReachable
<1>1. ListenersInv => SocketsReachable
  BY Zenon DEF ListenersInv, Leads, Removed, SocketsReachable
<1> QED  BY <1>1, ListenersInitial, ListenersInductive, PTL DEF ListenersSpec

\* What the parent set up before it serves is complete and stays reachable,
\* whatever the lines, calls, failures and deaths (kore_parse_config,
\* kore_server_bind_unix).
THEOREM ServersUp == StartupSpec => []ServersReady
<1>1. ConfigComplete /\ RoutesApart /\ SocketsReachable => ServersReady
  BY DEF ServersReady
<1> QED  BY <1>1, ConfigSound, SocketsKept, PTL DEF StartupSpec
=============================================================================
