-------------------------------- MODULE Acme --------------------------------
(***************************************************************************)
(* How a domain gets its certificate: the keymgr (src/keymgr_openssl.c),    *)
(* which has the keys and decides that an order is due, and the acme        *)
(* process (src/acme.c), which talks to the provider and has everything it  *)
(* sends signed by the keymgr first.  The two exchange messages over the    *)
(* parent.  One domain; the provider is external.                           *)
(***************************************************************************)
EXTENDS Integers, Sequences, FiniteSets, SequencesExt

CONSTANTS
    Auths,      \* the authorizations of an order, an initial part of 1, 2, ...
    Lates,      \* subset of {"no", "yes"}: see late
    FaultsAt,   \* what may fail: subset of {"directory", "account", "nonce", "request"}
    MaxFaults,  \* bound: how often something fails
    MaxOrders,  \* bound: orders made at the provider
    MaxDue,     \* bound: orders waiting in the keymgr, and timers to redo one
    MaxReloads, \* bound: SIGUSR1 to the keymgr
    MaxOps      \* bound: operations that wait while the keymgr is late

Orders == 1 .. MaxOrders

VARIABLES
    late,               \* "no": the keymgr signs within the second between two ticks; "yes":
                        \* it may take longer than the 30 that an operation waits
    acmeproc_ready,     \* keymgr: the acme process has an account
    due, redo,          \* keymgr: orders waiting for it; timers that redo an order
    cert,               \* the certificate file: "none" or "new"
    challenge,          \* the order whose challenge the workers were given, or 0
    toKeymgr, toAcme,   \* messages on their way
    directory, account, \* acme: account_url and the rest are known; account_id is
    order,              \* acme: the orders, see AcmeOrder
    signops,            \* acme: operations that wait for a signature
    ca,                 \* external: the provider's view of each order
    made, faults, reloads, dropped  \* counts; dropped: an order that no one follows

moving == <<acmeproc_ready, due, redo, cert, challenge, toKeymgr, toAcme, directory, account, order, signops,
            ca, made, faults, reloads, dropped>>
vars == <<late, moving>>

Statuses == {"pending", "ready", "processing", "valid", "invalid"}
AcmeOrder == [where : {"none", "live", "gone", "freed"},
              state : {"UPDATE", "UPDATE_AUTH", "RUNNING", "FETCH_CERT", "COMPLETE", "CANCELLED", "ERROR"},
              status : Statuses, auths : Int, cur : Nat, csr : 0 .. 1,
              known : SUBSET Auths,         \* auth->challenge is there
              created : SUBSET Auths,       \* ACME_FLAG_CHALLENGE_CREATED
              auth : [Auths -> Statuses]]   \* auth->status, and the challenge's
NoOrder == [where |-> "none", state |-> "UPDATE", status |-> "pending", auths |-> 0, cur |-> 1, csr |-> 0,
            known |-> {}, created |-> {}, auth |-> [a \in Auths |-> "pending"]]
Callbacks == {"account", "create", "update", "auth", "cert", "respond", "finalize"}
Op(cb, o, a) == [cb |-> cb, o |-> o, a |-> a]
Msg(type, op) == [type |-> type, op |-> op]
NoOp == Op("account", 0, 0)

TypeOK ==
    /\ late \in Lates /\ acmeproc_ready \in 0 .. 1
    /\ due \in 0 .. MaxDue /\ redo \in 0 .. MaxDue /\ cert \in {"none", "new"}
    /\ challenge \in Orders \union {0} /\ directory \in {"yes", "no"} /\ account \in {"yes", "no"}
    /\ order \in [Orders -> AcmeOrder]
    /\ \A i \in 1 .. Len(signops) : signops[i] \in [cb : Callbacks, o : Orders \union {0}, a : Auths \union {0}]
    /\ made \in 0 .. MaxOrders /\ faults \in 0 .. MaxFaults /\ reloads \in 0 .. MaxReloads /\ dropped \in 0 .. 1

\* keymgr_acme_init: the account's key, then the request for the account.
keymgr_acme_init == <<Msg("ACCOUNT", NoOp)>>

\* acme_parse_directory is tried once, before the loop of kore_acme_run.
acme_parse_directory ==
    \/ directory = "yes" /\ faults = 0
    \/ directory = "no" /\ "directory" \in FaultsAt /\ MaxFaults > 0 /\ faults = 1

\* The keymgr and the acme process have started.
Init ==
    /\ late \in Lates /\ acmeproc_ready = 0 /\ due = 0 /\ redo = 0 /\ cert = "none" /\ challenge = 0
    /\ toKeymgr = <<>> /\ toAcme = keymgr_acme_init
    /\ acme_parse_directory
    /\ account = "no" /\ order = [o \in Orders |-> NoOrder] /\ signops = <<>>
    /\ ca = [o \in Orders |-> [auth |-> [a \in Auths |-> "pending"], asked |-> {}, final |-> "no"]]
    /\ made = 0 /\ reloads = 0 /\ dropped = 0
-----------------------------------------------------------------------------
\* A request to the provider goes well or not.
Works(kind, fails) ==
    \/ fails = "no" /\ UNCHANGED faults
    \/ fails = "yes" /\ kind \in FaultsAt /\ faults < MaxFaults /\ faults' = faults + 1

\* What is signed: acme_protected_component with the nonce, and the payload;
\* the keymgr gives it back under the id of its operation.
acme_protected_component(op) == Msg("SIGN", op)

\* acme_sign_submit: a nonce, an operation, and the keymgr is asked to sign;
\* without a nonce there is no operation, and the caller is not told.
acme_sign_submit(ops, failed, first) ==
    LET asked == SelectSeq(ops, LAMBDA op : op \notin failed)
    IN /\ signops' = signops \o asked
       /\ toKeymgr' = toKeymgr \o first \o [i \in 1 .. Len(asked) |-> acme_protected_component(asked[i])]

\* The ones of ops for which there is no nonce.
NonceFails(ops, failed) ==
    \/ failed = {} /\ UNCHANGED faults
    \/ /\ "nonce" \in FaultsAt /\ faults < MaxFaults /\ faults' = faults + 1
       /\ \E i \in 1 .. Len(ops) : failed = {ops[i]}
FailSets(ops) == {{}} \union {{ops[i]} : i \in 1 .. Len(ops)}

UnchangedKeymgr == UNCHANGED <<acmeproc_ready, due, redo, cert, challenge, reloads>>

\* acme_account_reg, for ACCOUNT_CREATE and ACCOUNT_RESOLVE.
acme_account_reg ==
    /\ toAcme # <<>> /\ Head(toAcme).type = "ACCOUNT" /\ toAcme' = Tail(toAcme)
    /\ IF directory = "no" THEN UNCHANGED <<signops, toKeymgr, faults, account>>
       ELSE /\ account' = "no"
            /\ \E failed \in FailSets(<<NoOp>>) :
                 NonceFails(<<NoOp>>, failed) /\ acme_sign_submit(<<NoOp>>, failed, <<>>)
    /\ UnchangedKeymgr /\ UNCHANGED <<directory, order, ca, made, dropped>>

\* acme_order_create: no nonce, and nobody tells the keymgr.
acme_order_create ==
    /\ toAcme # <<>> /\ Head(toAcme).type = "ORDER_CREATE" /\ toAcme' = Tail(toAcme)
    /\ \E failed \in FailSets(<<Op("create", 0, 0)>>) :
         /\ NonceFails(<<Op("create", 0, 0)>>, failed)
         /\ acme_sign_submit(<<Op("create", 0, 0)>>, failed, <<>>)
         /\ dropped' = IF failed = {} THEN dropped ELSE 1
    /\ UnchangedKeymgr /\ UNCHANGED <<directory, account, order, ca, made>>

\* acme_order_csr_response: for the newest order of the domain.
acme_order_csr_response ==
    /\ toAcme # <<>> /\ Head(toAcme).type = "CSR_RESPONSE" /\ toAcme' = Tail(toAcme)
    /\ LET live == {o \in Orders : order[o].where = "live"}
           ops == IF live = {} THEN <<>>
                  ELSE <<Op("finalize", CHOOSE o \in live : \A p \in live : p <= o, 0)>>
       IN \E failed \in FailSets(ops) : NonceFails(ops, failed) /\ acme_sign_submit(ops, failed, <<>>)
    /\ UnchangedKeymgr /\ UNCHANGED <<directory, account, order, ca, made, dropped>>
-----------------------------------------------------------------------------
\* acme_sign_result takes the operation off the list; a result for one that
\* expired is for no one.
Result == toAcme # <<>> /\ Head(toAcme).type = "SIGN_RESULT"
Signed(op) ==
    /\ Result /\ Head(toAcme).op = op /\ op \in ToSet(signops) /\ toAcme' = Tail(toAcme)
    /\ signops' = RemoveFirst(signops, op)

ResultUnknown ==
    /\ Result /\ Head(toAcme).op \notin ToSet(signops) /\ toAcme' = Tail(toAcme)
    /\ UnchangedKeymgr
    /\ UNCHANGED <<directory, account, order, ca, made, dropped, signops, toKeymgr, faults>>

\* Wrong variant: the keymgr is not told that there is an account.
AccountUntold ==
    /\ Signed(NoOp)
    /\ \E fails \in {"no", "yes"} :
         /\ Works("account", fails)
         /\ account' = IF fails = "no" THEN "yes" ELSE account
    /\ UNCHANGED toKeymgr
    /\ UnchangedKeymgr /\ UNCHANGED <<directory, order, ca, made, dropped>>

acme_account_reg_submit ==
    /\ Signed(NoOp)
    /\ \E fails \in {"no", "yes"} :
         /\ Works("account", fails)
         /\ account' = IF fails = "no" THEN "yes" ELSE account
         /\ toKeymgr' = IF fails = "no" THEN Append(toKeymgr, Msg("PROC_READY", NoOp)) ELSE toKeymgr
    /\ UnchangedKeymgr /\ UNCHANGED <<directory, order, ca, made, dropped>>

\* A new order, first seen as the provider made it; or the keymgr is told.
acme_order_create_submit ==
    /\ Signed(Op("create", 0, 0)) /\ made < MaxOrders
    /\ \E fails \in {"no", "yes"} :
         /\ Works("request", fails)
         /\ IF fails = "no"
            THEN made' = made + 1 /\ order' = [order EXCEPT ![made + 1].where = "live"] /\ UNCHANGED toKeymgr
            ELSE toKeymgr' = Append(toKeymgr, Msg("ORDER_FAILED", NoOp)) /\ UNCHANGED <<made, order>>
    /\ UnchangedKeymgr /\ UNCHANGED <<directory, account, ca, dropped>>

\* external: what the provider says of the order.
CaStatus(o) ==
    IF \E a \in Auths : ca[o].auth[a] = "invalid" THEN "invalid"
    ELSE IF \E a \in Auths : ca[o].auth[a] = "pending" THEN "pending"
    ELSE [no |-> "ready", asked |-> "processing", yes |-> "valid"][ca[o].final]

acme_order_update_submit(o) ==
    /\ Signed(Op("update", o, 0)) /\ order[o].where = "live"
    /\ \E fails \in {"no", "yes"} :
         /\ Works("request", fails)
         /\ order' = [order EXCEPT ![o].state = IF fails = "no" THEN "UPDATE_AUTH" ELSE "ERROR",
                                   ![o].status = IF fails = "no" THEN CaStatus(o) ELSE @]
    /\ UnchangedKeymgr /\ UNCHANGED <<directory, account, ca, made, dropped, toKeymgr>>

\* The last one of the authorizations lets the order run.
acme_order_auth_update_submit(o, a) ==
    /\ Signed(Op("auth", o, a)) /\ order[o].where = "live"
    /\ \E fails \in {"no", "yes"} :
         /\ Works("request", fails)
         /\ order' = IF fails = "yes" THEN [order EXCEPT ![o].state = "CANCELLED"]
                     ELSE [order EXCEPT ![o].auth[a] = ca[o].auth[a], ![o].known = @ \union {a},
                                        ![o].auths = @ - 1,
                                        ![o].state = IF order[o].auths = 1 THEN "RUNNING" ELSE @]
    /\ UnchangedKeymgr /\ UNCHANGED <<directory, account, ca, made, dropped, toKeymgr>>

acme_order_fetch_certificate_submit(o) ==
    /\ Signed(Op("cert", o, 0)) /\ order[o].where = "live"
    /\ \E fails \in {"no", "yes"} :
         /\ Works("request", fails)
         /\ order' = [order EXCEPT ![o].state = IF fails = "no" THEN "COMPLETE" ELSE "CANCELLED"]
         /\ toKeymgr' = IF fails = "no" THEN Append(toKeymgr, Msg("INSTALL_CERT", NoOp)) ELSE toKeymgr
    /\ UnchangedKeymgr /\ UNCHANGED <<directory, account, ca, made, dropped>>

\* The answer to a challenge, or the request for the certificate, is sent.
acme_generic_submit(o, a) ==
    /\ Signed(Op(IF a = 0 THEN "finalize" ELSE "respond", o, a))
    /\ \E fails \in {"no", "yes"} :
         /\ Works("request", fails)
         /\ ca' = IF fails = "yes" THEN ca
                  ELSE IF a = 0 THEN [ca EXCEPT ![o].final = IF CaStatus(o) = "ready" THEN "asked" ELSE @]
                  ELSE [ca EXCEPT ![o].asked = @ \union {a}]
    /\ UnchangedKeymgr /\ UNCHANGED <<directory, account, order, made, dropped, toKeymgr>>
-----------------------------------------------------------------------------
\* acme_order_process, once a second.  The state it leaves is UPDATE, also
\* after WAITING was set, unless the certificate is to be fetched.
Ticks(o) ==
    /\ order[o].where = "live"
    /\ late = "no" => toKeymgr = <<>> /\ toAcme = <<>>
    /\ late = "yes" => Len(signops) < MaxOps
Again(o) == [order EXCEPT ![o].state = "UPDATE"]
Asks(o, ops, new, first) ==
    /\ \E failed \in FailSets(ops) : NonceFails(ops, failed) /\ acme_sign_submit(ops, failed, first)
    /\ order' = new

TickUpdate(o) ==
    /\ Ticks(o) /\ order[o].state = "UPDATE" /\ Asks(o, <<Op("update", o, 0)>>, Again(o), <<>>)
    /\ UnchangedKeymgr /\ UNCHANGED <<directory, account, ca, made, dropped, toAcme>>

TickAuth(o) ==
    /\ Ticks(o) /\ order[o].state = "UPDATE_AUTH"
    /\ Asks(o, [i \in 1 .. Cardinality(Auths) |-> Op("auth", o, i)],
            [order EXCEPT ![o].state = "UPDATE", ![o].auths = Cardinality(Auths)], <<>>)
    /\ UnchangedKeymgr /\ UNCHANGED <<directory, account, ca, made, dropped, toAcme>>

TickFetch(o) ==
    /\ Ticks(o) /\ order[o].state = "FETCH_CERT" /\ Asks(o, <<Op("cert", o, 0)>>, Again(o), <<>>)
    /\ UnchangedKeymgr /\ UNCHANGED <<directory, account, ca, made, dropped, toAcme>>

Running(o, status) == Ticks(o) /\ order[o].state = "RUNNING" /\ order[o].status = status

\* RUNNING and pending: acme_order_auth_process for the current one, and
\* acme_challenge_tls_alpn_01_create the first time it is pending.  Wrong
\* variant: the answer goes out before the keymgr is asked.
TickChallengeLate(o) ==
    /\ Running(o, "pending") /\ order[o].cur \in Auths /\ order[o].auth[order[o].cur] = "pending"
    /\ order[o].cur \notin order[o].created
    /\ signops' = Append(signops, Op("respond", o, order[o].cur))
    /\ toKeymgr' = toKeymgr \o <<Msg("SIGN", Op("respond", o, order[o].cur)),
                                Msg("CHALLENGE_CERT", Op("respond", o, 0))>>
    /\ order' = [Again(o) EXCEPT ![o].created = @ \union {order[o].cur}]
    /\ UnchangedKeymgr /\ UNCHANGED <<directory, account, ca, made, dropped, toAcme, faults>>

TickChallenge(o) ==
    /\ Running(o, "pending") /\ order[o].cur \in Auths /\ order[o].auth[order[o].cur] = "pending"
    /\ order[o].cur \notin order[o].created
    /\ Asks(o, <<Op("respond", o, order[o].cur)>>,
            [Again(o) EXCEPT ![o].created = @ \union {order[o].cur}],
            <<Msg("CHALLENGE_CERT", Op("respond", o, 0))>>)
    /\ UnchangedKeymgr /\ UNCHANGED <<directory, account, ca, made, dropped, toAcme>>

\* Nothing to do but go on: the challenge is out, the authorization valid,
\* the CSR asked for, the certificate in the making or available.
TickGoesOn(o) ==
    /\ Ticks(o) /\ order[o].state = "RUNNING"
    /\ order[o].status \in {"pending", "ready", "processing", "valid"}
    /\ LET cur == order[o].cur
           p == order[o].status = "pending" /\ cur \in Auths
       IN /\ p => order[o].auth[cur] # "invalid"
          /\ p /\ order[o].auth[cur] = "pending" => cur \in order[o].created
          /\ order' = [order EXCEPT
                ![o].state = IF order[o].status = "valid" THEN "FETCH_CERT" ELSE "UPDATE",
                ![o].cur = IF p /\ order[o].auth[cur] = "valid" THEN cur + 1 ELSE @,
                ![o].csr = IF order[o].status = "ready" THEN 1 ELSE @]
          /\ toKeymgr' = IF order[o].status = "ready" /\ order[o].csr = 0
                         THEN Append(toKeymgr, Msg("CSR_REQUEST", NoOp)) ELSE toKeymgr
    /\ UnchangedKeymgr /\ UNCHANGED <<directory, account, ca, made, dropped, toAcme, signops, faults>>

\* When an order is given up: it was cancelled, or acme_order_auth_process
\* finds the current authorization refused.
Fails(o) ==
    \/ order[o].state \in {"CANCELLED", "ERROR"}
    \/ order[o].state = "RUNNING" /\ order[o].status = "invalid"
    \/ /\ order[o].state = "RUNNING" /\ order[o].status = "pending" /\ order[o].cur \in Auths
       /\ order[o].auth[order[o].cur] = "invalid"

\* The keymgr is told, unless the order is complete.
acme_order_retry(o) ==
    IF order[o].state = "COMPLETE" THEN toKeymgr ELSE Append(toKeymgr, Msg("ORDER_FAILED", NoOp))

acme_order_remove(o) ==
    /\ Ticks(o) /\ (Fails(o) \/ order[o].state = "COMPLETE")
    /\ order' = [order EXCEPT ![o].where = "gone"]
    /\ toKeymgr' = acme_order_retry(o)
    /\ UnchangedKeymgr /\ UNCHANGED <<directory, account, ca, made, dropped, toAcme, signops, faults>>

\* ACME_ORDER_TIMEOUT: four minutes after its start.
TimedOut(o) ==
    /\ Ticks(o) /\ order' = [order EXCEPT ![o].where = "gone"]
    /\ toKeymgr' = Append(toKeymgr, Msg("ORDER_FAILED", NoOp))
    /\ UnchangedKeymgr /\ UNCHANGED <<directory, account, ca, made, dropped, toAcme, signops, faults>>

\* After 30 seconds what the operation is for is freed with it, the order or
\* one of its authorizations too: of a freed order nothing is said further.
acme_sign_expire(op) ==
    /\ late = "yes" /\ op \in ToSet(signops) /\ signops' = RemoveFirst(signops, op)
    /\ order' = IF op.cb \in {"update", "auth", "cert"} THEN [order EXCEPT ![op.o].where = "freed"] ELSE order
    /\ UnchangedKeymgr /\ UNCHANGED <<directory, account, ca, made, dropped, toAcme, toKeymgr, faults>>
-----------------------------------------------------------------------------
UnchangedAcme == UNCHANGED <<directory, account, order, signops, ca, made, faults, dropped>>
FromAcme(type) == toKeymgr # <<>> /\ Head(toKeymgr).type = type /\ toKeymgr' = Tail(toKeymgr)

\* keymgr_acme_check: an order is due when there is no certificate (or it is
\* about to expire).
keymgr_acme_check == due' = IF cert = "none" /\ due < MaxDue THEN due + 1 ELSE due

keymgr_acme_ready ==
    /\ FromAcme("PROC_READY") /\ acmeproc_ready' = 1 /\ keymgr_acme_check
    /\ UnchangedAcme /\ UNCHANGED <<redo, cert, challenge, toAcme, reloads>>

\* The hourly timer.
keymgr_acme_renewal ==
    /\ due = 0 /\ redo = 0 /\ toKeymgr = <<>> /\ toAcme = <<>>
    /\ \A o \in Orders : order[o].where # "live"
    /\ cert = "none" /\ keymgr_acme_check /\ dropped' = 0
    /\ UNCHANGED <<directory, account, order, signops, ca, made, faults>>
    /\ UNCHANGED <<acmeproc_ready, redo, cert, challenge, toAcme, toKeymgr, reloads>>

keymgr_acme_order_start ==
    /\ due > 0 /\ acmeproc_ready = 1 /\ due' = due - 1
    /\ toAcme' = Append(toAcme, Msg("ORDER_CREATE", NoOp))
    /\ UnchangedAcme /\ UNCHANGED <<acmeproc_ready, redo, cert, challenge, toKeymgr, reloads>>

keymgr_acme_order_failed ==
    /\ redo < MaxDue /\ FromAcme("ORDER_FAILED") /\ redo' = redo + 1
    /\ UnchangedAcme /\ UNCHANGED <<acmeproc_ready, due, cert, challenge, toAcme, reloads>>

keymgr_acme_order_redo ==
    /\ redo > 0 /\ due < MaxDue /\ redo' = redo - 1 /\ due' = due + 1
    /\ UnchangedAcme /\ UNCHANGED <<acmeproc_ready, cert, challenge, toAcme, toKeymgr, reloads>>

keymgr_acme_sign ==
    /\ FromAcme("SIGN") /\ toAcme' = Append(toAcme, Msg("SIGN_RESULT", Head(toKeymgr).op))
    /\ UnchangedAcme /\ UNCHANGED <<acmeproc_ready, due, redo, cert, challenge, reloads>>

keymgr_acme_challenge_cert ==
    /\ FromAcme("CHALLENGE_CERT") /\ challenge' = Head(toKeymgr).op.o
    /\ UnchangedAcme /\ UNCHANGED <<acmeproc_ready, due, redo, cert, toAcme, reloads>>

keymgr_acme_csr ==
    /\ FromAcme("CSR_REQUEST") /\ toAcme' = Append(toAcme, Msg("CSR_RESPONSE", NoOp))
    /\ UnchangedAcme /\ UNCHANGED <<acmeproc_ready, due, redo, cert, challenge, reloads>>

\* The file, the certificate to the workers, and the challenge is cleared.
keymgr_acme_install_cert ==
    /\ FromAcme("INSTALL_CERT") /\ cert' = "new" /\ challenge' = 0
    /\ UnchangedAcme /\ UNCHANGED <<acmeproc_ready, due, redo, toAcme, reloads>>

\* keymgr_reload: keymgr_acme_init once more.
keymgr_reload ==
    /\ reloads < MaxReloads /\ reloads' = reloads + 1 /\ acmeproc_ready' = 0
    /\ toAcme' = toAcme \o keymgr_acme_init
    /\ UnchangedAcme /\ UNCHANGED <<due, redo, cert, challenge, toKeymgr>>

\* external: the provider connects and checks an answered challenge; it
\* issues what it was asked for.
CaChecks(o, a) ==
    /\ a \in ca[o].asked /\ ca[o].auth[a] = "pending"
    /\ ca' = [ca EXCEPT ![o].auth[a] = IF challenge = o THEN "valid" ELSE "invalid"]
    /\ UnchangedKeymgr
    /\ UNCHANGED <<directory, account, order, signops, made, faults, dropped, toAcme, toKeymgr>>

CaIssues(o) ==
    /\ ca[o].final = "asked" /\ ca' = [ca EXCEPT ![o].final = "yes"]
    /\ UnchangedKeymgr
    /\ UNCHANGED <<directory, account, order, signops, made, faults, dropped, toAcme, toKeymgr>>

Acme ==
    \/ acme_account_reg \/ acme_order_create \/ acme_order_csr_response \/ ResultUnknown
    \/ acme_account_reg_submit \/ acme_order_create_submit
    \/ \E o \in Orders :
         \/ acme_order_update_submit(o) \/ acme_order_fetch_certificate_submit(o)
         \/ \E a \in Auths : acme_order_auth_update_submit(o, a)
         \/ \E a \in Auths \union {0} : acme_generic_submit(o, a)
Tick(o) ==
    \/ TickUpdate(o) \/ TickAuth(o) \/ TickFetch(o)
    \/ TickChallenge(o) \/ TickGoesOn(o) \/ acme_order_remove(o)
KeymgrStep ==
    \/ keymgr_acme_ready \/ keymgr_acme_order_start \/ keymgr_acme_order_failed \/ keymgr_acme_order_redo
    \/ keymgr_acme_sign \/ keymgr_acme_challenge_cert \/ keymgr_acme_csr \/ keymgr_acme_install_cert
Provider == \E o \in Orders : CaIssues(o) \/ \E a \in Auths : CaChecks(o, a)

Next ==
    /\ UNCHANGED late
    /\ \/ Acme \/ KeymgrStep \/ Provider \/ keymgr_acme_renewal \/ keymgr_reload
       \/ \E o \in Orders : Tick(o) \/ TimedOut(o)
       \/ \E op \in ToSet(signops) : acme_sign_expire(op)

Spec == Init /\ [][Next]_vars

\* Both processes and the provider go on, the timers run.
FairSpec ==
    /\ Spec /\ WF_moving(Acme \/ KeymgrStep) /\ WF_moving(keymgr_acme_renewal) /\ WF_moving(Provider)
    /\ SF_moving(\E o \in Orders : Tick(o)) /\ SF_moving(\E o \in Orders : TimedOut(o))
-----------------------------------------------------------------------------
\* An answer to a challenge reaches the provider only after the keymgr has
\* made the challenge's certificate: the request for it is ahead of the one
\* for the signature, although acme_challenge_tls_alpn_01_create does not wait.
ChallengeFirst ==
    \A o \in Orders : ca[o].asked # {} =>
        \/ challenge # 0 \/ cert = "new"
        \/ \E p \in Orders : p # o /\ order[p].where # "none"

\* An order runs only when each of its authorizations has its challenge:
\* acme_order_auth_process and acme_order_auth_log_error use it.
ChallengesKnown == late = "no" =>
    \A o \in Orders : order[o].where = "live" /\ order[o].state = "RUNNING" => order[o].known = Auths

\* An operation that waits for a signature is for an order that is still
\* there, as long as the keymgr signs in time.
OpsLive == late = "no" =>
    \A i \in 1 .. Len(signops) :
        signops[i].cb \in {"update", "auth", "cert"} => order[signops[i].o].where = "live"

\* While the domain has no certificate somebody works on it: an order is due,
\* a timer will redo it, a message or an operation is about it, or an order is
\* live; only an order for which there was no nonce is lost.
Followed ==
    late = "no" /\ acmeproc_ready = 1 /\ reloads = 0 /\ cert = "none" /\ dropped = 0 =>
        \/ due > 0 \/ redo > 0 \/ \E o \in Orders : order[o].where = "live"
        \/ \E m \in ToSet(toKeymgr) : m.type \in {"ORDER_FAILED", "INSTALL_CERT"}
        \/ \E m \in ToSet(toAcme) : m.type = "ORDER_CREATE"
        \/ Op("create", 0, 0) \in ToSet(signops)

Settled == cert = "new" \/ made = MaxOrders

\* keymgr_openssl.c: the keymgr will initiate the process of acquiring new
\* certificates if they do not exist.
CertificateArrives == <>Settled
=============================================================================
