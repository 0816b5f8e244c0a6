----------------------------- MODULE AccessLog -----------------------------
(***************************************************************************)
(* The access log (src/accesslog.c): a worker appends entries to a buffer   *)
(* in shared memory under a spin lock, and waits there while the buffer is  *)
(* full; the parent's timer collects the buffers, sorts the entries to      *)
(* their domains and writes them; the shutdown waits for the workers first. *)
(***************************************************************************)
EXTENDS Integers, Sequences, FiniteSets, SequencesExt

CONSTANTS
    Workers,        \* an initial part of 1, 2, ...
    Domains,
    Lens,           \* the lengths an entry may have
    BUFLEN,         \* KORE_ACCESSLOG_BUFLEN
    SYNC,           \* KORE_ACCESSLOG_SYNC
    HDR,            \* sizeof(struct kore_alog_header)
    GUESS,          \* LOG_ENTRY_MINSIZE_GUESS
    LOGBUF_SIZE,
    DOMAIN_LOGBUF_LEN,
    TICKS,          \* every how many runs the timer forces; 100 in the code
    MaxEntries,     \* bound: entries written
    MaxDeaths       \* bound: workers that die

VARIABLES
    wpc,        \* per worker: "idle", "want" an entry logged, "in" the lock, "gone"
    cur,        \* per worker: the entry it wants logged
    lock,       \* lb.lock, by whom: "free", "worker"
    buf,        \* lb.buf up to lb.offset: a sequence of entries
    parent,     \* "idle", "gather", "parse", "flush", "waitpid", "gone"
    at, force, ticks,   \* gather: the worker it is at, its argument; the timer's count
    logbuf, dbuf, file, \* the parent's buffer, dom->logbuf, what is on disk
    quit,       \* the signal to the workers was sent
    written, lost,      \* history: entries logged, per worker; entries a failed write dropped
    spoiled,    \* an entry went past the end of the buffer: nothing is said of what follows
    deaths

vars == <<wpc, cur, lock, buf, parent, at, force, ticks, logbuf, dbuf, file, quit, written, lost,
          spoiled, deaths>>
pvars == <<parent, at, force, ticks, logbuf, dbuf, file, quit, lost>>

Entry == [w : Workers, dom : Domains, len : Lens, id : 1 .. MaxEntries]
LengthOf(es) == FoldLeft(LAMBDA n, e : n + e.len, 0, es)
SizeOf(es) == LengthOf(es) + HDR * Len(es)

Total == FoldFunction(LAMBDA s, n : Len(s) + n, 0, written)

TypeOK ==
    /\ wpc \in [Workers -> {"idle", "want", "in", "gone"}] /\ lock \in [Workers -> {"free", "worker"}]
    /\ \A w \in Workers : buf[w] \in Seq(Entry) /\ written[w] \in Seq(Entry)
    /\ parent \in {"idle", "gather", "parse", "flush", "waitpid", "gone"}
    /\ at \in 1 .. Cardinality(Workers) + 1 /\ force \in 0 .. 1 /\ ticks \in 0 .. TICKS - 1
    /\ logbuf \in Seq(Entry) /\ \A d \in Domains : dbuf[d] \in Seq(Entry) /\ file[d] \in Seq(Entry)
    /\ quit \in {"no", "yes"} /\ spoiled \in {"no", "yes"} /\ deaths \in 0 .. MaxDeaths

Init ==
    /\ wpc = [w \in Workers |-> "idle"] /\ cur = [w \in Workers |-> <<>>]
    /\ lock = [w \in Workers |-> "free"] /\ buf = [w \in Workers |-> <<>>]
    /\ parent = "idle" /\ at = 1 /\ force = 0 /\ ticks = 0 /\ logbuf = <<>>
    /\ dbuf = [d \in Domains |-> <<>>] /\ file = [d \in Domains |-> <<>>]
    /\ quit = "no" /\ written = [w \in Workers |-> <<>>] /\ lost = {} /\ spoiled = "no" /\ deaths = 0
-----------------------------------------------------------------------------
\* A request is answered: kore_accesslog has the text of its entry.
kore_accesslog(w, d, n) ==
    /\ wpc[w] = "idle" /\ spoiled = "no"
    /\ Total + Cardinality({v \in Workers : cur[v] # <<>>}) < MaxEntries
    /\ wpc' = [wpc EXCEPT ![w] = "want"]
    /\ cur' = [cur EXCEPT ![w] = <<d, n>>]
    /\ UNCHANGED <<lock, buf, written, spoiled, deaths, pvars>>

accesslog_lock(w) ==
    /\ wpc[w] = "want" /\ lock[w] = "free" /\ lock' = [lock EXCEPT ![w] = "worker"]
    /\ wpc' = [wpc EXCEPT ![w] = "in"]
    /\ UNCHANGED <<cur, buf, written, spoiled, deaths, pvars>>

\* The check takes the header off the offset, not off what is available.
Avail(w) == BUFLEN - SizeOf(buf[w])
Fits(w) == Avail(w) >= HDR + GUESS /\ cur[w][2] < Avail(w)

Made(w) == [w |-> w, dom |-> cur[w][1], len |-> cur[w][2], id |-> Total + 1]

\* The entry and its header are put at the end; else, after a millisecond,
\* another try.
\* Wrong variant: the entry is counted from the start of the buffer.
EntryOver(w) ==
    /\ wpc[w] = "in" /\ lock' = [lock EXCEPT ![w] = "free"]
    /\ IF Fits(w)
       THEN /\ buf' = [buf EXCEPT ![w] = <<Made(w)>>]
            /\ written' = [written EXCEPT ![w] = Append(@, Made(w))]
            /\ wpc' = [wpc EXCEPT ![w] = "idle"] /\ cur' = [cur EXCEPT ![w] = <<>>]
            /\ spoiled' = IF HDR + cur[w][2] > Avail(w) THEN "yes" ELSE spoiled
       ELSE wpc' = [wpc EXCEPT ![w] = "want"] /\ UNCHANGED <<cur, buf, written, spoiled>>
    /\ UNCHANGED <<deaths, pvars>>

Writes(w) ==
    /\ wpc[w] = "in" /\ lock' = [lock EXCEPT ![w] = "free"]
    /\ IF Fits(w)
       THEN /\ buf' = [buf EXCEPT ![w] = Append(@, Made(w))]
            /\ written' = [written EXCEPT ![w] = Append(@, Made(w))]
            /\ wpc' = [wpc EXCEPT ![w] = "idle"] /\ cur' = [cur EXCEPT ![w] = <<>>]
            /\ spoiled' = IF HDR + cur[w][2] > Avail(w) THEN "yes" ELSE spoiled
       ELSE wpc' = [wpc EXCEPT ![w] = "want"] /\ UNCHANGED <<cur, buf, written, spoiled>>
    /\ UNCHANGED <<deaths, pvars>>

\* The worker's loop sees the signal, between two requests.
WorkerExits(w) ==
    /\ wpc[w] = "idle" /\ quit = "yes" /\ wpc' = [wpc EXCEPT ![w] = "gone"]
    /\ UNCHANGED <<cur, lock, buf, written, spoiled, deaths, pvars>>

\* A worker dies and is replaced: kore_worker_spawn does not touch lb.
Dies(w) ==
    /\ wpc[w] # "gone" /\ quit = "no" /\ deaths < MaxDeaths /\ deaths' = deaths + 1
    /\ wpc' = [wpc EXCEPT ![w] = "idle"] /\ cur' = [cur EXCEPT ![w] = <<>>]
    /\ UNCHANGED <<lock, buf, written, spoiled, pvars>>
-----------------------------------------------------------------------------
wvars == <<wpc, cur, lock, written, spoiled, deaths>>

\* The timer: kore_accesslog_run.
kore_accesslog_run ==
    /\ parent = "idle" /\ parent' = "gather" /\ at' = 1 /\ force' = IF ticks = 0 THEN 1 ELSE 0
    /\ ticks' = (ticks + 1) % TICKS
    /\ UNCHANGED <<buf, logbuf, dbuf, file, quit, lost, wvars>>

\* One worker's buffer, under its lock.
GatherOne ==
    /\ parent = "gather" /\ spoiled = "no" /\ at \in Workers /\ lock[at] = "free" /\ at' = at + 1
    /\ IF force = 1 \/ SizeOf(buf[at]) >= SYNC
       THEN logbuf' = logbuf \o buf[at] /\ buf' = [buf EXCEPT ![at] = <<>>]
       ELSE UNCHANGED <<logbuf, buf>>
    /\ UNCHANGED <<parent, force, ticks, dbuf, file, quit, lost, wvars>>

\* After the last: the buffer is parsed when forced or when it is full.
GatherDone ==
    /\ parent = "gather" /\ at \notin Workers
    /\ parent' = IF force = 1 \/ SizeOf(logbuf) >= LOGBUF_SIZE THEN "parse"
                 ELSE IF quit = "yes" THEN "gone" ELSE "idle"
    /\ UNCHANGED <<at, force, ticks, buf, logbuf, dbuf, file, quit, lost, wvars>>

\* accesslog_flush of what domain d then has: written, kept for an EINTR, or
\* dropped for another error.
accesslog_flush(d, all) ==
    IF all # <<>> /\ (force = 1 \/ LengthOf(all) >= DOMAIN_LOGBUF_LEN)
    THEN \/ /\ file' = [file EXCEPT ![d] = @ \o all] /\ dbuf' = [dbuf EXCEPT ![d] = <<>>]
            /\ UNCHANGED lost
         \/ dbuf' = [dbuf EXCEPT ![d] = all] /\ UNCHANGED <<file, lost>>
         \/ dbuf' = [dbuf EXCEPT ![d] = <<>>] /\ lost' = lost \union ToSet(all) /\ UNCHANGED file
    ELSE dbuf' = [dbuf EXCEPT ![d] = all] /\ UNCHANGED <<file, lost>>

ParseOne ==
    /\ parent = "parse" /\ logbuf # <<>> /\ logbuf' = Tail(logbuf)
    /\ accesslog_flush(Head(logbuf).dom, Append(dbuf[Head(logbuf).dom], Head(logbuf)))
    /\ UNCHANGED <<parent, at, force, ticks, buf, quit, wvars>>

\* kore_domain_callback(accesslog_flush_cb) when forced, each domain once.
ParseDone ==
    /\ parent = "parse" /\ logbuf = <<>>
    /\ parent' = (IF force = 1 THEN "flush" ELSE "idle") /\ at' = 1
    /\ UNCHANGED <<force, ticks, buf, logbuf, dbuf, file, quit, lost, wvars>>

DomainAt == SetToSeq(Domains)

FlushOne ==
    /\ parent = "flush" /\ at <= Len(DomainAt) /\ accesslog_flush(DomainAt[at], dbuf[DomainAt[at]])
    /\ at' = at + 1
    /\ UNCHANGED <<parent, force, ticks, buf, logbuf, quit, wvars>>

FlushDone ==
    /\ parent = "flush" /\ at > Len(DomainAt) /\ parent' = IF quit = "yes" THEN "gone" ELSE "idle"
    /\ at' = 1
    /\ UNCHANGED <<force, ticks, buf, logbuf, dbuf, file, quit, lost, wvars>>

\* The parent leaves its loop, and with it the timer: it tells the workers
\* to go and is in waitpid until they have; then one last gather.
Quits ==
    /\ parent = "idle" /\ quit' = "yes" /\ parent' = "waitpid"
    /\ UNCHANGED <<at, force, ticks, buf, logbuf, dbuf, file, lost, wvars>>

kore_server_shutdown ==
    /\ parent = "waitpid" /\ \A w \in Workers : wpc[w] = "gone"
    /\ parent' = "gather" /\ at' = 1 /\ force' = 1
    /\ UNCHANGED <<ticks, buf, logbuf, dbuf, file, quit, lost, wvars>>

ParentSteps ==
    \/ kore_accesslog_run \/ GatherOne \/ GatherDone \/ ParseOne \/ ParseDone \/ FlushOne \/ FlushDone
    \/ kore_server_shutdown

WorkerSteps(w) == accesslog_lock(w) \/ Writes(w) \/ WorkerExits(w)

Next ==
    \/ ParentSteps \/ Quits
    \/ \E w \in Workers : \/ WorkerSteps(w) \/ Dies(w)
                          \/ \E d \in Domains, n \in Lens : kore_accesslog(w, d, n)

Spec == Init /\ [][Next]_vars

\* The processes run; the timer goes off, and the lock is had eventually.
FairSpec ==
    /\ Spec /\ WF_vars(ParentSteps) /\ SF_vars(GatherOne)
    /\ \A w \in Workers : WF_vars(WorkerSteps(w)) /\ SF_vars(accesslog_lock(w))
-----------------------------------------------------------------------------
InBuffers(d) ==
    LET ofBuf(w) == SelectSeq(buf[w], LAMBDA e : e.dom = d)
    IN [w \in Workers |->
          SelectSeq(file[d] \o dbuf[d] \o SelectSeq(logbuf, LAMBDA e : e.dom = d) \o ofBuf(w),
                    LAMBDA e : e.w = w)]

\* No entry is lost, repeated or put out of order between the worker that
\* logs it and the file of its domain, except what a failed write drops: what
\* file, domain, parent and worker hold, in this order, is what the worker
\* wrote.
EntriesKept ==
    \A d \in Domains, w \in Workers :
        InBuffers(d)[w] = SelectSeq(written[w], LAMBDA e : e.dom = d /\ e \notin lost)

\* The lock is held by a worker inside kore_accesslog, or by one that died
\* there; and the parent ends only with all that was logged written, but for
\* an interrupted write.
LockHeldInside ==
    /\ \A w \in Workers : wpc[w] = "in" => lock[w] = "worker"
    /\ deaths = 0 => \A w \in Workers : lock[w] = "worker" => wpc[w] = "in"
    /\ parent = "gone" => logbuf = <<>> /\ \A w \in Workers : buf[w] = <<>>

\* The header's promise: every entry is eventually on disk or in the buffer of
\* its domain (or a write of its domain has failed).
EntriesReachDisk ==
    \A n \in 1 .. MaxEntries :
        (\E w \in Workers : \E e \in ToSet(written[w]) : e.id = n) ~>
            (\/ \E d \in Domains : \E e \in ToSet(file[d] \o dbuf[d]) : e.id = n
             \/ \E e \in lost : e.id = n
             \/ spoiled = "yes")
=============================================================================
