------------------------------ MODULE NetSend -------------------------------
(***************************************************************************)
(* The send queue of one connection (src/net.c): pieces of data that share *)
(* buffers, streams and files with a buffer of their own, partial writes,  *)
(* sendfile (src/linux.c), writes through OpenSSL that have to be repeated *)
(* as they were (src/tls_openssl.c), edge-triggered events, removal.       *)
(* Bytes are numbered in the order in which handlers send them.            *)
(***************************************************************************)
EXTENDS Integers, Sequences, FiniteSets, SequencesExt

CONSTANTS
    Modes,          \* server->tls: a subset of {"plain", "tls"}
    PAYLOAD_MAX,    \* NETBUF_SEND_PAYLOAD_MAX
    SENDFILE_MAX,   \* SENDFILE_PAYLOAD_MAX
    SockBuf,        \* what the kernel takes before the peer reads
    Sizes,          \* lengths of the pieces that are sent
    MaxBytes,       \* bound: bytes sent
    MaxBufs         \* bound: netbufs made

VARIABLES
    mode,       \* server->tls, for good
    queue,      \* c->send_queue
    made,       \* netbufs made so far: their number is their address
    next,       \* the next byte to be sent by a handler
    evw,        \* KORE_EVENT_WRITE in c->evt.flags: "on" or "off"
    pc,         \* "idle", "handler" (has queued something) or "flush"
    state,      \* "open", "disconnecting" or "removed"
    closing,    \* CONN_CLOSE_EMPTY: "yes" or "no"
    sock,       \* bytes in the kernel's buffer
    edge,       \* what epoll has to say: "none", "full" (asked for) or "ready"
    pend,       \* the record that OpenSSL has to finish before any other
    wire,       \* history: the bytes the connection has taken, in order
    given,      \* history: the bytes of streams that were given up
    released    \* history: how often the memory of each netbuf was given back

moving == <<queue, made, next, evw, pc, state, closing, sock, edge, pend, wire,
            given, released>>
vars == <<mode, moving>>

Netbuf == [id : 1 .. MaxBufs, kind : {"data", "stream", "file"},
           bytes : Seq(1 .. MaxBytes), off : 0 .. MaxBytes,
           cap : 0 .. MaxBytes + PAYLOAD_MAX, flags : SUBSET {"RESEND", "FORCE"}]
NoRecord == [id |-> 0, off |-> 0, len |-> 0, left |-> 0]

TypeOK ==
    /\ mode \in Modes
    /\ queue \in Seq(Netbuf) /\ made \in 0 .. MaxBufs /\ next \in 1 .. MaxBytes + 1
    /\ evw \in {"on", "off"} /\ pc \in {"idle", "handler", "flush"}
    /\ state \in {"open", "disconnecting", "removed"} /\ closing \in {"yes", "no"}
    /\ sock \in 0 .. SockBuf /\ edge \in {"none", "full", "ready"}
    /\ pend = NoRecord \/ pend \in [id : 1 .. made, off : 0 .. MaxBytes,
                                    len : 1 .. PAYLOAD_MAX, left : 1 .. PAYLOAD_MAX]
    /\ wire \in Seq(1 .. MaxBytes) /\ given \subseteq 1 .. MaxBytes
    /\ released \in [1 .. MaxBufs -> 0 .. 2]

\* The socket has just been added to epoll: it will be reported as writable.
Init ==
    /\ mode \in Modes
    /\ queue = << >> /\ made = 0 /\ next = 1 /\ evw = "off" /\ pc = "idle"
    /\ state = "open" /\ closing = "no" /\ sock = 0 /\ edge = "ready"
    /\ pend = NoRecord /\ wire = << >> /\ given = {}
    /\ released = [i \in 1 .. MaxBufs |-> 0]

Least(a, b) == IF a < b THEN a ELSE b
Greatest(a, b) == IF a > b THEN a ELSE b
Bytes(n) == [i \in 1 .. n |-> next + i - 1]
Left(nb) == Len(nb.bytes) - nb.off
Unsent(q) == FlattenSeq([i \in DOMAIN q |-> SubSeq(q[i].bytes, q[i].off + 1, Len(q[i].bytes))])
-----------------------------------------------------------------------------
\* The handlers of the worker, which call net_send_flush in the end.
Handler(n) ==
    /\ pc \in {"idle", "handler"} /\ pc' = "handler"
    /\ state # "removed"
    /\ next + n <= MaxBytes + 1
    /\ next' = next + n

net_netbuf_get(kind, bytes, cap) ==
    [id |-> made + 1, kind |-> kind, bytes |-> bytes, off |-> 0, cap |-> cap, flags |-> {}]

\* What fits into the last buffer goes there, the rest into a new one.
\* Wrong variant: what does not fit is forgotten.
ForgetfulQueue(n) ==
    LET last == queue[Len(queue)]
        fits == IF queue # << >> /\ last.kind = "data"
                THEN Least(n, last.cap - Len(last.bytes)) ELSE 0
    IN  IF fits > 0
        THEN /\ queue' = [queue EXCEPT ![Len(queue)].bytes = @ \o SubSeq(Bytes(n), 1, fits)]
             /\ UNCHANGED made
        ELSE /\ queue' = Append(queue, net_netbuf_get("data", Bytes(n), Greatest(n, PAYLOAD_MAX)))
             /\ made' = made + 1

net_send_queue(n) ==
    LET last == queue[Len(queue)]
        fits == IF queue # << >> /\ last.kind = "data"
                THEN Least(n, last.cap - Len(last.bytes)) ELSE 0
        topped == IF fits = 0 THEN queue
                  ELSE [queue EXCEPT ![Len(queue)].bytes = @ \o SubSeq(Bytes(n), 1, fits)]
        rest == SubSeq(Bytes(n), fits + 1, n)
    IN  \/ /\ rest = << >> /\ queue' = topped /\ UNCHANGED made
        \/ /\ rest # << >> /\ made < MaxBufs
           /\ queue' = Append(topped,
                  net_netbuf_get("data", rest, Greatest(Len(rest), PAYLOAD_MAX)))
           /\ made' = made + 1

Queue(n) ==
    /\ Handler(n) /\ n > 0 /\ net_send_queue(n)
    /\ UNCHANGED <<evw, state, closing, sock, edge, pend, wire, given, released>>

\* net_send_stream and net_send_fileref.
Stream(kind, n) ==
    /\ Handler(n) /\ made < MaxBufs
    /\ made' = made + 1
    /\ queue' = Append(queue, net_netbuf_get(kind, Bytes(n), n))
    /\ UNCHANGED <<evw, state, closing, sock, edge, pend, wire, given, released>>

\* http_response_stream answers HEAD with a stream that it takes back at once.
StreamHead ==
    /\ Handler(0) /\ made < MaxBufs
    /\ made' = made + 1
    /\ released' = [released EXCEPT ![made + 1] = @ + 1]
    /\ UNCHANGED <<queue, evw, state, closing, sock, edge, pend, wire, given>>

\* http_response_close, http_error_response.
CloseEmpty ==
    /\ Handler(0) /\ closing = "no" /\ closing' = "yes"
    /\ UNCHANGED <<queue, made, evw, state, sock, edge, pend, wire, given, released>>

\* A netbuf whose last write has to be repeated stays until that is done.
net_remove_netbuf(q, i, freed) ==
    \/ /\ "RESEND" \in q[i].flags
       /\ queue' = [q EXCEPT ![i].flags = @ \cup {"FORCE"}]
       /\ UNCHANGED freed
    \/ /\ "RESEND" \notin q[i].flags
       /\ queue' = RemoveAt(q, i)
       /\ freed' = [freed EXCEPT ![q[i].id] = @ + 1]

\* The owner of a stream gives it up, once.
Abandon(i) ==
    /\ Handler(0) /\ queue[i].kind = "stream" /\ "FORCE" \notin queue[i].flags
    /\ net_remove_netbuf(queue, i, released)
    /\ given' = IF queue'  # << >> /\ Len(queue') = Len(queue) THEN given
                ELSE given \cup {queue[i].bytes[k] : k \in queue[i].off + 1 .. Len(queue[i].bytes)}
    /\ UNCHANGED <<made, evw, state, closing, sock, edge, pend, wire>>

BeginFlush ==
    /\ pc = "handler" /\ pc' = "flush"
    /\ UNCHANGED <<queue, made, next, evw, state, closing, sock, edge, pend, wire, given, released>>
-----------------------------------------------------------------------------
\* kore_connection_disconnect, and the end of net_send_flush with an error.
Fails ==
    /\ pc' = "idle"
    /\ state' = IF state = "open" THEN "disconnecting" ELSE state

\* The kernel's buffer is full: it will report when the peer has read.
Refused == /\ evw' = "off" /\ edge' = "full"

\* After a write of r bytes: net_send removes what is finished.
Advance(r) ==
    LET nb == Head(queue)
        sent == [queue EXCEPT ![1].off = @ + r, ![1].flags = @ \ {"RESEND"}]
    IN  /\ wire' = wire \o SubSeq(nb.bytes, nb.off + 1, nb.off + r)
        /\ IF Left(nb) = r \/ "FORCE" \in nb.flags
           THEN /\ net_remove_netbuf(sent, 1, released)
                /\ given' = given \cup {nb.bytes[k] : k \in nb.off + r + 1 .. Len(nb.bytes)}
           ELSE queue' = sent /\ UNCHANGED <<given, released>>

\* net_write: the kernel takes what it has room for, or says EAGAIN.  After
\* EINTR nothing is written and net_send_flush calls again.
net_write(len) ==
    /\ UNCHANGED pend
    /\ \/ /\ sock < SockBuf
          /\ \E r \in 1 .. Least(len, SockBuf - sock) : Advance(r) /\ sock' = sock + r
          /\ UNCHANGED <<evw, edge>>
       \/ /\ sock = SockBuf /\ Refused
          /\ UNCHANGED <<queue, wire, given, released, sock>>

\* kore_tls_write: SSL_write makes a record of the bytes, and returns when the
\* kernel has taken all of it; until then it has to be called again with the
\* same bytes.
kore_tls_write(len) ==
    LET nb == Head(queue)
        rec == IF pend = NoRecord THEN [id |-> nb.id, off |-> nb.off, len |-> len, left |-> len]
               ELSE pend
        took == Least(rec.left, SockBuf - sock)
    IN  /\ rec.id = nb.id /\ rec.off = nb.off /\ rec.len <= len
        /\ sock' = sock + took
        /\ \/ /\ took = rec.left
              /\ pend' = NoRecord /\ Advance(rec.len)
              /\ UNCHANGED <<evw, edge>>
           \/ /\ took < rec.left
              /\ pend' = [rec EXCEPT !.left = @ - took]
              /\ Refused
              /\ queue' = [queue EXCEPT ![1].flags = @ \cup {"RESEND"}]
              /\ UNCHANGED <<wire, given, released>>

\* kore_platform_sendfile repeats the call until the piece is sent or the
\* kernel refuses.
kore_platform_sendfile ==
    LET nb == Head(queue)
        len == Least(SENDFILE_MAX, Left(nb))
        took == Least(len, SockBuf - sock)
    IN  /\ sock' = sock + took
        /\ wire' = wire \o SubSeq(nb.bytes, nb.off + 1, nb.off + took)
        /\ UNCHANGED <<pend, given>>
        /\ \/ /\ took = len /\ Left(nb) = took
              /\ net_remove_netbuf(queue, 1, released)
              /\ UNCHANGED <<evw, edge>>
           \/ /\ took = len /\ Left(nb) # took
              /\ queue' = [queue EXCEPT ![1].off = @ + took]
              /\ UNCHANGED <<evw, edge, released>>
           \/ /\ took < len /\ Refused
              /\ queue' = [queue EXCEPT ![1].off = @ + took]
              /\ UNCHANGED released

\* One call of net_send in the loop of net_send_flush.
net_send ==
    LET nb == Head(queue)
        len == Least(PAYLOAD_MAX, Left(nb))
    IN  /\ pc = "flush" /\ queue # << >> /\ evw = "on"
        /\ \/ /\ mode = "plain" /\ nb.kind = "file" /\ kore_platform_sendfile
           \/ /\ ~ (mode = "plain" /\ nb.kind = "file") /\ nb.bytes = << >>
              /\ Advance(0) /\ UNCHANGED <<evw, edge, sock, pend>>
           \/ /\ nb.kind # "file" /\ mode = "plain" /\ nb.bytes # << >> /\ net_write(len)
           \/ /\ mode = "tls" /\ nb.bytes # << >> /\ kore_tls_write(len)
        /\ UNCHANGED <<made, next, pc, state, closing>>

\* A write fails for good.
SendError ==
    /\ pc = "flush" /\ queue # << >> /\ evw = "on" /\ Fails
    /\ UNCHANGED <<queue, made, next, evw, closing, sock, edge, pend, wire, given, released>>

net_send_flush ==
    /\ pc = "flush" /\ (queue = << >> \/ evw = "off")
    /\ IF closing = "yes" /\ queue = << >> THEN Fails ELSE pc' = "idle" /\ UNCHANGED state
    /\ UNCHANGED <<queue, made, next, evw, closing, sock, edge, pend, wire, given, released>>
-----------------------------------------------------------------------------
\* kore_platform_event_wait sees EPOLLOUT.
\* Wrong variant: the flag is not set.
DeafWritable ==
    /\ pc = "idle" /\ edge = "ready" /\ edge' = "none"
    /\ pc' = IF state = "open" /\ evw = "on" THEN "flush" ELSE "idle"
    /\ UNCHANGED <<queue, made, next, evw, state, closing, sock, pend, wire, given, released>>

Writable ==
    /\ pc = "idle" /\ state # "removed" /\ edge = "ready" /\ edge' = "none" /\ evw' = "on"
    /\ pc' = IF state = "open" THEN "flush" ELSE "idle"
    /\ UNCHANGED <<queue, made, next, state, closing, sock, pend, wire, given, released>>

\* EPOLLERR, EPOLLHUP, EPOLLRDHUP, or a timeout.
Hangup ==
    /\ pc = "idle" /\ state = "open" /\ Fails
    /\ UNCHANGED <<queue, made, next, evw, closing, sock, edge, pend, wire, given, released>>

\* kore_connection_remove: every netbuf of the queue goes, RESEND is cleared.
kore_connection_remove ==
    /\ pc = "idle" /\ state = "disconnecting" /\ state' = "removed"
    /\ queue' = << >>
    /\ released' = [i \in 1 .. MaxBufs |->
                      IF \E k \in DOMAIN queue : queue[k].id = i THEN released[i] + 1 ELSE released[i]]
    /\ pend' = NoRecord
    /\ UNCHANGED <<made, next, evw, pc, closing, sock, edge, wire, given>>

\* The peer reads; after a refusal the kernel reports room.
PeerReads ==
    /\ sock > 0
    /\ \E n \in 1 .. sock : sock' = sock - n
    /\ edge' = IF edge = "full" THEN "ready" ELSE edge
    /\ UNCHANGED <<queue, made, next, evw, pc, state, closing, pend, wire, given, released>>

Send ==
    \/ \E n \in Sizes : Queue(n) \/ Stream("stream", n) \/ Stream("file", n)
    \/ StreamHead \/ CloseEmpty
    \/ \E i \in DOMAIN queue : Abandon(i)

Next ==
    /\ \/ Send \/ BeginFlush
       \/ net_send \/ SendError \/ net_send_flush
       \/ Writable \/ Hangup \/ kore_connection_remove \/ PeerReads
    /\ UNCHANGED mode

Spec == Init /\ [][Next]_vars

\* The worker's loop goes on, and the peer reads.
FairSpec ==
    /\ Spec
    /\ WF_moving(BeginFlush) /\ WF_moving(net_send) /\ WF_moving(net_send_flush)
    /\ WF_moving(Writable) /\ WF_moving(kore_connection_remove) /\ WF_moving(PeerReads)
-----------------------------------------------------------------------------
\* Whatever way the pieces were packed into buffers and the writes cut them
\* up, the connection has taken the bytes in the order of the calls, none
\* twice, and none is missing but those of streams that were given up.
StreamIntact ==
    state # "removed" =>
        wire \o Unsent(queue) = SelectSeq([i \in 1 .. next - 1 |-> i], LAMBDA b : b \notin given)

\* A record that OpenSSL has not finished is the first thing net_send will
\* write: the same address, and at least as long (net_send, net_remove_netbuf).
RepeatedAsItWas ==
    pend # NoRecord =>
        /\ queue # << >>
        /\ Head(queue).id = pend.id /\ Head(queue).off = pend.off
        /\ Least(PAYLOAD_MAX, Left(Head(queue))) >= pend.len

\* The memory of a netbuf is given back once, and only when the netbuf has
\* left the queue, through sending, giving up or the end of the connection.
GivenBackOnce ==
    \A i \in 1 .. MaxBufs :
        released[i] = IF i <= made /\ \A k \in DOMAIN queue : queue[k].id # i THEN 1 ELSE 0

\* What was queued is sent, or the connection ends: no edge of the
\* edge-triggered events is lost between net_send_flush and epoll.
QueueDrains == (queue # << >>) ~> (queue = << >>)
=============================================================================
