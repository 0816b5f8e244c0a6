----------------------------- MODULE WebSocket ------------------------------
(***************************************************************************)
(* One websocket connection (src/websocket.c): the handshake, the reader   *)
(* that asks for the bytes of a frame in two or three portions and gets    *)
(* them in any number of pieces (net_recv_* of src/net.c), the messages    *)
(* handed to the application, answers to control frames, broadcasts, and   *)
(* the closing handshake.  Payloads are left out, lengths are the code's.  *)
(***************************************************************************)
EXTENDS Integers, Sequences, FiniteSets, SequencesExt

CONSTANTS
    Frames,       \* the frames that the peer may send
    MAXFRAME,     \* kore_websocket_maxframe
    KEEP,         \* NETBUF_SEND_PAYLOAD_MAX / 2
    MaxFrames,    \* bound: frames of the peer
    MaxOut        \* bound: messages of the application

HDR == 2
MASK_LEN == 4
SINGLE == 125
EXTEND_1 == 126
EXTEND_2 == 127
Control == {"close", "ping", "pong"}

VARIABLES
    phase,      \* "http", "open", "disconnecting" or "removed"
    stream,     \* the frames that the peer has sent
    taken,      \* bytes of them that were read
    off,        \* c->rnb: s_off, b_len, m_len, cb
    blen,
    mlen,
    cb,
    evr,        \* KORE_EVENT_READ: "on" or "off"
    edge,       \* epoll has something to say: "none" or "ready"
    closeSent,  \* CONN_WS_CLOSE_SENT: "yes" or "no"
    out,        \* the frames sent to the peer
    messages    \* history: the frames handed to ws_message, as <<first byte, length>>

vars == <<phase, stream, taken, off, blen, mlen, cb, evr, edge, closeSent, out, messages>>

\* A frame: opcode, the seven bits of its length, its length, and whether its
\* two first bytes are as RFC 6455 wants them.
Frame == [op : {"cont", "text", "close", "ping", "pong", "other"}, bits : 0 .. EXTEND_2,
          len : Nat, fin : {"fin", "more"}, head : {"masked", "bare", "rsv"}]
Ext(bits) == CASE bits = EXTEND_1 -> 2 [] bits = EXTEND_2 -> 8 [] OTHER -> 0
Size(f) == HDR + Ext(f.bits) + MASK_LEN + f.len
\* The first byte of the i-th frame of the peer.
Start(i) == FoldLeft(LAMBDA n, f : n + Size(f), 0, SubSeq(stream, 1, i - 1))
Sent == Start(Len(stream) + 1)
\* The frame whose header is at the beginning of the buffer.
Current == CHOOSE i \in 1 .. Len(stream) : Start(i) = taken - off

TypeOK ==
    /\ phase \in {"http", "open", "disconnecting", "removed"}
    /\ stream \in Seq(Frame) /\ taken \in Nat
    /\ off \in Nat /\ blen \in Nat /\ mlen \in Nat /\ cb \in {"header", "opcode", "frame"}
    /\ evr \in {"on", "off"} /\ edge \in {"none", "ready"} /\ closeSent \in {"yes", "no"}
    /\ out \in Seq({"text", "close", "pong"}) /\ messages \in Seq(Nat \X Nat)

Init ==
    /\ phase = "http" /\ stream = << >> /\ taken = 0
    /\ off = 0 /\ blen = 0 /\ mlen = 0 /\ cb = "header"
    /\ evr = "off" /\ edge = "none" /\ closeSent = "no" /\ out = << >> /\ messages = << >>
-----------------------------------------------------------------------------
\* net_recv_reset: a buffer that is large enough, and not too large, is kept.
net_recv_reset(len, next) ==
    /\ off' = 0 /\ blen' = len /\ cb' = next
    /\ mlen' = IF len <= mlen /\ mlen < KEEP THEN mlen ELSE len

net_recv_expand(len, next) ==
    /\ blen' = blen + len /\ mlen' = blen + len /\ cb' = next

\* kore_websocket_handshake.  A request without the key or with another
\* version is answered and changes nothing here.
kore_websocket_handshake ==
    /\ phase = "http" /\ phase' = "open"
    /\ net_recv_reset(HDR, "opcode")
    /\ UNCHANGED <<stream, taken, evr, edge, closeSent, out, messages>>

\* kore_connection_disconnect with websocket_disconnect: the close frame is
\* sent unless it was sent before (sent are the frames sent so far).
websocket_disconnect(sent, done) ==
    /\ phase' = "disconnecting" /\ closeSent' = "yes" /\ evr' = "off"
    /\ out' = IF done = "no" THEN Append(sent, "close") ELSE sent
-----------------------------------------------------------------------------
\* The callbacks run inside the read that fills the buffer.
\* A callback that fails ends the connection (kore_connection_event).
Refuse == websocket_disconnect(out, closeSent) /\ UNCHANGED <<blen, mlen, cb, messages>>

websocket_recv_opcode(f) ==
    IF \/ f.head # "masked" \/ f.op = "other"
       \/ f.op \in Control /\ (f.bits > SINGLE \/ f.fin = "more")
    THEN Refuse
    ELSE /\ net_recv_expand((f.bits + Ext(f.bits) + MASK_LEN) % 256, "frame")
         /\ UNCHANGED <<phase, closeSent, evr, out, messages>>

\* ws_message: the application does nothing, answers, or leaves.
Application(len) ==
    /\ messages' = Append(messages, <<taken' - len, len>>)
    /\ \/ UNCHANGED <<phase, closeSent, evr, out>>
       \/ /\ Len(SelectSeq(out, LAMBDA o : o = "text")) < MaxOut
          /\ out' = Append(out, "text") /\ UNCHANGED <<phase, closeSent, evr>>
       \/ websocket_disconnect(out, closeSent)

\* The operation of a complete frame.
Operation(f) ==
    CASE f.op = "pong" -> UNCHANGED <<phase, closeSent, evr, out, messages>>
      [] f.op = "cont" -> websocket_disconnect(out, closeSent) /\ UNCHANGED messages
      [] f.op = "text" -> Application(f.len)
      [] f.op = "close" ->
            /\ websocket_disconnect(IF closeSent = "no" THEN Append(out, "close") ELSE out, "yes")
            /\ UNCHANGED messages
      [] f.op = "ping" -> out' = Append(out, "pong") /\ UNCHANGED <<phase, closeSent, evr, messages>>

Total(f) == f.len + Ext(f.bits) + HDR + MASK_LEN

websocket_recv_frame(f) ==
    IF f.len > MAXFRAME THEN Refuse /\ UNCHANGED off
    ELSE IF Total(f) > blen
    THEN /\ net_recv_expand(Total(f) - blen, "frame")
         /\ off' = blen
         /\ UNCHANGED <<phase, closeSent, evr, out, messages>>
    ELSE IF Total(f) # blen THEN Refuse /\ UNCHANGED off
    ELSE Operation(f) /\ net_recv_reset(HDR, "opcode")

\* net_recv_flush: one read, and the callback when the buffer is full.
Read(r) ==
    /\ phase = "open" /\ evr = "on" /\ r <= blen - off
    /\ taken' = taken + r
    /\ LET f == stream[Current]
       IN  \/ /\ off + r < blen /\ off' = off + r
              /\ UNCHANGED <<phase, blen, mlen, cb, evr, closeSent, out, messages>>
           \/ /\ off + r = blen /\ cb = "opcode"
              /\ off' = blen /\ websocket_recv_opcode(f)
           \/ /\ off + r = blen /\ cb = "frame"
              /\ websocket_recv_frame(f)
    /\ UNCHANGED <<stream, edge>>

\* recv says EAGAIN: nothing more has arrived for now.
ReadAgain ==
    /\ phase = "open" /\ evr = "on" /\ evr' = "off"
    /\ edge' = IF taken < Sent THEN "ready" ELSE "none"
    /\ UNCHANGED <<phase, stream, taken, off, blen, mlen, cb, closeSent, out, messages>>

\* kore_platform_event_wait sees EPOLLIN.
Readable ==
    /\ evr = "off" /\ edge = "ready" /\ edge' = "none"
    /\ evr' = IF phase = "open" THEN "on" ELSE evr
    /\ UNCHANGED <<phase, stream, taken, off, blen, mlen, cb, closeSent, out, messages>>

PeerSends(f) ==
    /\ phase # "http" /\ Len(stream) < MaxFrames
    /\ stream' = Append(stream, f)
    /\ edge' = "ready"
    /\ UNCHANGED <<phase, taken, off, blen, mlen, cb, evr, closeSent, out, messages>>

\* kore_websocket_broadcast or msg_type_websocket of another connection: it is
\* in the list of connections until it is disconnected.
Broadcast ==
    /\ phase = "open" /\ evr = "off"
    /\ Len(SelectSeq(out, LAMBDA o : o = "text")) < MaxOut
    /\ out' = Append(out, "text")
    /\ UNCHANGED <<phase, stream, taken, off, blen, mlen, cb, evr, edge, closeSent, messages>>

\* The idle timer, the end of the peer, or an error.
Hangup ==
    /\ phase = "open" /\ evr = "off"
    /\ websocket_disconnect(out, closeSent)
    /\ UNCHANGED <<stream, taken, off, blen, mlen, cb, edge, messages>>

kore_connection_remove ==
    /\ phase = "disconnecting" /\ phase' = "removed"
    /\ UNCHANGED <<stream, taken, off, blen, mlen, cb, evr, edge, closeSent, out, messages>>

Next ==
    \/ kore_websocket_handshake
    \/ \E f \in Frames : PeerSends(f)
    \/ \E r \in 1 .. Sent - taken : Read(r)
    \/ ReadAgain \/ Readable \/ Broadcast \/ Hangup \/ kore_connection_remove

Spec == Init /\ [][Next]_vars
-----------------------------------------------------------------------------
\* However the bytes arrive, the buffer begins at the first byte of a frame,
\* the reader has memory for what it asks for, and asks for no more bytes
\* than fit (websocket_recv_opcode, websocket_recv_frame, net_recv_*).
InStep ==
    phase = "open" =>
        /\ \E i \in 1 .. Len(stream) + 1 : Start(i) = taken - off
        /\ off < blen /\ blen <= mlen

\* The application has got the text frames of the peer up to the present one,
\* each whole, once, and in order.
MessagesWhole ==
    phase = "open" =>
        messages = LET done == {i \in 1 .. Len(stream) : Start(i + 1) <= taken - off}
                       texts == SelectSeq([i \in 1 .. Cardinality(done) |-> i],
                                          LAMBDA i : stream[i].op = "text")
                   IN  [k \in DOMAIN texts |->
                          <<Start(texts[k]) + Size(stream[texts[k]]) - stream[texts[k]].len,
                            stream[texts[k]].len>>]

\* At most one close frame is sent, and nothing after it.
CloseIsLast == \A i \in DOMAIN out : out[i] = "close" => i = Len(out)
=============================================================================
