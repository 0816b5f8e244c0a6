-------------------------------- MODULE Body --------------------------------
(***************************************************************************)
(* The body of a complete request as a handler uses it (src/http.c): in    *)
(* memory or in a file, read with http_body_read, split as a query, or     *)
(* searched for the parts of a multipart form, whose files are then read   *)
(* from the same body.  The search works on what the reads happen to give. *)
(***************************************************************************)
EXTENDS Integers, Sequences, FiniteSets, SequencesExt, FiniteSetsExt

CONSTANTS
    Kinds,       \* of {"memory", "disk"}: where the body is
    Forms,       \* forms that a client sends: sequences of [head, content]
    Cuts,        \* how many bytes of its end a body may lack
    DATA,        \* sizeof(data): most that one read asks for
    MaxOps       \* bound: calls of the handler

\* A byte is a character; a line of headers is one too: "F" names a field,
\* "U" a file, "E" a file without name, "X" is another header.
boundary == <<"-", "-", "b">>
crlf == <<"r", "n">>
Heads == {"F", "U", "E", "X"}

\* The body of a form, and what it lacks.
Encode(form) ==
    FlattenSeq([i \in DOMAIN form |-> boundary \o crlf \o <<form[i].head>> \o crlf \o crlf
                                      \o form[i].content \o crlf])
    \o boundary \o <<"-", "-">> \o crlf
Sent == {[kind |-> k, form |-> f, body |-> SubSeq(Encode(f), 1, Len(Encode(f)) - cut)] :
         k \in Kinds, f \in Forms, cut \in Cuts}

VARIABLES
    sent,        \* one of Sent
    pos,         \* where the next read reads: http_body->offset, or the file's position
    length,      \* req->http_body_length: bytes that http_body_read still gives
    offset,      \* req->http_body_offset
    in, out,     \* buffers of http_populate_multipart_form
    pc,          \* where it is: "idle", or what it searches for
    todo,        \* header lines of the part that are not looked at yet
    start,       \* position in multipart_file_add
    fields,      \* values given to http_argument_add
    files,       \* req->files: [position, length, offset]
    split,       \* http_populate_post has split the body: "yes" or "no"
    sought,      \* http_file_read moved the file's position since the last rewind
    parsed,      \* history: "no", "running", "whole" (from the first byte), "other"
    right,       \* history: every read gave the bytes that it should
    ops          \* calls so far

vars == <<sent, pos, length, offset, in, out, pc, todo, start, fields, files, split, sought,
          parsed, right, ops>>
cursor == <<pos, length, offset>>
form == <<in, out, pc, todo, start, fields, parsed>>
body == sent.body

TypeOK ==
    /\ sent.kind \in Kinds /\ sent.form \in Forms
    /\ pos \in 0 .. Len(body) + 1 /\ length \in 0 .. Len(body) /\ offset \in 0 .. Len(body)
    /\ pc \in {"idle", "boundary", "line", "headers", "field", "file"}
    /\ todo \in Seq(Heads) /\ start \in 0 .. Len(body) /\ Len(in) + Len(out) <= Len(body)
    /\ \A i \in DOMAIN files : files[i].offset <= files[i].length
    /\ split \in {"yes", "no"} /\ sought \in {"yes", "no"} /\ right \in {"yes", "no"}
    /\ parsed \in {"no", "running", "whole", "other"} /\ ops \in 0 .. MaxOps

Init ==
    /\ sent \in Sent /\ pos = 0 /\ length = Len(body) /\ offset = 0
    /\ in = << >> /\ out = << >> /\ pc = "idle" /\ todo = << >> /\ start = 0
    /\ fields = << >> /\ files = << >> /\ split = "no" /\ sought = "no"
    /\ parsed = "no" /\ right = "yes" /\ ops = 0
-----------------------------------------------------------------------------
Piece(from, n) == SubSeq(body, from + 1, Min({from + n, Len(body)}))

\* http_body_read gives n bytes: all that are asked for from memory, fewer
\* perhaps from a file, at whose end there are none.
Gives(n, asked) ==
    LET toread == Min({length, asked}) IN
    IF sent.kind = "memory" THEN n = toread
    ELSE n <= toread /\ n <= Len(body) - pos /\ (n = 0 => toread = 0 \/ pos >= Len(body))

http_body_read(n) == pos' = pos + n /\ length' = length - n /\ offset' = offset + n

Called == pc = "idle" /\ ops < MaxOps /\ ops' = ops + 1

\* The handler reads from the body.
Read(n) ==
    /\ Called /\ Gives(n, 2) /\ http_body_read(n)
    /\ right' = IF split = "no" /\ sought = "no" /\ Piece(pos, n) # Piece(offset, n) THEN "no" ELSE right
    /\ UNCHANGED <<sent, form, files, split, sought>>

http_body_rewind ==
    /\ Called /\ pos' = 0 /\ offset' = 0 /\ length' = Len(body) /\ sought' = "no"
    /\ UNCHANGED <<sent, form, files, split, right>>

\* http_populate_post: in memory the body itself is cut into strings and
\* counts as read; a file is read to its end.
http_populate_post ==
    /\ Called
    /\ IF sent.kind = "memory"
       THEN pos' = Len(body) + 1 /\ length' = 0 /\ offset' = 0 /\ split' = "yes"
       ELSE LET n == Min({length, Len(body) - pos})
            IN pos' = pos + n /\ length' = length - n /\ offset' = offset + n /\ UNCHANGED split
    /\ UNCHANGED <<sent, form, files, sought, right>>

\* http_file_read: from the file's place in the body.
http_file_read(f, n) ==
    /\ Called /\ f \in DOMAIN files
    /\ LET off == files[f].position + files[f].offset
           toread == Min({2, files[f].length - files[f].offset})
       IN /\ n <= toread /\ (sent.kind = "memory" => n = toread) /\ (n = 0 => toread = 0)
          /\ files' = [files EXCEPT ![f].offset = @ + n]
          /\ IF sent.kind = "disk" /\ toread > 0 THEN pos' = off + n /\ sought' = "yes"
             ELSE UNCHANGED <<pos, sought>>
          /\ right' = IF off + n > Len(body) THEN "no" ELSE right
    /\ UNCHANGED <<sent, length, offset, form, split>>

http_file_rewind(f) ==
    /\ Called /\ f \in DOMAIN files /\ files' = [files EXCEPT ![f].offset = 0]
    /\ UNCHANGED <<sent, cursor, form, split, sought, right>>
-----------------------------------------------------------------------------
\* http_populate_multipart_form, up to its first search; bound: not for a
\* body that was split, and once.
http_populate_multipart_form ==
    /\ Called /\ split = "no" /\ parsed = "no"
    /\ pc' = "boundary" /\ in' = << >> /\ out' = << >>
    /\ parsed' = IF pos = 0 /\ offset = 0 /\ length = Len(body) THEN "running" ELSE "other"
    /\ UNCHANGED <<sent, cursor, todo, start, fields, files, split, sought, right>>

needle ==
    CASE pc \in {"boundary", "field", "file"} -> boundary
      [] pc = "line" -> crlf
      [] pc = "headers" -> crlf \o crlf

\* multipart_parse_headers: the next line that names a field or a file
\* decides what is searched for, what else there is is passed over.
multipart_parse_headers(lines, buf) ==
    LET named == {i \in DOMAIN lines : lines[i] \in {"F", "U"}} IN
    IF named = {} THEN pc' = "line" /\ todo' = << >> /\ UNCHANGED start
    ELSE LET i == Min(named) IN
         /\ pc' = IF lines[i] = "F" THEN "field" ELSE "file"
         /\ todo' = SubSeq(lines, i + 1, Len(lines))
         /\ start' = IF lines[i] = "U" THEN offset - Len(buf) ELSE start

Ends ==
    /\ pc' = "idle" /\ parsed' = IF parsed = "running" THEN "whole" ELSE parsed
    /\ UNCHANGED <<todo, start>>

\* multipart_add_field and multipart_file_add, with what was before the
\* boundary: its last two bytes end the line.
multipart_add_field(data) ==
    fields' = IF Len(data) < 3 THEN fields ELSE Append(fields, SubSeq(data, 1, Len(data) - 2))
multipart_file_add(len) ==
    files' = IF len < 3 THEN files
             ELSE Append(files, [position |-> start, length |-> len - 2, offset |-> 0])

\* The search found what it was for, after data, with buf left in the buffer.
Found(data, buf) ==
    /\ in' = buf /\ out' = << >>
    /\ \/ pc = "boundary" /\ pc' = "line" /\ UNCHANGED <<todo, start, fields, files, parsed>>
       \/ /\ pc = "line" /\ UNCHANGED <<fields, files>>
          /\ IF Len(buf) < 4 /\ length = 0 THEN Ends
             ELSE pc' = "headers" /\ UNCHANGED <<todo, start, parsed>>
       \/ /\ pc = "headers" /\ multipart_parse_headers(SelectSeq(data, LAMBDA c : c \in Heads), buf)
          /\ UNCHANGED <<fields, files, parsed>>
       \/ /\ pc = "field" /\ multipart_add_field(data) /\ multipart_parse_headers(todo, buf)
          /\ UNCHANGED <<files, parsed>>
       \/ /\ pc = "file" /\ multipart_file_add(Len(data)) /\ multipart_parse_headers(todo, buf)
          /\ UNCHANGED <<fields, parsed>>
    /\ UNCHANGED cursor

\* The body ended before.
Missed ==
    /\ out' = << >> /\ UNCHANGED <<in, fields, files, cursor>>
    /\ IF pc \in {"field", "file"} THEN multipart_parse_headers(todo, in) /\ UNCHANGED parsed ELSE Ends

Goes(data, buf) ==
    out' = out \o data /\ in' = buf /\ UNCHANGED <<pc, todo, start, fields, files, parsed, cursor>>

\* multipart_find_data, one round of its loop: more is read, or what cannot
\* be the needle's start is dropped, or the needle is there.
\* Wrong variant: what is left in the buffer is dropped when it is too short.
FindDrops ==
    /\ pc # "idle" /\ UNCHANGED <<sent, split, sought, right, ops>>
    /\ IF Len(in) < Len(needle)
       THEN \E n \in 0 .. DATA : /\ Gives(n, DATA)
               /\ IF n = 0 THEN Missed
                  ELSE /\ http_body_read(n) /\ in' = in \o Piece(pos, n)
                       /\ UNCHANGED <<out, pc, todo, start, fields, files, parsed>>
       ELSE LET hits == {i \in DOMAIN in : in[i] = needle[1]}
                p == Min(hits)
                left == Len(in) - p + 1
            IN IF hits = {} \/ left < Len(needle) THEN Goes(in, << >>)
               ELSE IF SubSeq(in, p, p + Len(needle) - 1) = needle
               THEN Found(out \o SubSeq(in, 1, p - 1), SubSeq(in, p + Len(needle), Len(in)))
               ELSE Goes(SubSeq(in, 1, p), SubSeq(in, p + 1, Len(in)))

multipart_find_data ==
    /\ pc # "idle" /\ UNCHANGED <<sent, split, sought, right, ops>>
    /\ IF Len(in) < Len(needle)
       THEN \E n \in 0 .. DATA : /\ Gives(n, DATA)
               /\ IF n = 0 THEN Missed
                  ELSE /\ http_body_read(n) /\ in' = in \o Piece(pos, n)
                       /\ UNCHANGED <<out, pc, todo, start, fields, files, parsed>>
       ELSE LET hits == {i \in DOMAIN in : in[i] = needle[1]}
                p == Min(hits)
                left == Len(in) - p + 1
            IN IF hits = {} THEN Goes(in, << >>)
               ELSE IF left < Len(needle) THEN Goes(SubSeq(in, 1, p - 1), SubSeq(in, p, Len(in)))
               ELSE IF SubSeq(in, p, p + Len(needle) - 1) = needle
               THEN Found(out \o SubSeq(in, 1, p - 1), SubSeq(in, p + Len(needle), Len(in)))
               ELSE Goes(SubSeq(in, 1, p), SubSeq(in, p + 1, Len(in)))

Next ==
    \/ \E n \in 0 .. 2 : Read(n)
    \/ http_body_rewind \/ http_populate_post \/ http_populate_multipart_form \/ multipart_find_data
    \/ \E f \in 1 .. 2 : http_file_rewind(f) \/ \E n \in 0 .. 2 : http_file_read(f, n)

Spec == Init /\ [][Next]_vars
-----------------------------------------------------------------------------
\* The parts of the form that have the head, are not empty, and whose next
\* boundary was received.
Whole(head) ==
    LET end(i) == Len(Encode(SubSeq(sent.form, 1, i))) - 4
        is(i) == sent.form[i].head = head /\ sent.form[i].content # << >> /\ end(i) <= Len(body)
    IN [i \in {j \in DOMAIN sent.form : is(j)} |-> sent.form[i].content]
Values(parts) == [i \in 1 .. Cardinality(DOMAIN parts) |->
                    parts[CHOOSE j \in DOMAIN parts : Cardinality({k \in DOMAIN parts : k <= j}) = i]]

\* However the body is cut into reads and wherever it ends, a form that is
\* parsed from the start gives its fields and its files, in order, each with
\* the bytes that the client sent, and nothing else.
FormParsed ==
    parsed = "whole" =>
        /\ fields = Values(Whole("F"))
        /\ [i \in DOMAIN files |-> SubSeq(body, files[i].position + 1, files[i].position + files[i].length)]
             = Values(Whole("U"))

\* A read gives the bytes at http_body_offset, and a file's read stays inside
\* the body, whatever was read, rewound or parsed before; not after the file
\* of a body on disk was read, until the next rewind.
ReadsRight ==
    /\ right = "yes"
    /\ sought = "no" /\ length > 0 => pos = offset /\ length + offset = Len(body)
=============================================================================
