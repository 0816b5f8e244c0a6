------------------------------- MODULE PyHttp -------------------------------
(***************************************************************************)
(* An HTTP request in the Python runtime (src/python.c): the prerequest    *)
(* functions, the handler, both plain or coroutines, the coroutine that    *)
(* the request waits for, the answer, and an answer sent chunk by chunk    *)
(* from an iterator.                                                       *)
(***************************************************************************)
EXTENDS Integers, Sequences

CONSTANTS
    Prereqs,    \* number of functions in prereq
    MaxItems,   \* bound: chunks that an iterator gives
    MaxSleeps   \* bound: times that a coroutine suspends

ASSUME PyHttpBounds == Prereqs \in Nat /\ MaxItems \in Nat /\ MaxSleeps \in Nat

VARIABLES
    fsm,        \* req->fsm_state: "INIT", "PREPROCESS", "RUN"
    rqnext,     \* req->py_rqnext, by its index; Prereqs + 1 is NULL
    py_coro,    \* req->py_coro: "none", "pre", "handler"
    asleep,     \* HTTP_REQUEST_SLEEPING: "yes" or "no"
    request,    \* "active", "done" (the handler is through), "freed"
    calls,      \* history: functions called, in order; Prereqs + 1 is the handler
    refused,    \* history: a plain prerequest gave False or failed
    raised,     \* history: a coroutine failed while its prerequest ran
    answers,    \* history: responses queued
    busy,       \* CONN_IS_BUSY: "yes" or "no"
    items,      \* what the iterator still gives
    queued,     \* a chunk is in the send queue: "yes" or "no"
    remove,     \* iterobj->remove, or "freed"
    ended,      \* history: how often the stream was ended with a last chunk
    inside,     \* control is in the loop of pyhttp_preprocess: "yes" or "no"
    sleeps      \* suspensions so far

pyhttpVars == <<fsm, rqnext, py_coro, asleep, request, calls, refused, raised, answers, busy, items,
                queued, remove, ended, inside, sleeps>>
stream == <<busy, items, queued, remove, ended>>
handler == Prereqs + 1

PyHttpTypeOK ==
    /\ fsm \in {"INIT", "PREPROCESS", "RUN"} /\ rqnext \in 1 .. handler
    /\ py_coro \in {"none", "pre", "handler"} /\ asleep \in {"yes", "no"}
    /\ request \in {"active", "done", "freed"} /\ calls \in Seq(1 .. handler)
    /\ refused \in {"yes", "no"} /\ raised \in {"yes", "no"} /\ answers \in Nat
    /\ busy \in {"yes", "no"} /\ items \in 0 .. MaxItems /\ queued \in {"yes", "no"}
    /\ remove \in {"none", "no", "yes", "freed"} /\ ended \in Nat
    /\ inside \in {"yes", "no"} /\ sleeps \in 0 .. MaxSleeps

PyHttpInit ==
    /\ fsm = "INIT" /\ rqnext = 1 /\ py_coro = "none" /\ asleep = "no" /\ request = "active"
    /\ calls = << >> /\ refused = "no" /\ raised = "no" /\ answers = 0
    /\ busy = "no" /\ items = 0 /\ queued = "no" /\ remove = "none" /\ ended = 0
    /\ inside = "no" /\ sleeps = 0

Scheduled == request = "active" /\ asleep = "no"
Preprocessing == fsm \in {"INIT", "PREPROCESS"} /\ rqnext <= Prereqs

\* pyhttp_response, or the 500 of a function that fails: the application
\* answers once.  With an iterator the first chunk is queued by
\* pyhttp_iterobj_next, whose result is not looked at: n = 0 is an iterator
\* that is empty or fails at once.
Answers ==
    \/ answers' = answers + 1 /\ UNCHANGED stream
    \/ \E n \in 0 .. MaxItems :
          /\ busy = "no" /\ remove = "none"
          /\ answers' = answers + 1 /\ busy' = "yes" /\ remove' = "no" /\ UNCHANGED ended
          /\ items' = IF n > 0 THEN n - 1 ELSE 0
          /\ queued' = IF n > 0 THEN "yes" ELSE "no"
Silent == UNCHANGED answers /\ UNCHANGED stream
-----------------------------------------------------------------------------
\* pyhttp_preprocess with the next function, which is not a coroutine.
PreprocessPlain ==
    /\ Scheduled /\ py_coro = "none" /\ Preprocessing
    /\ calls' = Append(calls, rqnext) /\ rqnext' = rqnext + 1
    /\ fsm' = "PREPROCESS"
    /\ \/ Silent /\ inside' = "yes" /\ UNCHANGED <<request, refused>>
       \/ refused' = "yes" /\ request' = "done" /\ inside' = "no" /\ (Answers \/ Silent)
    /\ UNCHANGED <<py_coro, asleep, raised, sleeps>>

\* pyhttp_preprocess with the next function, which is one: python_coro_create
\* and the first python_coro_run, until it suspends or ends.
PreprocessCoro ==
    /\ Scheduled /\ py_coro = "none" /\ Preprocessing
    /\ calls' = Append(calls, rqnext) /\ rqnext' = rqnext + 1 /\ fsm' = "PREPROCESS"
    /\ \/ /\ sleeps < MaxSleeps /\ sleeps' = sleeps + 1 /\ py_coro' = "pre" /\ asleep' = "yes"
          /\ Silent /\ inside' = "no" /\ UNCHANGED raised
       \/ UNCHANGED <<py_coro, asleep, sleeps, raised>> /\ Silent /\ inside' = "yes"
       \/ /\ raised' = "yes" /\ answers' = answers + 1 /\ inside' = "yes" /\ UNCHANGED stream
          /\ UNCHANGED <<py_coro, asleep, sleeps>>
    /\ UNCHANGED <<request, refused>>

\* python_runtime_http_request with a coroutine: it runs on, and at its end
\* the request is through, or retried when it was a prerequest.
python_runtime_http_request ==
    /\ Scheduled /\ py_coro # "none"
    /\ \/ /\ sleeps < MaxSleeps /\ sleeps' = sleeps + 1 /\ asleep' = "yes" /\ Silent
          /\ UNCHANGED <<py_coro, request, raised>>
       \/ /\ py_coro' = "none" /\ UNCHANGED <<asleep, sleeps>>
          /\ request' = IF fsm # "PREPROCESS" THEN "done" ELSE request
          /\ \/ py_coro = "pre" /\ Silent /\ UNCHANGED raised
             \/ py_coro = "pre" /\ raised' = "yes" /\ answers' = answers + 1 /\ UNCHANGED stream
             \/ py_coro = "handler" /\ Answers /\ UNCHANGED raised
    /\ UNCHANGED <<fsm, rqnext, calls, refused, inside>>

\* The prerequests are through: the handler is called.
CallsHandler ==
    /\ Scheduled /\ py_coro = "none" /\ ~ Preprocessing
    /\ fsm' = "RUN" /\ calls' = Append(calls, handler) /\ inside' = "no"
    /\ \/ Answers /\ request' = "done" /\ UNCHANGED <<py_coro, asleep, sleeps>>
       \/ /\ sleeps < MaxSleeps /\ sleeps' = sleeps + 1 /\ py_coro' = "handler" /\ asleep' = "yes"
          /\ Silent /\ UNCHANGED request
    /\ UNCHANGED <<rqnext, refused, raised>>

\* What the coroutine waits for has come: http_request_wakeup.
Wakeup ==
    /\ inside = "no" /\ request = "active" /\ asleep = "yes" /\ asleep' = "no"
    /\ UNCHANGED <<fsm, rqnext, py_coro, request, calls, refused, raised, answers, stream, inside, sleeps>>

\* http_request_free, when the request is through or its client has gone:
\* kore_python_coro_delete.
http_request_free ==
    /\ inside = "no" /\ request # "freed" /\ request' = "freed" /\ py_coro' = "none" /\ asleep' = "no"
    /\ UNCHANGED <<fsm, rqnext, calls, refused, raised, answers, stream, inside, sleeps>>
-----------------------------------------------------------------------------
\* pyhttp_iterobj_chunk_sent, when a chunk was sent or is dropped with the
\* connection: the next chunk, or the end.
pyhttp_iterobj_chunk_sent ==
    /\ inside = "no" /\ queued = "yes"
    /\ IF remove = "no" /\ items > 0
       THEN items' = items - 1 /\ UNCHANGED <<busy, queued, remove, ended>>
       ELSE /\ busy' = "no" /\ queued' = "no" /\ remove' = "freed" /\ ended' = ended + 1
            /\ UNCHANGED items
    /\ UNCHANGED <<fsm, rqnext, py_coro, asleep, request, calls, refused, raised, answers, inside, sleeps>>

\* The iterator fails, or gives something that is not a string.
IteratorFails ==
    /\ inside = "no" /\ queued = "yes" /\ remove = "no" /\ items > 0
    /\ busy' = "no" /\ queued' = "no" /\ remove' = "freed" /\ ended' = ended + 1
    /\ items' = 0
    /\ UNCHANGED <<fsm, rqnext, py_coro, asleep, request, calls, refused, raised, answers, inside, sleeps>>

\* The client goes: kore_connection_disconnect calls pyhttp_iterobj_disconnect.
pyhttp_iterobj_disconnect ==
    /\ inside = "no" /\ remove = "no" /\ remove' = "yes"
    /\ UNCHANGED <<fsm, rqnext, py_coro, asleep, request, calls, refused, raised, answers,
                   busy, items, queued, ended, inside, sleeps>>

PyHttpNext ==
    \/ PreprocessPlain \/ PreprocessCoro \/ python_runtime_http_request \/ CallsHandler
    \/ Wakeup \/ http_request_free
    \/ pyhttp_iterobj_chunk_sent \/ IteratorFails \/ pyhttp_iterobj_disconnect

PyHttpSpec == PyHttpInit /\ [][PyHttpNext]_pyhttpVars
-----------------------------------------------------------------------------
\* The handler is called once, after every prerequest was called once and in
\* order, and not when a plain one refused; a request that was freed has no
\* coroutine, one that sleeps has.
PrereqsFirst ==
    /\ \A i \in DOMAIN calls : calls[i] = i
    /\ refused = "yes" => Len(calls) <= Prereqs
    /\ asleep = "yes" => request = "active" /\ py_coro # "none"
    /\ request = "freed" => py_coro = "none"
    /\ request = "done" => Len(calls) = handler \/ refused = "yes"

\* A request is answered at most once, unless the coroutine of a prerequest
\* failed: its 500 is followed by what the handler answers.
AnsweredOnce == answers <= 1 \/ raised = "yes"

\* A busy connection has a chunk in its queue whose callback goes on with the
\* stream, unless the iterator was empty from the start; the stream ends once.
StreamGoesOn ==
    /\ busy = "yes" => queued = "yes" \/ (items = 0 /\ ended = 0)
    /\ ended <= 1 /\ (ended = 1 <=> remove = "freed")
=============================================================================
