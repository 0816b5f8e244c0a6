----------------------------- MODULE Backends ------------------------------
(***************************************************************************)
(* What a worker uses on behalf of requests, side by side: the connections *)
(* to a database (src/pgsql.c), the transfers of libcurl (src/curl.c), and *)
(* the browsers and agents of its engines (src/browser.c, src/agent.c).    *)
(***************************************************************************)
EXTENDS Pgsql, Curl, Engines

BackendsSpec == PgsqlSpec /\ CurlSpec /\ EnginesSpec

\* A database connection is free, or used by one query that is not over, and
\* the queue holds each waiter once, asleep or about to be freed; what the
\* worker's loop watches agrees with what libcurl asked for, and a transfer
\* that was dropped is not told of its end; the browsers that run are in their
\* slots, unless two launches chose one slot at once.
BackendsSound == ConnSound /\ QueueSound /\ WatchedAgree /\ ToldOnce /\ SlotsNamed
=============================================================================
