------------------------------ MODULE JobQueue ------------------------------
(***************************************************************************)
(* What the workflow engine promises its clients (workflow.h): a job that  *)
(* was accepted waits, is run by one worker at a time, is tried again      *)
(* after a failure until it has failed MaxTries times, and can be          *)
(* cancelled only while it waits.  A finished job can be forgotten.        *)
(***************************************************************************)
EXTENDS Naturals

CONSTANTS Jobs, MaxTries

VARIABLES
    state,    \* the state of each job
    failures  \* how often each job has failed

Init ==
    /\ state = [j \in Jobs |-> "none"]
    /\ failures = [j \in Jobs |-> 0]

Move(j, from, to) ==
    /\ state[j] = from
    /\ state' = [state EXCEPT ![j] = to]

Submit(j) == Move(j, "none", "pending") /\ UNCHANGED failures
Start(j) == Move(j, "pending", "running") /\ UNCHANGED failures
Succeed(j) == Move(j, "running", "done") /\ UNCHANGED failures
Cancel(j) == Move(j, "pending", "failed") /\ UNCHANGED failures

Fail(j) ==
    /\ failures' = [failures EXCEPT ![j] = @ + 1]
    /\ IF failures[j] + 1 < MaxTries THEN Move(j, "running", "pending")
                                     ELSE Move(j, "running", "failed")

\* Any number of finished jobs are forgotten at once.
Forget(S) ==
    /\ \A j \in S : state[j] \in {"done", "failed"}
    /\ state' = [j \in Jobs |-> IF j \in S THEN "purged" ELSE state[j]]
    /\ UNCHANGED failures

Next ==
    \/ \E j \in Jobs : Submit(j) \/ Start(j) \/ Succeed(j) \/ Fail(j) \/ Cancel(j)
    \/ \E S \in SUBSET Jobs : Forget(S)

Spec == Init /\ [][Next]_<<state, failures>>
=============================================================================
