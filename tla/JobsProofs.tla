----------------------------- MODULE JobsProofs -----------------------------
(***************************************************************************)
(* Proofs about the work that leaves the event loop.  Workflow: the jobs   *)
(* of the workflow engine, for any sets of jobs, types and API processes   *)
(* and any values of the retry, failure and crash bounds.  Tasks: the      *)
(* background tasks, for any sets of tasks and threads.                    *)
(***************************************************************************)
EXTENDS Workflow, Tasks, TLAPS

\* Every action leaves the variables in their types, the saturating clock and
\* the back-off included (all of worker_pick_one, the routes and the parent).
THEOREM TypeCorrect == Spec => []TypeOK
<1>1. Init => TypeOK
  BY WorkflowAssumption DEF Init, TypeOK, Row, Conns, Stored, Terminal, Running
<1>2. TypeOK /\ [Next]_vars => TypeOK'
  <2> SUFFICES ASSUME TypeOK, [Next]_vars PROVE TypeOK'
    OBVIOUS
  <2> USE WorkflowAssumption DEF TypeOK, Conns, procVars, threadVars, ends
  <2>1. CASE SelectJob
    BY <2>1, Zenon DEF SelectJob, Ready, With, Row
  <2>2. CASE ClaimJob
    BY <2>2 DEF ClaimJob, SqlDone, SqlBusy, ClaimMatch, With, Claimed, Row, Stored, Running
  <2>3. CASE RunHandler
    BY <2>3 DEF RunHandler, Running
  <2>4. CASE UpdateOutcome
    <3>1. Outcome(cur) \in Row
      <4>1. retryCount + 1 \in Nat /\ Backoff(retryCount + 1) \in Int
        BY DEF Backoff
      <4> QED
        BY <4>1 DEF Outcome, GivesUp, Row, Stored, Terminal
    <3> QED
      BY <2>4, <3>1 DEF UpdateOutcome, SqlDone, SqlBusy
  <2>5. CASE ThreadExit
    BY <2>5, Zenon DEF ThreadExit
  <2>6. CASE Parent
    BY <2>6 DEF Parent, WorkflowInit, WorkflowRegister, StartServing,
                WorkflowShutdown, ShutdownComplete, ProcessEnd
  <2>7. CASE Crash
    BY <2>7 DEF Crash, ProcessEnd
  <2>8. CASE Routes
    <3>1. ASSUME NEW p \in API, NEW j \in Jobs, NEW d \in Delays,
                 WorkflowEnqueue(p, j, d)
          PROVE  TypeOK'
      <4>1. d \in Int
        OBVIOUS
      <4>2. \A k \in Jobs : [jobs[k] EXCEPT !.status = "pending", !.due = d] \in Row
        BY <4>1 DEF Row, Stored
      <4>3. jobs' \in [Jobs -> Row]
        BY <3>1, <4>2, Zenon DEF WorkflowEnqueue, SqlDone, SqlBusy
      <4>4. changed' \in {changed, changed \ {p}, changed \cup {p}}
        BY <3>1, Zenon DEF WorkflowEnqueue, SqlDone, SqlBusy
      <4>5. busy' = busy \/ (busy < MaxBusy /\ busy' = busy + 1)
        BY <3>1, Zenon DEF WorkflowEnqueue, SqlDone, SqlBusy
      <4>6. UNCHANGED <<procVars, threadVars, attempts, cancelled, ends>>
        BY <3>1, Zenon DEF WorkflowEnqueue
      <4> QED
        BY <4>3, <4>4, <4>5, <4>6
    <3>2. ASSUME NEW p \in API, NEW j \in Jobs, WorkflowCancel(p, j)
          PROVE  TypeOK'
      BY <3>2 DEF WorkflowCancel, SqlDone, SqlBusy, CancelMatch, With, Row, Stored, Terminal
    <3>3. ASSUME NEW p \in API, NEW a \in PurgeAges, WorkflowPurge(p, a)
          PROVE  TypeOK'
      BY <3>3 DEF WorkflowPurge, SqlDone, SqlBusy, Row
    <3> QED
      BY <2>8, <3>1, <3>2, <3>3, Zenon DEF Routes
  <2>9. CASE Tick
    <3>1. ASSUME NEW j \in Jobs
          PROVE  [jobs[j] EXCEPT !.due = IF @ > -MaxLate THEN @ - 1 ELSE @,
                                 !.age = IF @ < MaxAge THEN @ + 1 ELSE @] \in Row
      <4>1. jobs[j].due \in Int /\ jobs[j].age \in Nat
        BY DEF Row
      <4>2. /\ (IF jobs[j].due > -MaxLate THEN jobs[j].due - 1
                                          ELSE jobs[j].due) \in Int
            /\ (IF jobs[j].age < MaxAge THEN jobs[j].age + 1
                                        ELSE jobs[j].age) \in Nat
        BY <4>1
      <4> QED
        BY <4>2 DEF Row
    <3>2. jobs' \in [Jobs -> Row]
      BY <2>9, <3>1, Zenon DEF Tick
    <3> QED
      BY <2>9, <3>2, Zenon DEF Tick
  <2>10. CASE UNCHANGED vars
    BY <2>10, Zenon DEF vars
  <2> QED
    BY <2>1, <2>2, <2>3, <2>4, <2>5, <2>6, <2>7, <2>8, <2>9, <2>10, Zenon
       DEF Next, Thread
<1> QED
  BY <1>1, <1>2, PTL DEF Spec
-----------------------------------------------------------------------------
(***************************************************************************)
(* The inductive invariant.  Its conjuncts are proved together: that the   *)
(* thread's copies are fresh needs the exclusive claim, and the bound on   *)
(* the attempts needs both.                                                *)
(***************************************************************************)

\* Tick changes only the clock fields of a row.
LEMMA TickKeeps ==
    ASSUME TypeOK, Tick, NEW j \in Jobs
    PROVE  jobs'[j].status = jobs[j].status /\ jobs'[j].retry = jobs[j].retry
  BY Zenon DEF TypeOK, Row, Tick

\* worker_pick_one and the routes keep the inductive invariant.
LEMMA Inductive == TypeOK /\ TypeOK' /\ IInv /\ [Next]_vars => IInv'
  <1> SUFFICES ASSUME TypeOK, TypeOK', IInv, [Next]_vars PROVE IInv'
    OBVIOUS
  <1> USE WorkflowAssumption DEF TypeOK, procVars, threadVars, ends, IInv,
        ThreadAgrees, AttemptsPaid, ClaimExclusive, SnapshotFresh,
        CancelHonoured, AttemptsBounded, Running, InFlight
  <1>1. CASE SelectJob
    BY <1>1 DEF SelectJob, Ready, With, Row
  <1>2. CASE ClaimJob
    BY <1>2 DEF ClaimJob, SqlDone, SqlBusy, ClaimMatch, With, Claimed, Row
  <1>3. CASE RunHandler
    BY <1>3 DEF RunHandler, Row
  <1>4. CASE UpdateOutcome
    <2>1. /\ wpc = "outcome" /\ wpc' = "top"
          /\ UNCHANGED <<procVars, cur, retryCount, attempts, cancelled, ends>>
      BY <1>4, Zenon DEF UpdateOutcome
    <2>2. CASE UNCHANGED jobs /\ busy' = busy + 1
      BY <2>1, <2>2 DEF Row
    <2>3. CASE SqlDone("thread", {j \in {cur} : jobs[j].status \in Stored},
                       [j \in Jobs |-> Outcome(j)])
      <3>1. \A k \in Jobs : k # cur => jobs'[k] = jobs[k]
        BY <2>3, Zenon DEF SqlDone
      <3>2. jobs'[cur] = IF jobs[cur].status \in Stored THEN Outcome(cur)
                                                       ELSE jobs[cur]
        BY <2>3, Zenon DEF SqlDone
      <3>3. UNCHANGED busy
        BY <2>3, Zenon DEF SqlDone
      <3>4. CASE jobs[cur].status \notin Stored
        BY <2>1, <3>1, <3>2, <3>3, <3>4, Zenon DEF Row, Stored
      <3>5. CASE jobs[cur].status \in Stored
        <4>1. /\ jobs'[cur].status \in {"done", "failed", "pending"}
              /\ jobs'[cur].status = "pending" =>
                    jobs'[cur].retry = retryCount + 1 /\ retryCount + 1 < MaxRetries
          BY <3>2, <3>5 DEF Outcome, GivesUp, Row
        <4> QED
          BY <2>1, <3>1, <3>3, <4>1 DEF Row
      <3> QED
        BY <3>4, <3>5, Zenon
    <2> QED
      BY <1>4, <2>2, <2>3, Zenon DEF UpdateOutcome, SqlBusy
  <1>5. CASE ThreadExit
    BY <1>5, Zenon DEF ThreadExit
  <1>6. CASE WorkflowInit
    BY <1>6, Zenon DEF WorkflowInit
  <1>7. CASE \E t \in Types : WorkflowRegister(t)
    BY <1>7, Zenon DEF WorkflowRegister
  <1>8. CASE StartServing
    BY <1>8, Zenon DEF StartServing
  <1>9. CASE WorkflowShutdown
    BY <1>9, Zenon DEF WorkflowShutdown
  <1>10. CASE ShutdownComplete
    BY <1>10, Zenon DEF ShutdownComplete, ProcessEnd
  <1>11. CASE Crash
    BY <1>11 DEF Crash, ProcessEnd
  <1>12. ASSUME NEW p \in API, NEW j \in Jobs, NEW d \in Delays,
                WorkflowEnqueue(p, j, d)
         PROVE  IInv'
    <2>1. UNCHANGED <<procVars, threadVars, attempts, cancelled, ends>>
          /\ jobs[j].status = "none"
      BY <1>12, Zenon DEF WorkflowEnqueue
    <2>2. CASE UNCHANGED busy
      <3>1. SqlDone(p, {j}, [k \in Jobs |-> [jobs[k] EXCEPT !.status = "pending",
                                                      !.due = d]])
        <4>1. busy' # busy + 1
          BY <2>2
        <4> QED
          BY <1>12, <4>1, Zenon DEF WorkflowEnqueue, SqlBusy
      <3>2. \A k \in Jobs : k # j => jobs'[k] = jobs[k]
        BY <3>1, Zenon DEF SqlDone
      <3>3. jobs'[j].status = "pending" /\ jobs'[j].retry = jobs[j].retry
        BY <3>1, Zenon DEF SqlDone, Row
      <3> QED
        BY <2>1, <2>2, <3>2, <3>3 DEF Row
    <2>3. CASE UNCHANGED jobs /\ busy' = busy + 1
      BY <2>1, <2>3 DEF Row
    <2> QED
      BY <1>12, <2>2, <2>3, Zenon DEF WorkflowEnqueue, SqlDone, SqlBusy
  <1>13. ASSUME NEW p \in API, NEW j \in Jobs, WorkflowCancel(p, j)
         PROVE  IInv'
    BY <1>13 DEF WorkflowCancel, SqlDone, SqlBusy, CancelMatch, With, Row
  <1>14. ASSUME NEW p \in API, NEW a \in PurgeAges, WorkflowPurge(p, a)
         PROVE  IInv'
    <2>1. UNCHANGED <<procVars, threadVars, attempts, cancelled, ends>>
      BY <1>14, Zenon DEF WorkflowPurge
    <2>2. CASE UNCHANGED jobs /\ busy' = busy + 1
      BY <2>1, <2>2 DEF Row
    <2>3. CASE SqlDone(p, {j \in Jobs : jobs[j].status \in Terminal /\ jobs[j].age > a},
                       [k \in Jobs |-> [jobs[k] EXCEPT !.status = "purged"]])
      <3>1. \A j \in Jobs : \/ jobs'[j] = jobs[j]
                            \/ /\ jobs[j].status \in Terminal /\ jobs'[j].status = "purged"
                               /\ jobs'[j].retry = jobs[j].retry
        BY <2>3 DEF SqlDone, Row
      <3>2. UNCHANGED busy
        BY <2>3, Zenon DEF SqlDone
      <3> QED
        BY <2>1, <3>1, <3>2, SMTT(30) DEF Terminal
    <2> QED
      BY <1>14, <2>2, <2>3, Zenon DEF WorkflowPurge, SqlBusy
  <1>15. CASE Tick
    <2>1. \A j \in Jobs : /\ jobs'[j].status = jobs[j].status
                         /\ jobs'[j].retry = jobs[j].retry
      BY <1>15, TickKeeps, Zenon
    <2>2. UNCHANGED <<procVars, threadVars, attempts, cancelled, busy, ends>>
      BY <1>15, Zenon DEF Tick
    <2> QED
      BY <2>1, <2>2, Zenon
  <1>16. CASE UNCHANGED vars
    BY <1>16, Zenon DEF vars
  <1> QED
    BY <1>1, <1>2, <1>3, <1>4, <1>5, <1>6, <1>7, <1>8, <1>9, <1>10, <1>11,
       <1>12, <1>13, <1>14, <1>15, <1>16, Zenon DEF Next, Thread, Parent, Routes

\* The inductive invariant holds in every reachable state.
LEMMA InvCorrect == Spec => []IInv
  <1>1. Init => IInv
    BY WorkflowAssumption
       DEF Init, IInv, ThreadAgrees, AttemptsPaid, ClaimExclusive, SnapshotFresh,
           CancelHonoured, AttemptsBounded, Running, InFlight, Row
  <1> QED
    BY <1>1, TypeCorrect, Inductive, PTL DEF Spec

\* Until a statement fails or the service crashes, the rows marked 'running'
\* are exactly the job in the thread's hands (the claim of worker_pick_one
\* against workflow_cancel_job and workflow_purge_done in other processes).
THEOREM ExclusiveClaim == Spec => []ClaimExclusive
  BY InvCorrect, PTL DEF IInv

\* As long as no statement has failed, a job whose cancellation was reported is
\* never run and stays failed (workflow_cancel_job against worker_pick_one).
THEOREM CancelSafe == Spec => []CancelHonoured
  BY InvCorrect, PTL DEF IInv

\* A handler is called at most WORKFLOW_MAX_RETRIES times for a job, plus once
\* for each statement whose failure the code ignored.
THEOREM BoundedAttempts == Spec => []AttemptsBounded
  BY InvCorrect, PTL DEF IInv

\* A client that was told "done" or "failed" is never told anything else
\* (workflow_get_job), unless the job is purged.
THEOREM StableResults == Spec => TerminalStays
  <1> DEFINE Stays == busy' = 0 => \A j \in Jobs : WorkflowGetJob(j) \in Terminal =>
                   WorkflowGetJob(j)' \in {WorkflowGetJob(j), "not found"}
  <1>1. TypeOK /\ IInv /\ [Next]_vars => [Stays]_vars
    <2> SUFFICES ASSUME TypeOK, IInv, Next, busy' = 0, NEW j \in Jobs,
                        jobs[j].status \in Terminal
                 PROVE  jobs'[j].status \in {jobs[j].status, "purged"}
      BY Zenon DEF WorkflowGetJob, Stored, Terminal, TypeOK, Row
    <2> USE DEF TypeOK, procVars, threadVars, Row, Terminal
    <2>1. CASE SelectJob \/ RunHandler \/ ThreadExit \/ Parent \/ Crash
      BY <2>1 DEF SelectJob, RunHandler, ThreadExit, Parent, Crash, WorkflowInit,
                  WorkflowRegister, StartServing, WorkflowShutdown,
                  ShutdownComplete, ProcessEnd
    <2>2. CASE ClaimJob
      BY <2>2, Zenon DEF ClaimJob, SqlDone, SqlBusy, ClaimMatch, With
    <2>3. CASE UpdateOutcome
      <3>1. busy = 0
        BY <2>3, WorkflowAssumption DEF UpdateOutcome, SqlDone, SqlBusy
      <3>2. j # cur
        BY <2>3, <3>1, Zenon DEF UpdateOutcome, IInv, SnapshotFresh, Running
      <3> QED
        BY <2>3, <3>2, Zenon DEF UpdateOutcome, SqlDone, SqlBusy
    <2>4. CASE Routes
      <3>1. ASSUME NEW p \in API, NEW k \in Jobs, NEW d \in Delays,
                   WorkflowEnqueue(p, k, d)
            PROVE  jobs'[j] = jobs[j]
        BY <3>1, Zenon DEF WorkflowEnqueue, SqlDone, SqlBusy
      <3>2. ASSUME NEW p \in API, NEW k \in Jobs, WorkflowCancel(p, k)
            PROVE  jobs'[j] = jobs[j]
        BY <3>2, Zenon DEF WorkflowCancel, SqlDone, SqlBusy, CancelMatch, With
      <3>3. ASSUME NEW p \in API, NEW a \in PurgeAges, WorkflowPurge(p, a)
            PROVE  jobs'[j].status \in {jobs[j].status, "purged"}
        BY <3>3 DEF WorkflowPurge, SqlDone, SqlBusy
      <3> QED
        BY <2>4, <3>1, <3>2, <3>3, Zenon DEF Routes
    <2>5. CASE Tick
      BY <2>5, TickKeeps, Zenon
    <2> QED
      BY <2>1, <2>2, <2>3, <2>4, <2>5, Zenon DEF Next, Thread
  <1> QED
    BY <1>1, TypeCorrect, InvCorrect, PTL DEF Spec, TerminalStays

\* Without failing statements every step of the engine is a step of the queue
\* workflow.h promises: no job is started twice, lost, retried once too often
\* or cancelled after it was started.
THEOREM Refinement == MaxBusy = 0 => (Spec => ImplementsQueue)
  <1> SUFFICES ASSUME MaxBusy = 0 PROVE Spec => Queue!Spec
    BY DEF ImplementsQueue
  <1> DEFINE st == [j \in Jobs |-> jobs[j].status]
             rt == [j \in Jobs |-> jobs[j].retry]
  <1>1. Init => Queue!Init
    BY DEF Init, Queue!Init
  <1>2. TypeOK /\ IInv /\ [Next]_vars => [Queue!Next]_<<st, rt>>
    <2> SUFFICES ASSUME TypeOK, IInv, [Next]_vars
                 PROVE  Queue!Next \/ UNCHANGED <<st, rt>>
      OBVIOUS
    <2>a. ASSUME NEW j \in Jobs, \/ Queue!Submit(j) \/ Queue!Start(j)
                                 \/ Queue!Succeed(j) \/ Queue!Fail(j)
                                 \/ Queue!Cancel(j)
          PROVE  Queue!Next
      BY <2>a, Zenon DEF Queue!Next
    <2>b. ~(busy < MaxBusy)
      BY DEF TypeOK
    <2>c. PICK c \in Jobs : cur = c
      BY DEF TypeOK
    <2> USE DEF TypeOK, Row
    <2>1. CASE SelectJob \/ RunHandler \/ ThreadExit \/ Parent \/ Crash
      BY <2>1 DEF SelectJob, RunHandler, ThreadExit, Parent, Crash, WorkflowInit,
                  WorkflowRegister, StartServing, WorkflowShutdown,
                  ShutdownComplete, ProcessEnd
    <2>2. CASE ClaimJob
      <3>1. jobs' = [j \in Jobs |-> IF j = c /\ jobs[j].status = "pending"
                       THEN [jobs[j] EXCEPT !.status = "running"] ELSE jobs[j]]
        BY <2>b, <2>c, <2>2, Zenon DEF ClaimJob, SqlDone, SqlBusy, ClaimMatch, With
      <3>2. CASE jobs[c].status = "pending"
        <4>1. Queue!Start(c)
          BY <3>1, <3>2, Zenon DEF Queue!Start, Queue!Move
        <4> QED
          BY <2>a, <4>1, Zenon
      <3>3. CASE jobs[c].status # "pending"
        BY <3>1, <3>3, Zenon
      <3> QED
        BY <3>2, <3>3, Zenon
    <2>3. CASE UpdateOutcome
      <3>1. jobs[c].status = "running" /\ retryCount = jobs[c].retry
        BY <2>c, <2>3 DEF UpdateOutcome, IInv, SnapshotFresh, Running
      <3>2. jobs' = [j \in Jobs |-> IF j = c THEN Outcome(j) ELSE jobs[j]]
        BY <2>b, <2>c, <2>3, <3>1, Zenon DEF UpdateOutcome, SqlDone, SqlBusy, Stored
      <3>3. CASE handlerRc = 0
        <4>1. Queue!Succeed(c)
          BY <3>1, <3>2, <3>3, Zenon DEF Outcome, GivesUp, Queue!Succeed, Queue!Move
        <4> QED
          BY <2>a, <4>1, Zenon
      <3>4. CASE handlerRc # 0
        <4> DEFINE n == jobs[c].retry + 1
        <4>1. rt' = [rt EXCEPT ![c] = @ + 1]
          BY <3>1, <3>2, <3>4, Zenon DEF Outcome, GivesUp
        <4>2. st' = [st EXCEPT ![c] = IF n < MaxRetries THEN "pending" ELSE "failed"]
          <5>1. jobs[c].retry \in Nat /\ Outcome(c) = jobs'[c]
            BY <3>2
          <5>2. Outcome(c).status = IF n < MaxRetries THEN "pending" ELSE "failed"
            BY <3>1, <3>4, <5>1, WorkflowAssumption DEF Outcome, GivesUp
          <5>3. \A j \in Jobs : j # c => jobs'[j] = jobs[j]
            BY <3>2
          <5> QED
            BY <5>1, <5>2, <5>3, Zenon
        <4>3. Queue!Fail(c)
          BY <3>1, <4>1, <4>2, Zenon DEF Queue!Fail, Queue!Move
        <4> QED
          BY <2>a, <4>3, Zenon
      <3> QED
        BY <3>3, <3>4, Zenon
    <2>4. ASSUME NEW p \in API, NEW j \in Jobs, NEW d \in Delays,
                 WorkflowEnqueue(p, j, d)
          PROVE  Queue!Submit(j)
      <3>1. jobs[j].status = "none"
        BY <2>4, Zenon DEF WorkflowEnqueue
      <3>2. jobs' = [k \in Jobs |-> IF k = j
                       THEN [jobs[k] EXCEPT !.status = "pending", !.due = d]
                       ELSE jobs[k]]
        BY <2>b, <2>4, Zenon DEF WorkflowEnqueue, SqlDone, SqlBusy
      <3> QED
        BY <3>1, <3>2, Zenon DEF Queue!Submit, Queue!Move
    <2>5. ASSUME NEW p \in API, NEW j \in Jobs, WorkflowCancel(p, j)
          PROVE  Queue!Cancel(j) \/ UNCHANGED <<st, rt>>
      <3>1. jobs' = [k \in Jobs |-> IF k = j /\ jobs[k].status = "pending"
                       THEN [jobs[k] EXCEPT !.status = "failed"] ELSE jobs[k]]
        BY <2>b, <2>5, Zenon DEF WorkflowCancel, SqlDone, SqlBusy, CancelMatch, With
      <3>2. CASE jobs[j].status = "pending"
        BY <3>1, <3>2, Zenon DEF Queue!Cancel, Queue!Move
      <3>3. CASE jobs[j].status # "pending"
        BY <3>1, <3>3, Zenon
      <3> QED
        BY <3>2, <3>3, Zenon
    <2>6. ASSUME NEW p \in API, NEW a \in PurgeAges, WorkflowPurge(p, a)
          PROVE  \E S \in SUBSET Jobs : Queue!Forget(S)
      <3>1. PICK S \in SUBSET Jobs :
                S = {j \in Jobs : jobs[j].status \in Terminal /\ jobs[j].age > a}
        BY Zenon
      <3>2. Queue!Forget(S)
        BY <2>b, <2>6, <3>1 DEF WorkflowPurge, SqlDone, SqlBusy, Terminal, Queue!Forget
      <3> QED
        BY <3>2, Zenon
    <2>7. CASE Tick
      BY <2>7, TickKeeps, Zenon
    <2>8. CASE UNCHANGED vars
      BY <2>8, Zenon DEF vars
    <2> QED
      <3>1. CASE Routes
        BY <2>a, <2>4, <2>5, <2>6, <3>1, Zenon DEF Routes, Queue!Next
      <3> QED
        BY <2>1, <2>2, <2>3, <2>7, <2>8, <3>1, Zenon DEF Next, Thread
  <1> QED
    BY <1>1, <1>2, TypeCorrect, InvCorrect, PTL DEF Spec, Queue!Spec
-----------------------------------------------------------------------------
\* TAILQ_INSERT_TAIL adds one element to a queue.
LEMMA Appended ==
    ASSUME NEW S, NEW q \in Seq(S), NEW e \in S
    PROVE  /\ Append(q, e) \in Seq(S) /\ Append(q, e) # << >>
           /\ Range(Append(q, e)) = Range(q) \cup {e}
           /\ IsInjective(q) /\ e \notin Range(q) => IsInjective(Append(q, e))
<1>1. /\ Append(q, e) \in Seq(S) /\ Append(q, e) # << >>
      /\ Len(q) \in Nat
      /\ DOMAIN q = 1 .. Len(q)
      /\ DOMAIN Append(q, e) = 1 .. Len(q) + 1
      /\ \A i \in 1 .. Len(q) : Append(q, e)[i] = q[i]
      /\ Append(q, e)[Len(q) + 1] = e
  OBVIOUS
<1>2. Range(Append(q, e)) = Range(q) \cup {e}
  <2>1. ASSUME NEW x \in Range(Append(q, e)) PROVE x \in Range(q) \cup {e}
    <3>1. PICK i \in 1 .. Len(q) + 1 : x = Append(q, e)[i]
      BY <1>1, <2>1 DEF Range
    <3>2. CASE i = Len(q) + 1
      BY <1>1, <3>1, <3>2
    <3>3. CASE i \in 1 .. Len(q)
      BY <1>1, <3>1, <3>3, Zenon DEF Range
    <3> QED
      BY <1>1, <3>2, <3>3
  <2>2. ASSUME NEW x \in Range(q) PROVE x \in Range(Append(q, e))
    <3>1. PICK i \in 1 .. Len(q) : x = q[i]
      BY <1>1, <2>2 DEF Range
    <3>2. i \in 1 .. Len(q) + 1
      BY <1>1
    <3> QED
      BY <1>1, <3>1, <3>2 DEF Range
  <2>3. e \in Range(Append(q, e))
    <3>1. Len(q) + 1 \in 1 .. Len(q) + 1
      BY <1>1
    <3> QED
      BY <1>1, <3>1 DEF Range
  <2> QED
    BY <2>1, <2>2, <2>3
<1>3. ASSUME IsInjective(q), e \notin Range(q) PROVE IsInjective(Append(q, e))
  <2>1. ASSUME NEW i \in 1 .. Len(q) + 1, NEW j \in 1 .. Len(q) + 1,
               Append(q, e)[i] = Append(q, e)[j]
        PROVE  i = j
    <3>1. \A k \in 1 .. Len(q) : q[k] # e
      BY <1>1, <1>3 DEF Range
    <3>2. CASE i \in 1 .. Len(q) /\ j \in 1 .. Len(q)
      BY <1>1, <1>3, <2>1, <3>2, Zenon DEF IsInjective
    <3>3. CASE i = Len(q) + 1 \/ j = Len(q) + 1
      BY <1>1, <2>1, <3>1, <3>3
    <3> QED
      BY <1>1, <3>2, <3>3
  <2> QED
    BY <1>1, <2>1 DEF IsInjective
<1> QED
  BY <1>1, <1>2, <1>3

\* TAILQ_REMOVE of the first element takes just that one off a queue.
LEMMA Removed ==
    ASSUME NEW S, NEW q \in Seq(S), q # << >>
    PROVE  /\ Tail(q) \in Seq(S) /\ Head(q) \in S
           /\ IsInjective(q) =>
                /\ Head(q) \notin Range(Tail(q))
                /\ Range(q) = Range(Tail(q)) \cup {Head(q)}
                /\ IsInjective(Tail(q))
<1>1. /\ Tail(q) \in Seq(S) /\ Head(q) \in S
      /\ Len(q) \in Nat \ {0}
      /\ DOMAIN q = 1 .. Len(q) /\ Head(q) = q[1]
      /\ DOMAIN Tail(q) = 1 .. Len(q) - 1
      /\ \A i \in 1 .. Len(q) - 1 : Tail(q)[i] = q[i + 1]
  OBVIOUS
<1>2. ASSUME IsInjective(q)
      PROVE  Head(q) \notin Range(Tail(q)) /\ IsInjective(Tail(q))
  <2>1. \A i \in 1 .. Len(q) - 1 : i + 1 \in DOMAIN q /\ i + 1 # 1 /\ 1 \in DOMAIN q
    BY <1>1
  <2>2. \A i \in 1 .. Len(q) - 1 : Tail(q)[i] # Head(q)
    BY <1>1, <1>2, <2>1 DEF IsInjective
  <2>3. ASSUME NEW i \in 1 .. Len(q) - 1, NEW j \in 1 .. Len(q) - 1,
               Tail(q)[i] = Tail(q)[j]
        PROVE  i = j
    <3>1. i + 1 = j + 1
      BY <1>1, <1>2, <2>1, <2>3 DEF IsInjective
    <3> QED
      BY <1>1, <3>1
  <2> QED
    BY <1>1, <2>2, <2>3 DEF Range, IsInjective
<1>3. Range(q) = Range(Tail(q)) \cup {Head(q)}
  <2>1. ASSUME NEW x \in Range(q) PROVE x \in Range(Tail(q)) \cup {Head(q)}
    <3>1. PICK i \in 1 .. Len(q) : x = q[i]
      BY <1>1, <2>1 DEF Range
    <3>2. CASE i = 1
      BY <1>1, <3>1, <3>2
    <3>3. CASE i # 1
      <4>1. i - 1 \in 1 .. Len(q) - 1 /\ (i - 1) + 1 = i
        BY <1>1, <3>3
      <4>2. Tail(q)[i - 1] = x
        BY <1>1, <3>1, <4>1
      <4> QED
        BY <1>1, <4>1, <4>2, Zenon DEF Range
    <3> QED
      BY <3>2, <3>3
  <2>2. ASSUME NEW x \in Range(Tail(q)) PROVE x \in Range(q)
    <3>1. PICK i \in 1 .. Len(q) - 1 : x = Tail(q)[i]
      BY <1>1, <2>2 DEF Range
    <3>2. i + 1 \in DOMAIN q /\ x = q[i + 1]
      BY <1>1, <3>1
    <3> QED
      BY <3>2 DEF Range
  <2>3. Head(q) \in Range(q)
    <3>1. 1 \in DOMAIN q
      BY <1>1
    <3> QED
      BY <1>1, <3>1 DEF Range
  <2> QED
    BY <2>1, <2>2, <2>3
<1> QED
  BY <1>1, <1>2, <1>3

-----------------------------------------------------------------------------
\* Every action leaves the variables in their types; that the list of threads
\* is not empty when kore_task_run rotates it comes from PoolAgrees.
LEMMA TasksTypeInductive == TasksTypeOK /\ PoolAgrees /\ [TasksNext]_tasksVars => TasksTypeOK'
<1> SUFFICES ASSUME TasksTypeOK, PoolAgrees, [TasksNext]_tasksVars PROVE TasksTypeOK'
  OBVIOUS
<1> USE TasksAssumption DEF TasksTypeOK, mainVars, poolVars, taskVars
<1>1. ASSUME NEW t \in Tasks, RunTask(t) PROVE TasksTypeOK'
  <2>1. PICK tt \in Threads : /\ Spawn(tt) \/ Reuse(tt)
                              /\ queue' = [queue EXCEPT ![tt] = Append(@, t)]
                              /\ signal' = tt
    BY <1>1, Zenon DEF RunTask
  <2>2. queue' \in [Threads -> Seq(Tasks)]
    BY <2>1, Appended, Zenon
  <2>3. CASE Spawn(tt)
    <3>1. Append(cycle, tt) \in Seq(Threads)
      BY Appended
    <3> QED
      BY <1>1, <2>1, <2>2, <2>3, <3>1, Zenon DEF RunTask, Spawn
  <2>4. CASE Reuse(tt)
    <3>1. cycle # << >>
      BY <2>4, Zenon DEF Reuse, PoolAgrees
    <3>2. Tail(cycle) \in Seq(Threads)
      BY <3>1, Removed, Zenon
    <3>3. Append(Tail(cycle), tt) \in Seq(Threads)
      BY <3>2, Appended
    <3> QED
      BY <1>1, <2>1, <2>2, <2>4, <3>3, Zenon DEF RunTask, Reuse
  <2> QED
    BY <2>1, <2>3, <2>4, Zenon
<1>2. ASSUME NEW tt \in Threads, Take(tt) PROVE TasksTypeOK'
  <2>1. queue[tt] \in Seq(Tasks) /\ queue[tt] # << >>
    BY <1>2, Zenon DEF Take
  <2>2. Tail(queue[tt]) \in Seq(Tasks) /\ Head(queue[tt]) \in Tasks
    BY <2>1, Removed, Zenon
  <2> QED
    BY <1>2, <2>2, Zenon DEF Take
<1>3. ASSUME NEW tt \in Threads, Wait(tt) PROVE TasksTypeOK'
  BY <1>3, Zenon DEF Wait
<1>4. ASSUME NEW tt \in Threads, TakeNothing(tt) PROVE TasksTypeOK'
  BY <1>4, Zenon DEF TakeNothing
<1>5. ASSUME NEW tt \in Threads, SetRunning(tt) PROVE TasksTypeOK'
  BY <1>5, Zenon DEF SetRunning
<1>6. ASSUME NEW tt \in Threads, EntryWrites(tt) PROVE TasksTypeOK'
  BY <1>6 DEF EntryWrites, PoolAgrees
<1>7. ASSUME NEW tt \in Threads, Finish(tt) PROVE TasksTypeOK'
  BY <1>7 DEF Finish, PoolAgrees
<1>8. CASE Signal
  BY <1>8, Zenon DEF Signal
<1>9. ASSUME NEW t \in Tasks, LoopStep(t) PROVE TasksTypeOK'
  BY <1>9 DEF LoopStep, HandleData, HandleFinished, PageHandler, Wakeup
<1>10. CASE UNCHANGED tasksVars
  BY <1>10, Zenon DEF tasksVars
<1> QED
  BY <1>1, <1>2, <1>3, <1>4, <1>5, <1>6, <1>7, <1>8, <1>9, <1>10, Zenon
  DEF TasksNext, Live, ThreadStep

\* A thread's queue and task after a step that changes neither are the same.
LEMMA HeldUnchanged ==
    ASSUME UNCHANGED <<queue, current>>
    PROVE  /\ OnePlace => OnePlace'
           /\ \A tt \in Threads : Held(tt)' = Held(tt)
BY DEF OnePlace, Held

\* Only tasks are held.
LEMMA HeldTasks == TasksTypeOK => \A tt \in Threads : Held(tt) \subseteq Tasks
BY DEF TasksTypeOK, Held, Range

\* What the pool holds stays in one place and agrees with the tasks.
LEMMA PoolInductive ==
    TasksTypeOK /\ PoolAgrees /\ OnePlace /\ [TasksNext]_tasksVars => PoolAgrees' /\ OnePlace'
<1> SUFFICES ASSUME TasksTypeOK, PoolAgrees, OnePlace, [TasksNext]_tasksVars
             PROVE  PoolAgrees' /\ OnePlace'
  OBVIOUS
<1> USE TasksAssumption DEF TasksTypeOK, mainVars, poolVars, taskVars
<1>1. ASSUME NEW t \in Tasks, RunTask(t) PROVE PoolAgrees' /\ OnePlace'
  <2>1. PICK tt \in Threads : /\ Spawn(tt) \/ Reuse(tt)
                              /\ queue' = [queue EXCEPT ![tt] = Append(@, t)]
    BY <1>1, Zenon DEF RunTask
  <2>2. /\ current' = current /\ closed' = closed /\ state[t] = "new"
        /\ state' = [state EXCEPT ![t] = "CREATED"]
    BY <1>1, Zenon DEF RunTask
  <2>3. \A u \in Threads : t \notin Held(u)
    BY <2>2, Zenon DEF PoolAgrees
  <2>4. t \notin Range(queue[tt])
    BY <2>3 DEF Held
  <2>5. /\ Range(queue'[tt]) = Range(queue[tt]) \cup {t}
        /\ IsInjective(queue'[tt])
    BY <2>1, <2>4, Appended DEF OnePlace
  <2>6. \A u \in Threads : u # tt => queue'[u] = queue[u]
    BY <2>1
  <2>7. \A u \in Threads : Held(u)' = IF u = tt THEN Held(u) \cup {t} ELSE Held(u)
    BY <2>2, <2>5, <2>6 DEF Held
  <2>8. current[tt] # t
    BY <2>3 DEF Held
  <2>9. OnePlace'
    <3>1. \A u \in Threads : IsInjective(queue'[u]) /\ current'[u] \notin Range(queue'[u])
      BY <2>2, <2>5, <2>6, <2>8, Zenon DEF OnePlace
    <3>2. ASSUME NEW u \in Threads, NEW v \in Threads, u # v
          PROVE  Held(u)' \cap Held(v)' = {}
      <4>1. Held(u) \cap Held(v) = {} /\ t \notin Held(u) /\ t \notin Held(v)
        BY <2>3, <3>2, Zenon DEF OnePlace
      <4>2. Held(u)' = IF u = tt THEN Held(u) \cup {t} ELSE Held(u)
        BY <2>7
      <4>3. Held(v)' = IF v = tt THEN Held(v) \cup {t} ELSE Held(v)
        BY <2>7, Zenon
      <4> QED
        BY <3>2, <4>1, <4>2, <4>3
    <3> QED
      BY <3>1, <3>2, Zenon DEF OnePlace
  <2>10. cycle' # << >>
    <3>1. CASE Spawn(tt)
      BY <3>1, Appended, Zenon DEF Spawn
    <3>2. CASE Reuse(tt)
      <4>1. cycle # << >>
        BY <3>2, Zenon DEF Reuse, PoolAgrees
      <4>2. Tail(cycle) \in Seq(Threads)
        BY <4>1, Removed, Zenon
      <4> QED
        BY <3>2, <4>2, Appended, Zenon DEF Reuse
    <3> QED
      BY <2>1, <3>1, <3>2, Zenon
  <2>11. \A u \in Threads : current'[u] # None <=> pc'[u] \in {"taken", "entry", "wrote"}
    BY <2>1, <2>2, Zenon DEF Spawn, Reuse, PoolAgrees
  <2>12. t \notin closed
    BY <2>2, Zenon DEF PoolAgrees
  <2>13. ASSUME NEW u \in Threads, NEW s \in Held(u)'
         PROVE  state'[s] \in {"CREATED", "RUNNING"} /\ s \notin closed'
    <3>1. CASE s = t
      BY <2>2, <2>12, <3>1, Zenon
    <3>2. CASE s # t
      <4>1. s \in Held(u)
        BY <2>7, <2>13, <3>2, Zenon
      <4>2. s \in Tasks
        BY <4>1, HeldTasks, Zenon
      <4> QED
        BY <2>2, <3>2, <4>1, <4>2 DEF PoolAgrees
    <3> QED
      BY <3>1, <3>2, Zenon
  <2>14. \A s \in closed' : state'[s] # "new"
    BY <2>2 DEF PoolAgrees
  <2> QED
    BY <2>9, <2>10, <2>11, <2>13, <2>14, Zenon DEF PoolAgrees
<1>2. ASSUME NEW tt \in Threads, Take(tt) PROVE PoolAgrees' /\ OnePlace'
  <2>1. queue[tt] \in Seq(Tasks) /\ queue[tt] # << >> /\ IsInjective(queue[tt])
    BY <1>2, Zenon DEF Take, OnePlace
  <2>2. /\ Head(queue[tt]) \in Tasks
        /\ Head(queue[tt]) \notin Range(Tail(queue[tt]))
        /\ Range(queue[tt]) = Range(Tail(queue[tt])) \cup {Head(queue[tt])}
        /\ IsInjective(Tail(queue[tt]))
    BY <2>1, Removed, Zenon
  <2>3. current[tt] = None
    BY <1>2, Zenon DEF Take, PoolAgrees
  <2>4. /\ queue' = [queue EXCEPT ![tt] = Tail(@)]
        /\ current' = [current EXCEPT ![tt] = Head(queue[tt])]
        /\ pc' = [pc EXCEPT ![tt] = "taken"]
        /\ UNCHANGED <<cycle, state, closed>>
    BY <1>2, Zenon DEF Take
  <2>5. \A u \in Threads : Held(u)' = Held(u)
    BY <2>2, <2>3, <2>4 DEF Held
  <2>6. OnePlace'
    <3>1. \A u \in Threads : IsInjective(queue'[u]) /\ current'[u] \notin Range(queue'[u])
      BY <2>2, <2>4 DEF OnePlace
    <3> QED
      BY <2>5, <3>1 DEF OnePlace
  <2>7. \A u \in Threads : current'[u] # None <=> pc'[u] \in {"taken", "entry", "wrote"}
    BY <2>2, <2>4 DEF PoolAgrees
  <2>8. (\E u \in Threads : pc'[u] # "unspawned") => cycle' # << >>
    BY <1>2, <2>4, Zenon DEF PoolAgrees, Take
  <2> QED
    BY <2>4, <2>5, <2>6, <2>7, <2>8 DEF PoolAgrees
<1>3. ASSUME NEW tt \in Threads, Finish(tt) PROVE PoolAgrees' /\ OnePlace'
  <2>1. current[tt] \in Tasks /\ current[tt] # None
    BY <1>3 DEF Finish, PoolAgrees
  <2>2. /\ queue' = queue /\ closed' = closed \cup {current[tt]}
        /\ current' = [current EXCEPT ![tt] = None]
        /\ pc' = [pc EXCEPT ![tt] = "top"]
        /\ UNCHANGED <<cycle, state>>
    BY <1>3 DEF Finish
  <2>3. current[tt] \in Held(tt) /\ current[tt] \notin Range(queue[tt])
    BY <2>1, Zenon DEF Held, OnePlace
  <2>4. \A u \in Threads : Held(u)' = Held(u) \ {current[tt]}
    <3>1. Held(tt)' = Held(tt) \ {current[tt]}
      BY <2>1, <2>2, <2>3 DEF Held
    <3>2. ASSUME NEW u \in Threads, u # tt PROVE Held(u)' = Held(u) \ {current[tt]}
      <4>1. current[tt] \notin Held(u)
        BY <2>3, <3>2, Zenon DEF OnePlace
      <4>2. Held(u)' = Held(u)
        BY <2>2, <3>2, Zenon DEF Held
      <4> QED
        BY <4>1, <4>2
    <3> QED
      BY <3>1, <3>2, Zenon
  <2>5. OnePlace'
    <3>1. None \notin Range(queue[tt])
      BY DEF Range
    <3>2. \A u \in Threads : IsInjective(queue'[u]) /\ current'[u] \notin Range(queue'[u])
      BY <2>2, <3>1, Zenon DEF OnePlace
    <3>3. \A u, v \in Threads : u # v => Held(u)' \cap Held(v)' = {}
      BY <2>4 DEF OnePlace
    <3> QED
      BY <3>2, <3>3, Zenon DEF OnePlace
  <2>6. state[current[tt]] # "new"
    BY <2>3, Zenon DEF PoolAgrees
  <2>7. \A u \in Threads : current'[u] # None <=> pc'[u] \in {"taken", "entry", "wrote"}
    BY <2>2 DEF PoolAgrees
  <2>8. (\E u \in Threads : pc'[u] # "unspawned") => cycle' # << >>
    BY <1>3, <2>2, Zenon DEF PoolAgrees, Finish
  <2> QED
    BY <2>2, <2>4, <2>5, <2>6, <2>7, <2>8 DEF PoolAgrees
<1>4. ASSUME NEW tt \in Threads, Wait(tt) \/ TakeNothing(tt) \/ EntryWrites(tt)
      PROVE  PoolAgrees' /\ OnePlace'
  <2>1. UNCHANGED <<queue, current, state, closed, cycle>>
    BY <1>4, Zenon DEF Wait, TakeNothing, EntryWrites
  <2>2. \A u \in Threads : /\ pc'[u] = "unspawned" <=> pc[u] = "unspawned"
                           /\ pc'[u] \in {"taken", "entry", "wrote"}
                                <=> pc[u] \in {"taken", "entry", "wrote"}
    BY <1>4 DEF Wait, TakeNothing, EntryWrites
  <2> QED
    BY <2>1, <2>2, HeldUnchanged DEF PoolAgrees
<1>5. ASSUME NEW tt \in Threads, SetRunning(tt) PROVE PoolAgrees' /\ OnePlace'
  BY <1>5, HeldUnchanged, HeldTasks DEF SetRunning, PoolAgrees
<1>6. CASE Signal
  BY <1>6, HeldUnchanged DEF Signal, PoolAgrees
<1>7. ASSUME NEW t \in Tasks, HandleData(t) PROVE PoolAgrees' /\ OnePlace'
  BY <1>7, HeldUnchanged DEF HandleData, PoolAgrees
<1>8. ASSUME NEW t \in Tasks, HandleFinished(t) PROVE PoolAgrees' /\ OnePlace'
  BY <1>8, HeldUnchanged, HeldTasks DEF HandleFinished, PoolAgrees
<1>9. ASSUME NEW t \in Tasks, PageHandler(t) PROVE PoolAgrees' /\ OnePlace'
  BY <1>9, HeldUnchanged, HeldTasks DEF PageHandler, PoolAgrees
<1>10. CASE UNCHANGED tasksVars
  BY <1>10, HeldUnchanged DEF tasksVars, PoolAgrees
<1> QED
  BY <1>1, <1>2, <1>3, <1>4, <1>5, <1>6, <1>7, <1>8, <1>9, <1>10, Zenon
  DEF TasksNext, Live, ThreadStep, LoopStep

\* A task is handed over only while nobody is left to be signalled, and
\* kore_task_run then signals the thread it chose.
LEMMA WakeupInductive == TasksTypeOK /\ NoLostWakeup /\ [TasksNext]_tasksVars => NoLostWakeup'
<1> SUFFICES ASSUME TasksTypeOK, NoLostWakeup, [TasksNext]_tasksVars PROVE NoLostWakeup'
  OBVIOUS
<1> USE TasksAssumption DEF TasksTypeOK, mainVars, poolVars, NoLostWakeup
<1>1. ASSUME NEW t \in Tasks, RunTask(t) PROVE NoLostWakeup'
  <2>1. PICK tt \in Threads : /\ Spawn(tt) \/ Reuse(tt)
                              /\ queue' = [queue EXCEPT ![tt] = Append(@, t)]
                              /\ signal' = tt
    BY <1>1, Zenon DEF RunTask
  <2>2. \A u \in Threads : pc'[u] = "wait" => pc[u] = "wait"
    BY <2>1, Zenon DEF Spawn, Reuse
  <2>3. \A u \in Threads : u # tt => queue'[u] = queue[u]
    BY <2>1
  <2>4. signal = None
    BY <1>1, Zenon DEF RunTask
  <2> QED
    BY <2>1, <2>2, <2>3, <2>4
<1>2. ASSUME NEW tt \in Threads, ThreadStep(tt) PROVE NoLostWakeup'
  <2>1. UNCHANGED signal
    BY <1>2, Zenon DEF ThreadStep, Wait, Take, TakeNothing, SetRunning, EntryWrites, Finish
  <2>2. \A u \in Threads : u # tt => pc'[u] = pc[u] /\ queue'[u] = queue[u]
    BY <1>2 DEF ThreadStep, Wait, Take, TakeNothing, SetRunning, EntryWrites, Finish
  <2>3. pc'[tt] = "wait" => queue'[tt] = << >>
    BY <1>2 DEF ThreadStep, Wait, Take, TakeNothing, SetRunning, EntryWrites, Finish
  <2> QED
    BY <2>1, <2>2, <2>3, Zenon
<1>3. CASE Signal
  BY <1>3 DEF Signal
<1>4. ASSUME NEW t \in Tasks, LoopStep(t) PROVE NoLostWakeup'
  BY <1>4, Zenon DEF LoopStep, HandleData, HandleFinished, PageHandler
<1>5. CASE UNCHANGED tasksVars
  BY <1>5 DEF tasksVars
<1> QED
  BY <1>1, <1>2, <1>3, <1>4, <1>5, Zenon DEF TasksNext, Live

\* The inductive invariant holds: PoolAgrees and OnePlace need each other (a
\* task that ends must be in no second place), NoLostWakeup only its type.
LEMMA PoolCorrect == TasksSpec => [](TasksTypeOK /\ TaskInv)
<1>1. TasksInit => TasksTypeOK /\ TaskInv
  <2> SUFFICES ASSUME TasksInit PROVE TasksTypeOK /\ TaskInv
    OBVIOUS
  <2>1. TasksTypeOK
    BY TasksAssumption DEF TasksInit, TasksTypeOK
  <2>2. \A tt \in Threads : Range(queue[tt]) = {} /\ IsInjective(queue[tt])
    BY DEF TasksInit, Range, IsInjective
  <2>3. \A tt \in Threads : Held(tt) = {}
    BY <2>2 DEF TasksInit, Held
  <2>4. OnePlace
    BY <2>2, <2>3 DEF OnePlace
  <2>5. PoolAgrees /\ NoLostWakeup
    BY <2>3 DEF TasksInit, PoolAgrees, NoLostWakeup
  <2> QED
    BY <2>1, <2>4, <2>5 DEF TaskInv
<1>2. TasksTypeOK /\ TaskInv /\ [TasksNext]_tasksVars => (TasksTypeOK /\ TaskInv)'
  BY TasksTypeInductive, PoolInductive, WakeupInductive DEF TaskInv
<1> QED
  BY <1>1, <1>2, PTL DEF TasksSpec

\* Every variable of the pool keeps its type.
THEOREM TasksTypeCorrect == TasksSpec => []TasksTypeOK
BY PoolCorrect, PTL

\* A thread never sleeps on a queue that holds a task unless its signal is on
\* the way, although kore_task_run signals after it unlocks.
THEOREM WakeupKept == TasksSpec => []NoLostWakeup
<1>1. TaskInv => NoLostWakeup
  BY DEF TaskInv
<1> QED
  BY <1>1, PoolCorrect, PTL

\* No task is ever in two queues, twice in one, or taken by two threads.
THEOREM RunsOnce == TasksSpec => []OnePlace
<1>1. TaskInv => OnePlace
  BY DEF TaskInv
<1> QED
  BY <1>1, PoolCorrect, PTL

\* When kore_task_finished says so, no thread will touch the task again.
THEOREM FreedWhenIdle == TasksSpec => []FinishedIsIdle
<1>1. TasksTypeOK /\ TaskInv => FinishedIsIdle
  BY HeldTasks DEF TaskInv, PoolAgrees, FinishedIsIdle
<1> QED
  BY <1>1, PoolCorrect, PTL
=============================================================================
