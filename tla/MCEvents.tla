------------------------------ MODULE MCEvents ------------------------------
(***************************************************************************)
(* What must eventually happen: the task pool, and five parts that do not  *)
(* touch each other's state, for model checking in one run.  turn says     *)
(* which part a behaviour is about; only its variables move.  The parts    *)
(* other than the task pool are instances that use the same variables, v1  *)
(* to v17, under the names their modules give them.                        *)
(***************************************************************************)
EXTENDS Tasks

VARIABLES turn, v1, v2, v3, v4, v5, v6, v7, v8, v9, v10, v11, v12, v13, v14, v15, v16, v17

pool == tasksVars
part == <<v1, v2, v3, v4, v5, v6, v7, v8, v9, v10, v11, v12, v13, v14, v15, v16, v17>>
all == <<pool, turn, part>>

M == INSTANCE Messages WITH
         Workers <- {"w1", "w2"}, PoolSize <- 3, MaxSends <- 2, MaxRestarts <- 1,
         freelist <- v1, owner <- v2, msg0 <- v3, conncache <- v4, up <- v5, down <- v6,
         alive <- v7, log <- v8, sent <- v9, restarts <- v10

N == INSTANCE NetSend WITH
         Modes <- {"tls", "plain"}, PAYLOAD_MAX <- 2, SENDFILE_MAX <- 2, SockBuf <- 2,
         Sizes <- {1, 3}, MaxBytes <- 4, MaxBufs <- 2, mode <- v1, queue <- v2, made <- v3,
         next <- v4, evw <- v5, pc <- v6, state <- v7, closing <- v8, sock <- v9, edge <- v10,
         pend <- v11, wire <- v12, given <- v13, released <- v14

P == INSTANCE Pgsql WITH
         Queries <- {"q1", "q2", "q3"}, Conns <- {"c1"}, QueueLimit <- 2, MaxLost <- 0,
         MaxGone <- 0, MaxFails <- 2, conn <- v1, tx <- v2, free <- v3, queue <- v4, sql <- v5,
         req <- v6, lost <- v7, gone <- v8, fails <- v9

L == INSTANCE Lifecycle WITH
         Workers <- {1, 2}, Keymgr <- 2, Timer <- "yes", Children <- "no",
         Policies <- {"restart"}, MaxDeaths <- 1, MaxSignals <- 1, policy <- v1, parent <- v2,
         kore_quit <- v3, sig_recv <- v4, last_sig <- v5, proc <- v6, running <- v7, pid <- v8,
         ready <- v9, spawning <- v10, module <- v11, deaths <- v12, sent <- v13

A == INSTANCE Acme WITH
         Auths <- {1}, Lates <- {"no"}, FaultsAt <- {"request"}, MaxFaults <- 1, MaxOrders <- 2,
         MaxDue <- 1, MaxReloads <- 0, MaxOps <- 2, late <- v1, acmeproc_ready <- v2, due <- v3,
         redo <- v4, cert <- v5, challenge <- v6, toKeymgr <- v7, toAcme <- v8, directory <- v9,
         account <- v10, order <- v11, signops <- v12, ca <- v13, made <- v14, faults <- v15,
         reloads <- v16, dropped <- v17

-----------------------------------------------------------------------------
\* A step of each part.
TasksStep(S) == turn = "tasks" /\ S /\ UNCHANGED <<turn, part>>
MessagesStep(S) ==
    turn = "messages" /\ S
    /\ UNCHANGED <<pool, turn, v11, v12, v13, v14, v15, v16, v17>>
NetSendStep(S) == turn = "net" /\ S /\ UNCHANGED <<pool, turn, v15, v16, v17>>
PgsqlStep(S) ==
    turn = "pgsql" /\ S
    /\ UNCHANGED <<pool, turn, v10, v11, v12, v13, v14, v15, v16, v17>>
LifecycleStep(S) == turn = "lifecycle" /\ S /\ UNCHANGED <<pool, turn, v14, v15, v16, v17>>
AcmeStep(S) == turn = "acme" /\ S /\ UNCHANGED <<pool, turn>>

EventsInit ==
    /\ TasksInit
    /\ \/ /\ turn = "tasks"
          /\ v1 = 0 /\ v2 = 0 /\ v3 = 0 /\ v4 = 0 /\ v5 = 0 /\ v6 = 0 /\ v7 = 0 /\ v8 = 0
          /\ v9 = 0 /\ v10 = 0 /\ v11 = 0 /\ v12 = 0 /\ v13 = 0 /\ v14 = 0 /\ v15 = 0 /\ v16 = 0
          /\ v17 = 0
       \/ /\ turn = "messages" /\ M!MessagesInit
          /\ v11 = 0 /\ v12 = 0 /\ v13 = 0 /\ v14 = 0 /\ v15 = 0 /\ v16 = 0 /\ v17 = 0
       \/ /\ turn = "net" /\ N!Init
          /\ v15 = 0 /\ v16 = 0 /\ v17 = 0
       \/ /\ turn = "pgsql" /\ P!PgsqlInit
          /\ v10 = 0 /\ v11 = 0 /\ v12 = 0 /\ v13 = 0 /\ v14 = 0 /\ v15 = 0 /\ v16 = 0 /\ v17 = 0
       \/ /\ turn = "lifecycle" /\ L!Init
          /\ v14 = 0 /\ v15 = 0 /\ v16 = 0 /\ v17 = 0
       \/ /\ turn = "acme" /\ A!Init

EventsNext ==
    \/ TasksStep(TasksNext)
    \/ MessagesStep(M!MessagesNext)
    \/ NetSendStep(N!Next)
    \/ PgsqlStep(P!PgsqlNext)
    \/ LifecycleStep(L!Next)
    \/ AcmeStep(A!Next)

\* The fairness that each module states, of the part whose turn it is.
EventsFair ==
    /\ \A tt \in Threads : WF_all(TasksStep(dead = 0 /\ ThreadStep(tt)))
    /\ WF_all(TasksStep(dead = 0 /\ Signal))
    /\ \A t \in Tasks : WF_all(TasksStep(dead = 0 /\ LoopStep(t)))
    /\ \A w \in {"w1", "w2"} : /\ WF_all(MessagesStep(M!Relay(w)))
                               /\ WF_all(MessagesStep(M!Receive(w)))
                               /\ WF_all(MessagesStep(M!Restart(w)))
    /\ WF_all(NetSendStep(N!BeginFlush /\ UNCHANGED v1))
    /\ WF_all(NetSendStep(N!net_send /\ UNCHANGED v1))
    /\ WF_all(NetSendStep(N!net_send_flush /\ UNCHANGED v1))
    /\ WF_all(NetSendStep(N!Writable /\ UNCHANGED v1))
    /\ WF_all(NetSendStep(N!kore_connection_remove /\ UNCHANGED v1))
    /\ WF_all(NetSendStep(N!PeerReads /\ UNCHANGED v1))
    /\ \A q \in {"q1", "q2", "q3"} : /\ WF_all(PgsqlStep(v6[q] = "awake" /\ P!Handler(q)))
                                     /\ WF_all(PgsqlStep(P!Reap(q)))
                                     /\ WF_all(PgsqlStep(P!kore_pgsql_handle(q)))
                                     /\ WF_all(PgsqlStep(P!Finishes(q)))
    /\ WF_all(LifecycleStep(L!ParentSteps))
    /\ WF_all(LifecycleStep(L!SpawnDone \/ L!NotReady))
    /\ \A w \in {1, 2} : /\ WF_all(LifecycleStep(L!kore_signal_setup(w) \/ L!kore_worker_started(w)))
                         /\ WF_all(LifecycleStep(L!WorkerWaits(w) \/ L!WorkerSignal(w)))
    /\ WF_all(AcmeStep((A!Acme \/ A!KeymgrStep) /\ UNCHANGED v1))
    /\ WF_all(AcmeStep(A!keymgr_acme_renewal /\ UNCHANGED v1))
    /\ WF_all(AcmeStep(A!Provider /\ UNCHANGED v1))
    /\ SF_all(\/ AcmeStep((\E m \in A!Orders : A!Tick(m)) /\ UNCHANGED v1)
              \/ PgsqlStep(\E q \in {"q1", "q2", "q3"} : P!Continues(q) /\ v5'[q].state = "DONE"))
    /\ SF_all(AcmeStep((\E m \in A!Orders : A!TimedOut(m)) /\ UNCHANGED v1))

EventsSpec == EventsInit /\ [][EventsNext]_all /\ EventsFair
-----------------------------------------------------------------------------
\* Messages: a message sent to a worker that runs reaches it, and only it,
\* unless it crashes.  (The workers are interchangeable, as are the queries
\* and, but for the keymgr, the workers of Lifecycle: one stands for all.)
Delivered == \A n \in 1 .. 2 :
    (turn = "messages" /\ M!OnItsWay("w1", n)) ~> (turn = "messages" /\ M!Arrived("w1", n))

\* NetSend: what was queued is sent, or the connection ends: no edge of the
\* edge-triggered events is lost between net_send_flush and epoll.
QueueDrains == (turn = "net" /\ v2 # << >>) ~> (turn = "net" /\ v2 = << >>)

\* Pgsql: a request that waits for a connection gets out of the queue.
WaiterProceeds ==
    (turn = "pgsql" /\ P!Queued("q1")) ~> (turn = "pgsql" /\ ~ P!Queued("q1"))

\* Lifecycle: with worker_death_policy restart a worker that dies is replaced,
\* unless the parent quits.
DeadReplaced ==
    (turn = "lifecycle" /\ v6[1] = "died") ~> (turn = "lifecycle" /\ L!Replaced(1))

\* Acme: the keymgr gets a certificate for a domain that has none, as long as
\* the provider answers all but a few requests.
CertificateArrives == turn = "acme" => <>(turn = "acme" /\ A!Settled)
=============================================================================
