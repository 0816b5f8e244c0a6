---------------------------- MODULE MCServices -----------------------------
(***************************************************************************)
(* What a worker's event loop serves, for model checking in one run:       *)
(* thirteen parts that do not touch each other's state.  turn says which   *)
(* part a behaviour is about.  Nine of the parts are extended; the other   *)
(* four are instances that use the same variables, under the names that    *)
(* their modules give them.                                                *)
(***************************************************************************)
EXTENDS Messages, KeyExchange, Fileref, Backends, PythonLoop, TLC

VARIABLES turn, v1, v2, v3, v4, v5, v6, v7, v8, v9, v10, v11, v12, v13, v14

part == <<v1, v2, v3, v4, v5, v6, v7, v8, v9, v10, v11, v12, v13, v14>>
all == <<turn, part, messagesVars, keysVars, filerefVars, pgsqlVars, curlVars, timersVars, enginesVars,
          pyhttpVars, pyioVars>>

\* Frames of every kind: each form of the length, control frames, fragments,
\* frames without a mask and with an opcode that is not known.
Frame(code, bits, len) == [op |-> code, bits |-> bits, len |-> len, fin |-> "fin", head |-> "masked"]
Frames ==
    {Frame("text", 0, 0), Frame("text", 125, 125), Frame("text", 126, 126), Frame("text", 126, 131),
     Frame("text", 126, 3), Frame("text", 127, 130), Frame("ping", 2, 2), Frame("pong", 0, 0),
     Frame("close", 0, 0), Frame("cont", 1, 1), Frame("other", 1, 1), Frame("ping", 126, 126),
     [Frame("text", 1, 1) EXCEPT !.head = "bare"], [Frame("ping", 1, 1) EXCEPT !.fin = "more"]}

\* realpath gives each name its own file.
MCReal == [n \in Names |-> n]

N == INSTANCE NetSend WITH
         Modes <- {"tls", "plain"}, PAYLOAD_MAX <- 2, SENDFILE_MAX <- 2, SockBuf <- 2,
         Sizes <- {0, 1, 3}, MaxBytes <- 5, MaxBufs <- 2, mode <- v1, queue <- v2, made <- v3,
         next <- v4, evw <- v5, pc <- v6, state <- v7, closing <- v8, sock <- v9, edge <- v10,
         pend <- v11, wire <- v12, given <- v13, released <- v14

W == INSTANCE WebSocket WITH
         Frames <- Frames, MAXFRAME <- 130, KEEP <- 133, MaxFrames <- 2, MaxOut <- 1,
         phase <- v1, stream <- v2, taken <- v3, off <- v4, blen <- v5, mlen <- v6, cb <- v7,
         evr <- v8, edge <- v9, closeSent <- v10, out <- v11, messages <- v12

S == INSTANCE Sandbox WITH
         Procs <- {"p1", "p2"}, Callers <- {"c1", "c2"}, Home <- "c1" :> "p1" @@ "c2" :> "p2",
         SandboxMax <- 2, Ids <- {"i1", "i2"}, Pids <- {"h1", "h2"}, Recycles <- 0, NumFds <- 3,
         MaxCrashes <- 1, MaxFaults <- 1, MaxStops <- 2, MaxOthers <- 1, table <- v1, fds <- v2,
         db <- v3, host <- v4, spent <- v5, up <- v6, server <- v7, pc <- v8, arg <- v9,
         fresh <- v10, own <- v11, lost <- v12, budget <- v13

Y == INSTANCE Coroutines WITH
         Coros <- 1 .. 5, Bound <- {2}, Members <- {4, 5}, Limits <- {0, 1}, MaxOps <- 5,
         MaxKills <- 1, Barging <- "yes", state <- v1, runnable <- v2, awake <- v3,
         running <- v4, await <- v5, owner <- v6, held <- v7, ops <- v8, objects <- v9,
         waiting <- v10, gather <- v11, done <- v12, kills <- v13

-----------------------------------------------------------------------------
ServicesInit ==
    /\ MessagesInit /\ KeysInit /\ FilerefInit /\ PgsqlInit /\ CurlInit /\ TimersInit
    /\ EnginesInit /\ PyHttpInit /\ PyIOInit
    /\ \/ /\ turn \in {"messages", "keys", "fileref", "pgsql", "curl", "timers", "engines",
                      "pyhttp", "pyio"}
          /\ v1 = 0 /\ v2 = 0 /\ v3 = 0 /\ v4 = 0 /\ v5 = 0 /\ v6 = 0 /\ v7 = 0 /\ v8 = 0
          /\ v9 = 0 /\ v10 = 0 /\ v11 = 0 /\ v12 = 0 /\ v13 = 0 /\ v14 = 0
       \/ /\ turn = "net" /\ N!Init
       \/ /\ turn = "websocket" /\ W!Init
          /\ v13 = 0 /\ v14 = 0
       \/ /\ turn = "sandbox" /\ S!Init
          /\ v14 = 0
       \/ /\ turn = "coroutines" /\ Y!Init
          /\ v14 = 0
    /\ turn # "messages" => msg0["w1"] = 1
    /\ turn # "pyio" => mode = "plain"
    /\ turn # "keys" => size = [w \in Askers |-> "rsa2048"]

ServicesNext ==
    /\ UNCHANGED turn
    /\ \/ /\ turn = "messages" /\ MessagesNext
          /\ UNCHANGED <<part, keysVars, filerefVars, pgsqlVars, curlVars, timersVars,
                        enginesVars, pyhttpVars, pyioVars>>
       \/ /\ turn = "keys" /\ KeysNext
          /\ UNCHANGED <<part, messagesVars, filerefVars, pgsqlVars, curlVars, timersVars,
                        enginesVars, pyhttpVars, pyioVars>>
       \/ /\ turn = "fileref" /\ FilerefNext
          /\ UNCHANGED <<part, messagesVars, keysVars, pgsqlVars, curlVars, timersVars,
                        enginesVars, pyhttpVars, pyioVars>>
       \/ /\ turn = "pgsql" /\ PgsqlNext
          /\ UNCHANGED <<part, messagesVars, keysVars, filerefVars, curlVars, timersVars,
                        enginesVars, pyhttpVars, pyioVars>>
       \/ /\ turn = "curl" /\ CurlNext
          /\ UNCHANGED <<part, messagesVars, keysVars, filerefVars, pgsqlVars, timersVars,
                        enginesVars, pyhttpVars, pyioVars>>
       \/ /\ turn = "timers" /\ TimersNext
          /\ UNCHANGED <<part, messagesVars, keysVars, filerefVars, pgsqlVars, curlVars,
                        enginesVars, pyhttpVars, pyioVars>>
       \/ /\ turn = "engines" /\ EnginesNext
          /\ UNCHANGED <<part, messagesVars, keysVars, filerefVars, pgsqlVars, curlVars,
                        timersVars, pyhttpVars, pyioVars>>
       \/ /\ turn = "pyhttp" /\ PyHttpNext
          /\ UNCHANGED <<part, messagesVars, keysVars, filerefVars, pgsqlVars, curlVars,
                        timersVars, enginesVars, pyioVars>>
       \/ /\ turn = "pyio" /\ PyIONext
          /\ UNCHANGED <<part, messagesVars, keysVars, filerefVars, pgsqlVars, curlVars,
                        timersVars, enginesVars, pyhttpVars>>
       \/ /\ UNCHANGED <<messagesVars, keysVars, filerefVars, pgsqlVars, curlVars, timersVars,
                        enginesVars, pyhttpVars, pyioVars>>
          /\ \/ turn = "net" /\ N!Next
             \/ turn = "websocket" /\ W!Next /\ UNCHANGED <<v13, v14>>
             \/ turn = "sandbox" /\ S!Next /\ UNCHANGED <<v14>>
             \/ turn = "coroutines" /\ Y!Next /\ UNCHANGED <<v14>>

ServicesSpec == ServicesInit /\ [][ServicesNext]_all
-----------------------------------------------------------------------------
\* The type invariants of the modules.
TypesOK ==
    /\ turn = "messages" => MessagesTypeOK
    /\ turn = "keys" => KeysTypeOK
    /\ turn = "fileref" => FilerefTypeOK
    /\ turn = "pgsql" => PgsqlTypeOK
    /\ turn = "curl" => CurlTypeOK
    /\ turn = "timers" => TimersTypeOK
    /\ turn = "engines" => EnginesTypeOK
    /\ turn = "pyhttp" => PyHttpTypeOK
    /\ turn = "pyio" => PyIOTypeOK
    /\ turn = "net" => N!TypeOK
    /\ turn = "websocket" => W!TypeOK
    /\ turn = "sandbox" => S!TypeOK
    /\ turn = "coroutines" => Y!TypeOK

\* NetSend: whatever way the pieces were packed into buffers and the writes
\* cut them up, the bytes leave in order and none twice; a TLS record that was
\* begun is repeated as it was; the memory of a buffer is given back once.
\* WebSocket: however the bytes arrive, net_recv_flush stays in step with the
\* frames, a message is given to the application whole and once, and nothing
\* follows the close frame of this side.
StreamsKept ==
    /\ turn = "net" => N!StreamIntact /\ N!RepeatedAsItWas /\ N!GivenBackOnce
    /\ turn = "websocket" => W!InStep /\ W!MessagesWhole /\ W!CloseIsLast

\* Fileref: the count of a reference is the number of responses that hold it,
\* one that nobody holds expires, and each open descriptor has one reference.
RefsCounted == HeldRefsCounted /\ WillExpire /\ DescriptorsOwned

\* Sandbox: the tables of the workers and the database name the holder
\* processes that run, exec enters the sandbox it was asked for, and nothing
\* but a holder is killed.
HoldersKnown ==
    turn = "sandbox" => S!TableSound /\ S!ExecInside /\ S!HolderRecorded /\ S!KillsHolder

\* Coroutines: a coroutine that sleeps has somebody who will wake it: the lock
\* or the gathering it waits for.
SleepersWoken == turn = "coroutines" => Y!ListsAgree /\ Y!LockWaiterWoken /\ Y!GatherSound
=============================================================================
