------------------------------ MODULE Engines -------------------------------
(***************************************************************************)
(* The browser engine and the agent engine (src/browser.c, src/agent.c):   *)
(* two tables of slots, each behind a mutex that browser_launch and        *)
(* agent_task_create release between the choice of a slot and its use, and *)
(* the Chromium processes of the first.  browser_navigate,                 *)
(* browser_screenshot and agent_task_status only look at the slot.         *)
(***************************************************************************)
EXTENDS Integers

CONSTANTS
    Callers,    \* threads that use the engines
    Slots,      \* BROWSER_MAX and AGENT_MAX_TASKS, as 1 .. n
    MaxIds      \* bound: browsers launched and tasks created

ASSUME EngineBounds == MaxIds \in Nat

VARIABLES
    table,      \* s_browsers and s_tasks: [Kinds -> [Slots -> identifier, 0 for free]]
    call,       \* [Callers -> where a thread is, its table, slot and identifier]
    chromium,   \* Chromium processes that run
    exited,     \* Chromium processes that ended and were not waited for
    ids,        \* identifiers given out; a browser's stands for its pid too
    overlap     \* history: slots chosen by a thread while another had chosen them

enginesVars == <<table, call, chromium, exited, ids, overlap>>
Kinds == {"browser", "agent"}
Idle == [at |-> "idle", kind |-> "browser", slot |-> 0, id |-> 0]

EnginesTypeOK ==
    /\ table \in [Kinds -> [Slots -> 0 .. ids]]
    /\ call \in [Callers -> [at : {"idle", "chosen", "started", "holds", "waited"},
                             kind : Kinds, slot : Slots \cup {0}, id : 0 .. ids]]
    /\ chromium \subseteq 1 .. ids /\ exited \subseteq 1 .. ids /\ ids \in 0 .. MaxIds
    /\ overlap \subseteq Kinds \X Slots

\* browser_module_init and agent_module_init.
EnginesInit ==
    /\ table = [k \in Kinds |-> [s \in Slots |-> 0]] /\ call = [c \in Callers |-> Idle]
    /\ chromium = {} /\ exited = {} /\ ids = 0 /\ overlap = {}

Free(k, s) == table[k][s] = 0 /\ \A t \in Slots : table[k][t] = 0 => s <= t
Choosing(k, s) ==
    {c \in Callers : call[c].at \in {"chosen", "started"} /\ call[c].kind = k /\ call[c].slot = s}

\* browser_launch and agent_task_create, under the mutex: the first free slot.
\* A full table gives NULL.
Choose(c, k) ==
    \E s \in Slots :
        /\ call[c].at = "idle" /\ Free(k, s) /\ ids < MaxIds
        /\ call' = [call EXCEPT ![c] = [at |-> "chosen", kind |-> k, slot |-> s, id |-> 0]]
        /\ overlap' = IF Choosing(k, s) = {} THEN overlap ELSE overlap \cup {<<k, s>>}
        /\ UNCHANGED <<table, chromium, exited, ids>>

\* The mutex is free again: gen_uuid, and for a browser fork and execvp.  A
\* child that finds neither program exits.
Start(c) ==
    /\ call[c].at = "chosen" /\ ids < MaxIds /\ ids' = ids + 1
    /\ call' = [call EXCEPT ![c].at = "started", ![c].id = ids + 1]
    /\ \/ call[c].kind = "agent" /\ UNCHANGED <<chromium, exited>>
       \/ call[c].kind = "browser" /\ chromium' = chromium \cup {ids + 1} /\ UNCHANGED exited
       \/ call[c].kind = "browser" /\ exited' = exited \cup {ids + 1} /\ UNCHANGED chromium
    /\ UNCHANGED <<table, overlap>>

\* fork fails: NULL.
ForkFails(c) ==
    /\ call[c].at = "chosen" /\ call[c].kind = "browser"
    /\ call' = [call EXCEPT ![c] = Idle]
    /\ UNCHANGED <<table, chromium, exited, ids, overlap>>

\* Under the mutex again: the slot is filled, and its address returned.
Store(c) ==
    /\ call[c].at = "started"
    /\ table' = [table EXCEPT ![call[c].kind][call[c].slot] = call[c].id]
    /\ call' = [call EXCEPT ![c].at = "holds"]
    /\ UNCHANGED <<chromium, exited, ids, overlap>>

\* browser_close up to waitpid, without the mutex: the process that the slot
\* names at this moment.  A slot that is free gives -1.
CloseWaits(c) ==
    /\ call[c].at = "holds" /\ call[c].kind = "browser"
    /\ LET p == table["browser"][call[c].slot]
       IN IF p = 0 THEN call' = [call EXCEPT ![c] = Idle] /\ UNCHANGED <<chromium, exited>>
                   ELSE /\ call' = [call EXCEPT ![c].at = "waited"]
                        /\ chromium' = chromium \ {p} /\ exited' = exited \ {p}
    /\ UNCHANGED <<table, ids, overlap>>

\* The rest of browser_close: the slot is free.
CloseFrees(c) ==
    /\ call[c].at = "waited"
    /\ table' = [table EXCEPT !["browser"][call[c].slot] = 0] /\ call' = [call EXCEPT ![c] = Idle]
    /\ UNCHANGED <<chromium, exited, ids, overlap>>

\* agent_task_cancel; a slot that is free gives -1 and stays so.
agent_task_cancel(c) ==
    /\ call[c].at = "holds" /\ call[c].kind = "agent"
    /\ table' = [table EXCEPT !["agent"][call[c].slot] = 0] /\ call' = [call EXCEPT ![c] = Idle]
    /\ UNCHANGED <<chromium, exited, ids, overlap>>

\* Chromium ends by itself.
Exits(p) ==
    /\ p \in chromium /\ chromium' = chromium \ {p} /\ exited' = exited \cup {p}
    /\ UNCHANGED <<table, call, ids, overlap>>

EnginesNext ==
    \/ \E c \in Callers :
          \/ \E k \in Kinds : Choose(c, k)
          \/ Start(c) \/ ForkFails(c) \/ Store(c) \/ CloseWaits(c) \/ CloseFrees(c)
          \/ agent_task_cancel(c)
    \/ \E p \in chromium : Exits(p)

EnginesSpec == EnginesInit /\ [][EnginesNext]_enginesVars
-----------------------------------------------------------------------------
\* A thread that launched a browser or created a task finds it in its slot
\* until it closes it, and every Chromium process that was not waited for is
\* in a slot or with the launch that started it; except in a slot that two
\* launches chose at once, which the released mutex allows.
SlotsNamed ==
    /\ \A c \in Callers :
          call[c].at \in {"holds", "waited"} /\ <<call[c].kind, call[c].slot>> \notin overlap
             => table[call[c].kind][call[c].slot] = call[c].id
    /\ (\A s \in Slots : <<"browser", s>> \notin overlap) =>
          \A p \in chromium \cup exited :
             \/ \E c \in Callers : call[c].at = "started" /\ call[c].id = p
             \/ \E s \in Slots : table["browser"][s] = p /\ \A t \in Slots \ {s} : table["browser"][t] # p
=============================================================================
