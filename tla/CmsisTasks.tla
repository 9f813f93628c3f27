----------------------------- MODULE CmsisTasks -----------------------------
(***************************************************************************)
(* TelOsTaskCreate of tel_os_adapter_cmsis.cpp.  The kernel gives a new    *)
(* task only the index of a slot; the task reads its entry there, frees    *)
(* the slot and runs.  Creating tasks and starting ones interleave freely. *)
(***************************************************************************)
EXTENDS Naturals, FiniteSets

CONSTANTS Creators, \* the tasks that create tasks, each of one entry
          NSlots,   \* CMSIS_MAX_TASKS
          NTasks,   \* bound: kernel tasks over the whole run
          None

Slots == 1..NSlots
Tasks == 1..NTasks

VARIABLES used,    \* TaskSlot::state
          entry,   \* TaskSlot::entry
          creator, \* where each creator is, and in which slot
          task,    \* the kernel tasks
          count    \* g_taskCount

vars == <<used, entry, creator, task, count>>

NoTask == [pc |-> "none", slot |-> 0, asked |-> None, entry |-> None]
Entries == Creators \cup {None}

TypeOK ==
    /\ used \in [Slots -> BOOLEAN]
    /\ entry \in [Slots -> Entries]
    /\ creator \in [Creators -> [pc : {"idle", "claim", "fill", "create"}, slot : 0..NSlots]]
    /\ task \in [Tasks -> [pc : {"none", "start", "read", "run", "leave", "gone"}, slot : 0..NSlots,
                           asked : Entries, entry : Entries]]
    /\ count \in 0..(NTasks + Cardinality(Creators))

Init ==
    /\ used = [s \in Slots |-> FALSE]
    /\ entry = [s \in Slots |-> None]
    /\ creator = [c \in Creators |-> [pc |-> "idle", slot |-> 0]]
    /\ task = [t \in Tasks |-> NoTask]
    /\ count = 0

Goto(c, pc, s) == creator' = [creator EXCEPT ![c] = [pc |-> pc, slot |-> s]]

(* ClaimSlot tries slot after slot.                                        *)
Create(c) ==
    /\ creator[c].pc = "idle"
    /\ Goto(c, "claim", 1)
    /\ UNCHANGED <<used, entry, task, count>>

Claim(c) ==
    /\ creator[c].pc = "claim"
    /\ LET s == creator[c].slot IN
        IF ~used[s]
        THEN used' = [used EXCEPT ![s] = TRUE] /\ Goto(c, "fill", s)
        ELSE used' = used /\ (IF s < NSlots THEN Goto(c, "claim", s + 1) ELSE Goto(c, "idle", 0))
    /\ UNCHANGED <<entry, task, count>>

(* The slot is filled and the task counted before the kernel makes it.     *)
Fill(c) ==
    /\ creator[c].pc = "fill"
    /\ entry' = [entry EXCEPT ![creator[c].slot] = c]
    /\ count' = count + 1
    /\ Goto(c, "create", creator[c].slot)
    /\ UNCHANGED <<used, task>>

KernelCreate(c) ==
    /\ creator[c].pc = "create"
    /\ \E t \in Tasks :
        /\ task[t] = NoTask
        /\ \A u \in Tasks : task[u] = NoTask => t <= u
        /\ task' = [task EXCEPT ![t] = [pc |-> "start", slot |-> creator[c].slot, asked |-> c, entry |-> None]]
    /\ Goto(c, "idle", 0)
    /\ UNCHANGED <<used, entry, count>>

KernelFails(c) ==
    /\ creator[c].pc = "create"
    /\ count' = count - 1
    /\ used' = [used EXCEPT ![creator[c].slot] = FALSE]
    /\ Goto(c, "idle", 0)
    /\ UNCHANGED <<entry, task>>

(* TaskTrampoline. *)
At(t, pc) == task[t].pc = pc
Step(t, pc) == task' = [task EXCEPT ![t].pc = pc]

ReadEntry(t) ==
    /\ At(t, "start")
    /\ task' = [task EXCEPT ![t].pc = "read", ![t].entry = entry[task[t].slot]]
    /\ UNCHANGED <<used, entry, creator, count>>

FreeSlotMutant(t) ==
    /\ \/ At(t, "start") /\ used[task[t].slot] /\ task' = task
       \/ At(t, "read") /\ Step(t, "run")
    /\ used' = [used EXCEPT ![task[t].slot] = FALSE]
    /\ UNCHANGED <<entry, creator, count>>
FreeSlot(t) ==
    /\ At(t, "read")
    /\ used' = [used EXCEPT ![task[t].slot] = FALSE]
    /\ Step(t, "run")
    /\ UNCHANGED <<entry, creator, count>>

EntryReturns(t) ==
    /\ At(t, "run")
    /\ Step(t, "leave")
    /\ UNCHANGED <<used, entry, creator, count>>

Leave(t) ==
    /\ At(t, "leave")
    /\ Step(t, "gone")
    /\ count' = count - 1
    /\ UNCHANGED <<used, entry, creator>>

Next ==
    \/ \E c \in Creators :
        Create(c) \/ Claim(c) \/ Fill(c) \/ KernelCreate(c) \/ KernelFails(c)
    \/ \E t \in Tasks : ReadEntry(t) \/ FreeSlot(t) \/ EntryReturns(t) \/ Leave(t)

Spec == Init /\ [][Next]_vars

-----------------------------------------------------------------------------
(* Every task runs the entry it was created with, although slots are       *)
(* handed on as soon as it has been read.                                  *)
RunsOwnEntry == \A t \in Tasks : task[t].pc \in {"run", "leave"} => task[t].entry = task[t].asked

(* Tasks count until their entry returns, and while one is being made:     *)
(* TelOsGetObjectCount never shows fewer than run, nor more when no call   *)
(* is in progress.                                                         *)
Live == {t \in Tasks : task[t].pc \in {"start", "read", "run", "leave"}}
InCreation == {c \in Creators : creator[c].pc = "create"}
CountsTheLiving == count = Cardinality(Live) + Cardinality(InCreation)

(* A slot is in use exactly while it is being filled or a task has yet to  *)
(* read it: none is lost, none is shared.                                  *)
SlotUsers(s) ==
    {c \in Creators : creator[c].pc \in {"fill", "create"} /\ creator[c].slot = s}
        \cup {t \in Tasks : task[t].pc \in {"start", "read"} /\ task[t].slot = s}
SlotsAreAccountedFor ==
    \A s \in Slots : Cardinality(SlotUsers(s)) = IF used[s] THEN 1 ELSE 0
=============================================================================
