----------------------------- MODULE CmsisTimers -----------------------------
(***************************************************************************)
(* The timers of tel_os_adapter_cmsis.cpp: the kernel calls back with the  *)
(* index of a slot, so a slot must not change hands while a callback of    *)
(* its last owner may still come.  The kernel is external: an expired      *)
(* one-shot timer is queued for the timer task, which has the highest      *)
(* priority; other tasks run only while its queue is empty or the callback *)
(* it is in waits for a lock.                                              *)
(***************************************************************************)
EXTENDS Integers, Sequences, FiniteSets

CONSTANTS Slots,     \* g_timerSlots
          Tasks,     \* the tasks that call the adapter
          TimerTask, \* the kernel's timer task, whose callbacks call it too
          MaxQueue,  \* bound: expiries waiting for the timer task
          None

Callers == Tasks \cup {TimerTask}

VARIABLES used,       \* TimerSlot::state
          inCallback, \* TimerSlot::inCallback
          callback,   \* TimerSlot::callback: is it set
          kernel,     \* the kernel timer of TimerSlot::id
          queue,      \* slots whose expiry waits for the timer task
          running,    \* the slot whose callback the timer task runs
          call,       \* what each caller is in the middle of
          count,      \* g_timerCount
          answer      \* the last answer given

vars == <<used, inCallback, callback, kernel, queue, running, call, count, answer>>
slotVars == <<used, inCallback, callback>>
kernelVars == <<kernel, queue, running>>

Idle == [op |-> "none", slot |-> None]
Ops == {"none", "filling", "counting", "spin", "clear", "release"}

TypeOK ==
    /\ used \in [Slots -> BOOLEAN]
    /\ inCallback \in [Slots -> 0..1]
    /\ callback \in [Slots -> BOOLEAN]
    /\ kernel \in [Slots -> {"none", "stopped", "ticking"}]
    /\ queue \in Seq(Slots)
    /\ running \in Slots \cup {None}
    /\ call \in [Callers -> [op : Ops, slot : Slots \cup {None}]]
    /\ count \in 0..Cardinality(Slots)
    /\ answer \in [timer : Slots \cup {None}, result : {"OK", "FAIL", "INVALID_PARAM", "NO_RESOURCE"}]

Init ==
    /\ used = [s \in Slots |-> FALSE]
    /\ inCallback = [s \in Slots |-> 0]
    /\ callback = [s \in Slots |-> FALSE]
    /\ kernel = [s \in Slots |-> "none"]
    /\ queue = <<>>
    /\ running = None
    /\ call = [c \in Callers |-> Idle]
    /\ count = 0
    /\ answer = [timer |-> None, result |-> "OK"]

Answer(s, r) == answer' = [timer |-> s, result |-> r]

(* Who may run: the callback, or a task while the timer task does not.     *)
MayRun(c) == IF c = TimerTask THEN running # None ELSE running # None \/ queue = <<>>
Free(c) == MayRun(c) /\ call[c] = Idle
Goto(c, op, s) == call' = [call EXCEPT ![c] = [op |-> op, slot |-> s]]
At(c, op) == MayRun(c) /\ call[c].op = op
Usable(s) == kernel[s] # "none" /\ \A c \in Callers : call[c].slot # s

(* ClaimSlot: the first slot whose state it can exchange.                  *)
ClaimSlot(c) ==
    /\ Free(c)
    /\ \E s \in Slots :
        /\ ~used[s]
        /\ used' = [used EXCEPT ![s] = TRUE]
        /\ Goto(c, "filling", s)
    /\ UNCHANGED <<inCallback, callback, kernelVars, count, answer>>

RefuseCreate(c) ==
    /\ Free(c)
    /\ \A s \in Slots : used[s]
    /\ Answer(None, "NO_RESOURCE")
    /\ UNCHANGED <<slotVars, kernelVars, call, count>>

(* The callback is stored, then osTimerNew called.                         *)
New(c) ==
    /\ At(c, "filling")
    /\ callback' = [callback EXCEPT ![call[c].slot] = TRUE]
    /\ kernel' = [kernel EXCEPT ![call[c].slot] = "stopped"]
    /\ Goto(c, "counting", call[c].slot)
    /\ UNCHANGED <<used, inCallback, queue, running, count, answer>>

(* osTimerNew fails when the kernel's pool is empty.                       *)
NewFails(c) ==
    /\ At(c, "filling")
    /\ callback' = [callback EXCEPT ![call[c].slot] = FALSE]
    /\ used' = [used EXCEPT ![call[c].slot] = FALSE]
    /\ Answer(None, "NO_RESOURCE")
    /\ Goto(c, "none", None)
    /\ UNCHANGED <<inCallback, kernelVars, count>>

Created(c) ==
    /\ At(c, "counting")
    /\ count' = count + 1
    /\ Answer(call[c].slot, "OK")
    /\ Goto(c, "none", None)
    /\ UNCHANGED <<slotVars, kernelVars>>

(* The kernel is taken to start and to delete the timer of a slot in use:  *)
(* what TelOsTimerStart and TelOsTimerDelete return when osTimerStart or   *)
(* osTimerDelete fails is left out.                                        *)
Start(c, s) ==
    /\ Free(c) /\ Usable(s)
    /\ kernel' = [kernel EXCEPT ![s] = "ticking"]
    /\ Answer(s, "OK")
    /\ UNCHANGED <<slotVars, queue, running, call, count>>

Stop(c, s) ==
    /\ Free(c) /\ Usable(s)
    /\ Answer(s, IF kernel[s] = "ticking" THEN "OK" ELSE "FAIL")
    /\ kernel' = [kernel EXCEPT ![s] = "stopped"]
    /\ UNCHANGED <<slotVars, queue, running, call, count>>

(* TelOsTimerDelete, by a task: the kernel timer goes first, so that no    *)
(* new callback can begin; the header forbids it to the timer's callback.  *)
KernelDelete(c, s) ==
    /\ Free(c) /\ Usable(s)
    /\ ~(c = TimerTask /\ running = s)
    /\ kernel' = [kernel EXCEPT ![s] = "none"]
    /\ Goto(c, "spin", s)
    /\ UNCHANGED <<slotVars, queue, running, count, answer>>

(* It waits until no callback is executing; a callback may not wait.       *)
SpinMutant(c) ==
    /\ At(c, "spin")
    /\ Goto(c, "clear", call[c].slot)
    /\ UNCHANGED <<slotVars, kernelVars, count, answer>>
Spin(c) ==
    /\ At(c, "spin")
    /\ inCallback[call[c].slot] = 0
    /\ Goto(c, "clear", call[c].slot)
    /\ UNCHANGED <<slotVars, kernelVars, count, answer>>

Clear(c) ==
    /\ At(c, "clear")
    /\ callback' = [callback EXCEPT ![call[c].slot] = FALSE]
    /\ Goto(c, "release", call[c].slot)
    /\ UNCHANGED <<used, inCallback, kernelVars, count, answer>>

Release(c) ==
    /\ At(c, "release")
    /\ used' = [used EXCEPT ![call[c].slot] = FALSE]
    /\ count' = count - 1
    /\ Answer(call[c].slot, "OK")
    /\ Goto(c, "none", None)
    /\ UNCHANGED <<inCallback, callback, kernelVars>>

(* The kernel: a ticking timer expires once, and its call is queued.       *)
Expire(s) ==
    /\ kernel[s] = "ticking" /\ Len(queue) < MaxQueue
    /\ kernel' = [kernel EXCEPT ![s] = "stopped"]
    /\ queue' = Append(queue, s)
    /\ UNCHANGED <<slotVars, running, call, count, answer>>

(* TimerTrampoline: a slot in use that has a callback is called.           *)
Call ==
    /\ running = None /\ queue # <<>>
    /\ used[Head(queue)] /\ callback[Head(queue)]
    /\ inCallback' = [inCallback EXCEPT ![Head(queue)] = @ + 1]
    /\ running' = Head(queue)
    /\ queue' = Tail(queue)
    /\ UNCHANGED <<used, callback, kernel, call, count, answer>>

(* A slot given back meanwhile is passed over.                             *)
Skip ==
    /\ running = None /\ queue # <<>>
    /\ ~(used[Head(queue)] /\ callback[Head(queue)])
    /\ queue' = Tail(queue)
    /\ UNCHANGED <<slotVars, kernel, running, call, count, answer>>

Return ==
    /\ running # None /\ call[TimerTask] = Idle
    /\ inCallback' = [inCallback EXCEPT ![running] = @ - 1]
    /\ running' = None
    /\ UNCHANGED <<used, callback, kernel, queue, call, count, answer>>

Continue(c) == New(c) \/ NewFails(c) \/ Created(c) \/ Spin(c) \/ Clear(c) \/ Release(c)
Trampoline == Call \/ Skip \/ Return

Next ==
    \/ \E c \in Callers :
        \/ ClaimSlot(c) \/ RefuseCreate(c) \/ Continue(c)
        \/ \E s \in Slots : Start(c, s) \/ Stop(c, s) \/ KernelDelete(c, s)
    \/ \E s \in Slots : Expire(s)
    \/ Trampoline

Spec == Init /\ [][Next]_vars

(* The timer task runs its queue, callbacks return, and a task in the      *)
(* middle of a call goes on, as a priority scheduler grants once the timer *)
(* task has nothing to do.                                                 *)
Fairness ==
    /\ WF_vars(Trampoline) /\ SF_vars(Return)
    /\ \A s \in Slots : WF_vars(Expire(s))
    /\ \A c \in Callers : SF_vars(Continue(c))


-----------------------------------------------------------------------------
Creating(s) == \E c \in Callers : call[c].op \in {"filling", "counting"} /\ call[c].slot = s
Deleting(s) == \E c \in Callers : call[c].op \in {"spin", "clear", "release"} /\ call[c].slot = s

timerState ==
    [s \in Slots |->
        IF ~used[s] \/ Creating(s) THEN "none"
        ELSE IF Deleting(s) THEN "closing"
        ELSE IF kernel[s] = "ticking" THEN "pending" ELSE "idle"]

Contract == INSTANCE OsTimers WITH
    Timers <- Slots,
    state <- timerState,
    due <- [s \in Slots |-> Cardinality({i \in 1..Len(queue) : queue[i] = s})],
    running <- running,
    answer <- answer

(* The CMSIS timers implement the contract of tel_os_adapter.h for the one *)
(* timer the call manager makes: TelOsTimerDelete returns, and the slot is *)
(* handed on, only when no callback of the timer runs or can still come.   *)
(* With a second timer, an expiry may wait behind the other's callback     *)
(* until its own timer is deleted, and is passed over or, when the slot is *)
(* in use again, taken for the new timer's.                                *)
Implements == Contract!Spec

(* A slot is free when its timer is gone: callback cleared, kernel timer   *)
(* deleted, and as many slots in use as are counted.                       *)
FreeSlotsAreClean ==
    /\ \A s \in Slots : ~used[s] => ~callback[s] /\ kernel[s] = "none"
    /\ (\A c \in Callers : call[c] = Idle) => count = Cardinality({s \in Slots : used[s]})

(* What design.md says of TelOsTimerDelete: it waits for the callback that *)
(* is executing, and releases the slot after.                              *)
ReleasedAfterCallback == running # None => used[running]

(* TelOsTimerDelete returns, also when it spins on a callback that waits.  *)
DeleteReturns ==
    \A c \in Tasks : (call[c].op = "spin") ~> (call[c].op = "none")
=============================================================================
