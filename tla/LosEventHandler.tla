--------------------------- MODULE LosEventHandler ---------------------------
(***************************************************************************)
(* The call manager's main loop, LosEventHandler, in its self-driven mode: *)
(* a bounded ring drained by one loop task, a pool of waiter slots for     *)
(* synchronous posts, a table of delayed tasks served by one one-shot      *)
(* timer, and the Init / Stop life cycle driven by one owner task.         *)
(*                                                                         *)
(* Every section the code runs under lock_ is one step, and every load or  *)
(* store of an atomic that another task can observe is a step of its own.  *)
(* Time is abstract: a timer that is armed may expire, a bounded wait may  *)
(* run out at any moment, and which delayed tasks are due is a choice.     *)
(***************************************************************************)
EXTENDS Naturals, Sequences, FiniteSets

CONSTANTS
    Callers,            \* client tasks that post
    TimerTask,          \* the kernel's software timer task
    Contexts,           \* heap blocks available for SyncContext objects
    NoContext,          \* a null sptr<SyncContext>
    QueueSize,          \* Config::queueSize
    MaxSyncWaiters,     \* Config::maxSyncWaiters
    MaxDelayedTasks,    \* Config::maxDelayedTasks
    TaskCreateCanFail,  \* can the kernel's task pool be exhausted in Init
    MayStop,            \* does the owner ever call Stop
    PostKinds           \* the calls the clients make

ASSUME HandlerAssumption ==
    /\ IsFiniteSet(Callers)
    /\ TimerTask \notin Callers
    /\ NoContext \notin Contexts
    /\ QueueSize \in Nat \ {0}
    /\ MaxSyncWaiters \in Nat \ {0}
    /\ MaxDelayedTasks \in Nat \ {0}
    /\ TaskCreateCanFail \in BOOLEAN
    /\ MayStop \in BOOLEAN
    /\ PostKinds \subseteq {"async", "delayed", "remove", "sync"}

Threads == Callers \cup {TimerTask}
Slots == 1 .. MaxSyncWaiters
Capacity == QueueSize + 1

AsyncMessage == [kind |-> "ASYNC_TASK", sync |-> NoContext]
TimerMessage == [kind |-> "TIMER_FIRE", sync |-> NoContext]
SyncMessage(c) == [kind |-> "SYNC_CALL", sync |-> c]
Message == {AsyncMessage, TimerMessage} \cup {SyncMessage(c) : c \in Contexts}
NoMessage == [kind |-> "NONE", sync |-> NoContext]

Status == {"NONE", "SUCCESS", "UNINIT", "FAIL"}

VARIABLES
    state,          \* state_
    objects,        \* the kernel objects and the timer message exist
    ring,           \* ring_[ringHead_ .. ringHead_ + ringCount_)
    queueSem,       \* count of queueSem_
    waiterInUse,    \* slots s with waiterInUse_[s]
    waiterSems,     \* slots whose binary semaphore holds a signal
    ctxSlot,        \* SyncContext::slot
    ctxStatus,      \* SyncContext::status
    abandoned,      \* contexts with SyncContext::abandoned
    done,           \* contexts with SyncContext::done
    ran,            \* contexts whose task the loop has run
    delayed,        \* number of entries of delayed_
    timerArmed,     \* timer_ is counting down
    timerQueued,    \* timerMessageQueued_
    activeCalls,    \* activeCalls_
    pc, op, slot, mine, ret,    \* the posting calls: program point, kind of
                                \* call, waiter slot, context and result
    loopRunning,    \* loopRunning_
    lpc, loopMsg, loopStopping, \* the loop task: program point, message in
                                \* hand, local variable "stopping"
    owner           \* program point of the task that calls Init and Stop

ctxVars == <<ctxSlot, ctxStatus, abandoned, done, ran>>
queueVars == <<ring, queueSem>>
waiterVars == <<waiterInUse, waiterSems>>
timerVars == <<delayed, timerArmed, timerQueued>>
callVars == <<activeCalls, pc, op, slot, mine, ret>>
loopVars == <<loopRunning, lpc, loopMsg, loopStopping>>
lifeVars == <<state, objects, owner>>
vars == <<lifeVars, queueVars, waiterVars, ctxVars, timerVars, callVars,
          loopVars>>

CallPc == {"idle", "load", "exchange", "table", "acquire", "alloc", "check", "push",
           "post", "wait", "woken", "timedout", "free", "rearm", "leave"}
CallOp == {"async", "delayed", "remove", "sync", "timer", "none"}
LoopPc == {"off", "wait", "pop", "dispatch", "run", "complete", "due",
           "recycle", "drain", "exit"}
OwnerPc == {"idle", "create", "rollback", "timer", "drop", "post", "loop",
            "active", "queued", "waiters", "release"}

Init ==
    /\ state = "UNINIT" /\ objects = FALSE /\ owner = "idle"
    /\ ring = <<>> /\ queueSem = 0
    /\ waiterInUse = {} /\ waiterSems = {}
    /\ ctxSlot = [c \in Contexts |-> 1]
    /\ ctxStatus = [c \in Contexts |-> "SUCCESS"]
    /\ abandoned = {} /\ done = {} /\ ran = {}
    /\ delayed = 0 /\ timerArmed = FALSE /\ timerQueued = FALSE
    /\ activeCalls = 0
    /\ pc = [t \in Threads |-> "idle"]
    /\ op = [t \in Threads |-> "none"]
    /\ slot = [t \in Threads |-> 1]
    /\ mine = [t \in Threads |-> NoContext]
    /\ ret = [t \in Threads |-> "NONE"]
    /\ loopRunning = FALSE /\ lpc = "off"
    /\ loopMsg = NoMessage /\ loopStopping = FALSE

-----------------------------------------------------------------------------
(***************************************************************************)
(* Posting calls.  A call registers in activeCalls_ and only then loads    *)
(* the state (LosEventHandlerCall).                                        *)
(***************************************************************************)
Goto(t, p) == pc' = [pc EXCEPT ![t] = p]

Return(t, status) ==
    /\ Goto(t, "leave")
    /\ ret' = [ret EXCEPT ![t] = status]

Begin(t, kind) ==
    /\ pc[t] = "idle"
    /\ Goto(t, "load")
    /\ op' = [op EXCEPT ![t] = kind]
    /\ activeCalls' = activeCalls + 1
    /\ UNCHANGED <<lifeVars, queueVars, waiterVars, ctxVars, delayed,
                   timerQueued, slot, mine, ret, loopVars>>

BeginCall(t) ==
    /\ \E kind \in PostKinds : Begin(t, kind)
    /\ UNCHANGED timerArmed

TimerExpired ==
    /\ timerArmed
    /\ Begin(TimerTask, "timer")
    /\ timerArmed' = FALSE

\* Where each kind of call goes once it has seen the handler running.
FirstStep ==
    [async |-> "check", delayed |-> "table", remove |-> "table",
     sync |-> "acquire", timer |-> "exchange"]

\* An asynchronous post may find no memory for its message.
LoadState(t) ==
    /\ pc[t] = "load"
    /\ \/ state # "RUNNING" /\ Return(t, "UNINIT")
       \/ state = "RUNNING" /\ Goto(t, FirstStep[op[t]]) /\ UNCHANGED ret
       \/ state = "RUNNING" /\ op[t] = "async" /\ Return(t, "FAIL")
    /\ UNCHANGED <<lifeVars, queueVars, waiterVars, ctxVars, timerVars,
                   activeCalls, op, slot, mine, loopVars>>

\* OnTimerExpired claims the one timer message, or finds it queued already.
ClaimTimerMessage(t) ==
    /\ pc[t] = "exchange"
    /\ timerQueued' = TRUE
    /\ IF timerQueued
       THEN Return(t, "SUCCESS")
       ELSE Goto(t, "check") /\ UNCHANGED ret
    /\ UNCHANGED <<lifeVars, queueVars, waiterVars, ctxVars, delayed,
                   timerArmed, activeCalls, op, slot, mine, loopVars>>

\* ArmTimerLocked for a table of n entries.
ArmTimerMutant(n) == timerArmed' = (timerArmed /\ n > 0)
ArmTimer(n) == timerArmed' = (n > 0)

\* PostAsyncTask with a delay: a bounded table; the new entry arms the timer
\* when it is the earliest, which it is in an empty table.
PostDelayed(t) ==
    /\ pc[t] = "table" /\ op[t] = "delayed"
    /\ \/ /\ delayed >= MaxDelayedTasks
          /\ Return(t, "FAIL")
          /\ UNCHANGED <<delayed, timerArmed>>
       \/ /\ delayed < MaxDelayedTasks
          /\ delayed' = delayed + 1
          /\ \/ ArmTimer(delayed')
             \/ delayed > 0 /\ UNCHANGED timerArmed
          /\ Return(t, "SUCCESS")
    /\ UNCHANGED <<lifeVars, queueVars, waiterVars, ctxVars, timerQueued,
                   activeCalls, op, slot, mine, loopVars>>

\* RemoveAsyncTask: removing the earliest entry re-arms or stops the timer.
RemoveDelayed(t) ==
    /\ pc[t] = "table" /\ op[t] = "remove"
    /\ \/ /\ Return(t, "FAIL")
          /\ UNCHANGED <<delayed, timerArmed>>
       \/ /\ delayed > 0
          /\ delayed' = delayed - 1
          /\ \/ ArmTimer(delayed')
             \/ delayed' > 0 /\ UNCHANGED timerArmed
          /\ Return(t, "SUCCESS")
    /\ UNCHANGED <<lifeVars, queueVars, waiterVars, ctxVars, timerQueued,
                   activeCalls, op, slot, mine, loopVars>>

\* AcquireWaiter: the first free slot, or an error.
AcquireWaiter(t) ==
    /\ pc[t] = "acquire"
    /\ \/ /\ waiterInUse = Slots
          /\ Return(t, "FAIL")
          /\ UNCHANGED <<waiterInUse, slot>>
       \/ /\ \E s \in Slots \ waiterInUse :
                /\ \A r \in Slots \ waiterInUse : s <= r
                /\ waiterInUse' = waiterInUse \cup {s}
                /\ slot' = [slot EXCEPT ![t] = s]
          /\ Goto(t, "alloc")
          /\ UNCHANGED ret
    /\ UNCHANGED <<lifeVars, queueVars, waiterSems, ctxVars, timerVars,
                   activeCalls, op, mine, loopVars>>

\* A context is held by its caller's sptr and by the message that carries it.
InRing(c) == \E i \in 1 .. Len(ring) : ring[i] = SyncMessage(c)
Carried(c) == InRing(c) \/ loopMsg = SyncMessage(c)
Referenced(c) == Carried(c) \/ \E t \in Threads : mine[t] = c

\* new SyncContext and new LosEventMessage; either may fail (nothrow).
Allocate(t) ==
    /\ pc[t] = "alloc"
    /\ \/ /\ Goto(t, "free")
          /\ ret' = [ret EXCEPT ![t] = "FAIL"]
          /\ UNCHANGED <<mine, ctxVars>>
       \/ \E c \in Contexts :
             /\ ~Referenced(c)
             /\ mine' = [mine EXCEPT ![t] = c]
             /\ ctxSlot' = [ctxSlot EXCEPT ![c] = slot[t]]
             /\ ctxStatus' = [ctxStatus EXCEPT ![c] = "SUCCESS"]
             /\ abandoned' = abandoned \ {c}
             /\ done' = done \ {c}
             /\ ran' = ran \ {c}
             /\ Goto(t, "check")
             /\ UNCHANGED ret
    /\ UNCHANGED <<lifeVars, queueVars, waiterVars, timerVars, activeCalls,
                   op, slot, loopVars>>

MessageOf(t) ==
    CASE op[t] = "sync" -> SyncMessage(mine[t])
      [] op[t] = "timer" -> TimerMessage
      [] OTHER -> AsyncMessage

\* What a poster does when Enqueue failed: the asynchronous one deletes its
\* message, the synchronous one also frees its slot, the timer callback
\* clears the queued flag and starts the timer again.
EnqueueFailed(t, status) ==
    /\ ret' = [ret EXCEPT ![t] = status]
    /\ Goto(t, CASE op[t] = "sync" -> "free"
                 [] op[t] = "timer" -> "rearm"
                 [] OTHER -> "leave")

\* Enqueue, part 1: the state is checked before the lock is taken.
EnqueueCheck(t) ==
    /\ pc[t] = "check"
    /\ \/ state = "RUNNING" /\ Goto(t, "push") /\ UNCHANGED ret
       \/ state # "RUNNING" /\ EnqueueFailed(t, "UNINIT")
    /\ UNCHANGED <<lifeVars, queueVars, waiterVars, ctxVars, timerVars,
                   activeCalls, op, slot, mine, loopVars>>

\* The extra slot of the ring is for the timer message alone.
LimitMutant(t) == Capacity
Limit(t) == IF op[t] = "timer" THEN Capacity ELSE QueueSize

\* Enqueue, part 2: the ring, under the lock.
EnqueuePush(t) ==
    /\ pc[t] = "push"
    /\ \/ /\ Len(ring) >= Limit(t)
          /\ EnqueueFailed(t, "FAIL")
          /\ UNCHANGED ring
       \/ /\ Len(ring) < Limit(t)
          /\ ring' = Append(ring, MessageOf(t))
          /\ Goto(t, "post")
          /\ UNCHANGED ret
    /\ UNCHANGED <<lifeVars, queueSem, waiterVars, ctxVars, timerVars,
                   activeCalls, op, slot, mine, loopVars>>

\* A counting semaphore bounded at the size of the ring.  Test and release are
\* one step, as on POSIX; CMSIS makes two of them (Semaphores).
SemPostQueueMutant == queueSem' = 1
SemPostQueueUnbounded == queueSem' = queueSem + 1
SemPostQueue ==
    queueSem' = IF queueSem < Capacity THEN queueSem + 1 ELSE queueSem

\* Enqueue, part 3: the semaphore, after the unlock.
EnqueuePost(t) ==
    /\ pc[t] = "post"
    /\ SemPostQueue
    /\ IF op[t] = "sync"
       THEN Goto(t, "wait") /\ UNCHANGED ret
       ELSE Return(t, "SUCCESS")
    /\ UNCHANGED <<lifeVars, ring, waiterVars, ctxVars, timerVars,
                   activeCalls, op, slot, mine, loopVars>>

\* The failure path of PostSyncTask frees the slot under the lock.
FreeSlot(t) ==
    /\ pc[t] = "free"
    /\ waiterInUse' = waiterInUse \ {slot[t]}
    /\ Goto(t, "leave")
    /\ UNCHANGED <<lifeVars, queueVars, waiterSems, ctxVars, timerVars,
                   activeCalls, op, slot, mine, ret, loopVars>>

\* The failure path of OnTimerExpired.
RearmTimer(t) ==
    /\ pc[t] = "rearm"
    /\ timerQueued' = FALSE
    /\ timerArmed' = TRUE
    /\ Goto(t, "leave")
    /\ UNCHANGED <<lifeVars, queueVars, waiterVars, ctxVars, delayed,
                   activeCalls, op, slot, mine, ret, loopVars>>

\* TelOsSemWait in PostSyncTask: a signal, or the timeout.
SemWaitForever(t) ==
    /\ pc[t] = "wait"
    /\ slot[t] \in waiterSems
    /\ waiterSems' = waiterSems \ {slot[t]}
    /\ Goto(t, "woken")
    /\ UNCHANGED <<lifeVars, queueVars, waiterInUse, ctxVars, timerVars,
                   activeCalls, op, slot, mine, ret, loopVars>>
SemWait(t) ==
    /\ pc[t] = "wait"
    /\ \/ /\ slot[t] \in waiterSems
          /\ waiterSems' = waiterSems \ {slot[t]}
          /\ Goto(t, "woken")
       \/ /\ Goto(t, "timedout")
          /\ UNCHANGED waiterSems
    /\ UNCHANGED <<lifeVars, queueVars, waiterInUse, ctxVars, timerVars,
                   activeCalls, op, slot, mine, ret, loopVars>>

\* TelOsSemWait(waiterSems_[slot], 0): a caller that timed out just before
\* its call completed takes the signal that Complete left.
ConsumeSignal(t) ==
    IF pc[t] = "timedout" THEN waiterSems \ {slot[t]} ELSE waiterSems

\* The end of PostSyncTask, under the lock: a completed call frees its slot
\* and, if it had timed out meanwhile, consumes the signal left behind; a
\* call that is not completed is abandoned and leaves its slot to the loop.
FinishWait(t) ==
    /\ pc[t] \in {"woken", "timedout"}
    /\ \/ /\ pc[t] = "woken" \/ mine[t] \in done
          /\ waiterSems' = ConsumeSignal(t)
          /\ waiterInUse' = waiterInUse \ {slot[t]}
          /\ Return(t, ctxStatus[mine[t]])
          /\ UNCHANGED abandoned
       \/ /\ pc[t] = "timedout" /\ mine[t] \notin done
          /\ abandoned' = abandoned \cup {mine[t]}
          /\ Return(t, "FAIL")
          /\ UNCHANGED waiterVars
    /\ UNCHANGED <<lifeVars, queueVars, ctxSlot, ctxStatus, done, ran,
                   timerVars, activeCalls, op, slot, mine, loopVars>>

\* The call's locals go out of scope: the caller's sptr is released and the
\* destructor of LosEventHandlerCall deregisters the call.
Leave(t) ==
    /\ pc[t] = "leave"
    /\ activeCalls' = activeCalls - 1
    /\ mine' = [mine EXCEPT ![t] = NoContext]
    /\ op' = [op EXCEPT ![t] = "none"]
    /\ slot' = [slot EXCEPT ![t] = 1]
    /\ ret' = [ret EXCEPT ![t] = "NONE"]
    /\ Goto(t, "idle")
    /\ UNCHANGED <<lifeVars, queueVars, waiterVars, ctxVars, timerVars,
                   loopVars>>

-----------------------------------------------------------------------------
(***************************************************************************)
(* The loop task: RunLoop, Dispatch, RunDueTasks, Recycle, Complete.       *)
(***************************************************************************)
AfterMessage == IF loopStopping THEN "drain" ELSE "wait"

LoopWait ==
    /\ lpc = "wait"
    /\ queueSem > 0
    /\ queueSem' = queueSem - 1
    /\ lpc' = "pop"
    /\ UNCHANGED <<lifeVars, ring, waiterVars, ctxVars, timerVars, callVars,
                   loopRunning, loopMsg, loopStopping>>

\* PopLocked and the load of the state, both under the lock.
LoopPop ==
    /\ lpc = "pop"
    /\ loopStopping' = (state # "RUNNING")
    /\ \/ /\ ring # <<>>
          /\ loopMsg' = Head(ring)
          /\ ring' = Tail(ring)
          /\ lpc' = "dispatch"
       \/ /\ ring = <<>>
          /\ lpc' = IF state # "RUNNING" THEN "drain" ELSE "wait"
          /\ UNCHANGED <<loopMsg, ring>>
    /\ UNCHANGED <<lifeVars, queueSem, waiterVars, ctxVars, timerVars,
                   callVars, loopRunning>>

Dispatch ==
    /\ lpc = "dispatch"
    /\ \/ /\ state # "RUNNING"
          /\ lpc' = "recycle"
          /\ UNCHANGED timerQueued
       \/ /\ state = "RUNNING"
          /\ loopMsg.kind = "TIMER_FIRE"
          /\ timerQueued' = FALSE
          /\ lpc' = "due"
       \/ /\ state = "RUNNING"
          /\ loopMsg.kind # "TIMER_FIRE"
          /\ lpc' = "run"
          /\ UNCHANGED timerQueued
    /\ UNCHANGED <<lifeVars, queueVars, waiterVars, ctxVars, delayed,
                   timerArmed, callVars, loopRunning, loopMsg, loopStopping>>

\* The task of a message runs outside the lock.
RunTask ==
    /\ lpc = "run"
    /\ IF loopMsg.kind = "SYNC_CALL"
       THEN /\ ran' = ran \cup {loopMsg.sync}
            /\ lpc' = "complete"
            /\ UNCHANGED loopMsg
       ELSE /\ lpc' = AfterMessage
            /\ loopMsg' = NoMessage
            /\ UNCHANGED ran
    /\ UNCHANGED <<lifeVars, queueVars, waiterVars, ctxSlot, ctxStatus,
                   abandoned, done, timerVars, callVars, loopRunning,
                   loopStopping>>

\* Complete, under the lock: an abandoned context gives its slot back, any
\* other one wakes its caller. In the mutant every slot is given back at once.
CompleteFreesSlot(c, status) ==
    /\ ctxStatus' = [ctxStatus EXCEPT ![c] = status]
    /\ done' = done \cup {c}
    /\ waiterInUse' = waiterInUse \ {ctxSlot[c]}
    /\ waiterSems' = IF c \in abandoned THEN waiterSems
                     ELSE waiterSems \cup {ctxSlot[c]}
Complete(c, status) ==
    /\ ctxStatus' = [ctxStatus EXCEPT ![c] = status]
    /\ done' = done \cup {c}
    /\ IF c \in abandoned
       THEN /\ waiterInUse' = waiterInUse \ {ctxSlot[c]}
            /\ UNCHANGED waiterSems
       ELSE /\ waiterSems' = waiterSems \cup {ctxSlot[c]}
            /\ UNCHANGED waiterInUse

CompleteCall ==
    /\ lpc = "complete"
    /\ Complete(loopMsg.sync, "SUCCESS")
    /\ lpc' = AfterMessage
    /\ loopMsg' = NoMessage
    /\ UNCHANGED <<lifeVars, queueVars, ctxSlot, abandoned, ran, timerVars,
                   callVars, loopRunning, loopStopping>>

\* RunDueTasks: the due entries are taken out under the lock, then the timer
\* is armed for what remains, or stopped.
RunDueTasks ==
    /\ lpc = "due"
    /\ \E left \in 0 .. delayed :
          /\ delayed' = left
          /\ ArmTimer(left)
    /\ lpc' = AfterMessage
    /\ loopMsg' = NoMessage
    /\ UNCHANGED <<lifeVars, queueVars, waiterVars, ctxVars, timerQueued,
                   callVars, loopRunning, loopStopping>>

Recycle ==
    /\ lpc = "recycle"
    /\ IF loopMsg.kind = "SYNC_CALL"
       THEN Complete(loopMsg.sync, "UNINIT")
       ELSE UNCHANGED <<waiterVars, ctxStatus, done>>
    /\ timerQueued' = (timerQueued /\ loopMsg.kind # "TIMER_FIRE")
    /\ lpc' = AfterMessage
    /\ loopMsg' = NoMessage
    /\ UNCHANGED <<lifeVars, queueVars, ctxSlot, abandoned, ran, delayed,
                   timerArmed, callVars, loopRunning, loopStopping>>

\* The second loop of RunLoop, after a stop was seen.
DrainPop ==
    /\ lpc = "drain"
    /\ \/ /\ ring # <<>>
          /\ loopMsg' = Head(ring)
          /\ ring' = Tail(ring)
          /\ lpc' = "recycle"
       \/ /\ ring = <<>>
          /\ lpc' = "exit"
          /\ UNCHANGED <<loopMsg, ring>>
    /\ UNCHANGED <<lifeVars, queueSem, waiterVars, ctxVars, timerVars,
                   callVars, loopRunning, loopStopping>>

LoopExit ==
    /\ lpc = "exit"
    /\ lpc' = "off"
    /\ loopRunning' = FALSE
    /\ UNCHANGED <<lifeVars, queueVars, waiterVars, ctxVars, timerVars,
                   callVars, loopMsg, loopStopping>>

-----------------------------------------------------------------------------
(***************************************************************************)
(* The owner task: Init and Stop.                                          *)
(***************************************************************************)
\* The mutant leaves the timer to the Stop before, which a late delayed post
\* may have followed.
ReleaseObjectsKeepsTimer ==
    /\ objects' = FALSE
    /\ ring' = <<>>
    /\ queueSem' = 0
    /\ waiterInUse' = {}
    /\ waiterSems' = {}
    /\ timerQueued' = FALSE
    /\ UNCHANGED timerArmed
ReleaseObjects ==
    /\ objects' = FALSE
    /\ ring' = <<>>
    /\ queueSem' = 0
    /\ waiterInUse' = {}
    /\ waiterSems' = {}
    /\ timerArmed' = FALSE
    /\ timerQueued' = FALSE

\* Init up to the loop task: the objects are created (or all of them are
\* released again and nothing changed), the state is stored, and posts are
\* accepted before the loop task exists.
InitHandler ==
    /\ owner = "idle"
    /\ state = "UNINIT"
    /\ objects' = TRUE
    /\ state' = "RUNNING"
    /\ loopRunning' = TRUE
    /\ owner' = "create"
    /\ UNCHANGED <<queueVars, waiterVars, ctxVars, timerVars, callVars, lpc,
                   loopMsg, loopStopping>>

\* TelOsTaskCreate; when it fails the state is stored back first.
CreateLoopTask ==
    /\ owner = "create"
    /\ \/ /\ lpc' = "wait"
          /\ loopStopping' = FALSE
          /\ owner' = "idle"
          /\ UNCHANGED <<state, loopRunning>>
       \/ /\ TaskCreateCanFail
          /\ loopRunning' = FALSE
          /\ state' = "UNINIT"
          /\ owner' = "rollback"
          /\ UNCHANGED <<lpc, loopStopping>>
    /\ UNCHANGED <<objects, queueVars, waiterVars, ctxVars, timerVars,
                   callVars, loopMsg>>

RollbackInit ==
    /\ owner = "rollback"
    /\ ReleaseObjects
    /\ owner' = "idle"
    /\ UNCHANGED <<state, ctxVars, delayed, callVars, loopVars>>

Stop ==
    /\ MayStop
    /\ owner = "idle"
    /\ state = "RUNNING"
    /\ state' = "STOPPING"
    /\ owner' = "timer"
    /\ UNCHANGED <<objects, queueVars, waiterVars, ctxVars, timerVars,
                   callVars, loopVars>>

StopTimer ==
    /\ owner = "timer"
    /\ timerArmed' = FALSE
    /\ owner' = "drop"
    /\ UNCHANGED <<state, objects, queueVars, waiterVars, ctxVars, delayed,
                   timerQueued, callVars, loopVars>>

DropDelayed ==
    /\ owner = "drop"
    /\ delayed' = 0
    /\ owner' = "post"
    /\ UNCHANGED <<state, objects, queueVars, waiterVars, ctxVars,
                   timerArmed, timerQueued, callVars, loopVars>>

WakeLoop ==
    /\ owner = "post"
    /\ SemPostQueue
    /\ owner' = "loop"
    /\ UNCHANGED <<state, objects, ring, waiterVars, ctxVars, timerVars,
                   callVars, loopVars>>

\* The polls of WaitUntil: the condition holds and Stop goes on, or the
\* bounded wait runs out and Stop returns, keeping the objects.
WaitConditionsMutant ==
    [loop |-> ~loopRunning, active |-> TRUE, queued |-> ~timerQueued,
     waiters |-> waiterInUse = {}]
WaitConditions ==
    [loop    |-> ~loopRunning,
     active  |-> activeCalls = 0,
     queued  |-> ~timerQueued,
     waiters |-> waiterInUse = {}]
WaitNext ==
    [loop |-> "active", active |-> "queued", queued |-> "waiters",
     waiters |-> "release"]

StopPoll ==
    /\ owner \in DOMAIN WaitNext
    /\ \/ WaitConditions[owner] /\ owner' = WaitNext[owner]
       \/ /\ ~WaitConditions[owner] /\ owner \in {"queued", "waiters"}
          /\ owner' = "active"
    /\ UNCHANGED <<state, objects, queueVars, waiterVars, ctxVars, timerVars,
                   callVars, loopVars>>

StopGiveUp ==
    /\ owner \in DOMAIN WaitNext
    /\ ~WaitConditions[owner]
    /\ owner' = "idle"
    /\ UNCHANGED <<state, objects, queueVars, waiterVars, ctxVars, timerVars,
                   callVars, loopVars>>

StopRelease ==
    /\ owner = "release"
    /\ ReleaseObjects
    /\ state' = "UNINIT"
    /\ owner' = "idle"
    /\ UNCHANGED <<ctxVars, delayed, callVars, loopVars>>

-----------------------------------------------------------------------------
CallStep(t) ==
    \/ LoadState(t) \/ ClaimTimerMessage(t)
    \/ PostDelayed(t) \/ RemoveDelayed(t)
    \/ AcquireWaiter(t) \/ Allocate(t)
    \/ EnqueueCheck(t) \/ EnqueuePush(t) \/ EnqueuePost(t)
    \/ FreeSlot(t) \/ RearmTimer(t)
    \/ SemWait(t) \/ FinishWait(t) \/ Leave(t)

LoopStep ==
    \/ LoopWait \/ LoopPop \/ Dispatch \/ RunTask \/ CompleteCall
    \/ RunDueTasks \/ Recycle \/ DrainPop \/ LoopExit

StopStep == StopTimer \/ DropDelayed \/ WakeLoop \/ StopPoll \/ StopGiveUp
            \/ StopRelease
OwnerStep == CreateLoopTask \/ RollbackInit \/ StopStep

Next ==
    \/ \E t \in Callers : BeginCall(t)
    \/ TimerExpired
    \/ \E t \in Threads : CallStep(t)
    \/ LoopStep
    \/ InitHandler \/ Stop \/ OwnerStep

Spec == Init /\ [][Next]_vars

(***************************************************************************)
(* Fairness: the kernel schedules every ready task, an armed timer expires *)
(* and a bounded wait ends (WaitUntil counts its polls, so a condition     *)
(* found false again and again makes Stop give up).  Nothing obliges a     *)
(* client to post or the owner to call Init or Stop.                       *)
(***************************************************************************)
FairSpec ==
    /\ Spec
    /\ WF_vars(LoopStep)
    /\ \A t \in Threads : WF_vars(CallStep(t))
    /\ WF_vars(TimerExpired)
    /\ WF_vars(OwnerStep)
    /\ SF_vars(StopGiveUp)

-----------------------------------------------------------------------------
\* The type invariant: the ring and its semaphore never exceed the capacity
\* Init gave them.
TypeOK ==
    /\ state \in {"UNINIT", "RUNNING", "STOPPING"}
    /\ objects \in BOOLEAN
    /\ owner \in OwnerPc
    /\ ring \in Seq(Message) /\ Len(ring) <= Capacity
    /\ queueSem \in 0 .. Capacity
    /\ waiterInUse \subseteq Slots /\ waiterSems \subseteq Slots
    /\ ctxSlot \in [Contexts -> Slots]
    /\ ctxStatus \in [Contexts -> Status]
    /\ abandoned \subseteq Contexts /\ done \subseteq Contexts
    /\ ran \subseteq Contexts
    /\ delayed \in 0 .. MaxDelayedTasks
    /\ timerArmed \in BOOLEAN /\ timerQueued \in BOOLEAN
    /\ activeCalls \in Nat
    /\ pc \in [Threads -> CallPc]
    /\ op \in [Threads -> CallOp]
    /\ slot \in [Threads -> Slots]
    /\ mine \in [Threads -> Contexts \cup {NoContext}]
    /\ ret \in [Threads -> Status]
    /\ loopRunning \in BOOLEAN /\ loopStopping \in BOOLEAN
    /\ lpc \in LoopPc
    /\ loopMsg \in Message \cup {NoMessage}

HoldsSlot(t) ==
    /\ op[t] = "sync"
    /\ pc[t] \in {"alloc", "check", "push", "post", "wait", "woken",
                  "timedout", "free"}

\* A waiter slot has one user: two synchronous calls never share a slot, and
\* a slot left behind by a call that timed out is not handed out before the
\* loop has completed that call (AcquireWaiter, PostSyncTask, Complete).
SlotExclusive ==
    objects =>
        /\ \A t \in Threads : HoldsSlot(t) => slot[t] \in waiterInUse
        /\ \A t, u \in Threads :
              t # u /\ HoldsSlot(t) /\ HoldsSlot(u) => slot[t] # slot[u]
        /\ \A c \in abandoned : Carried(c) =>
              /\ ctxSlot[c] \in waiterInUse
              /\ \A t \in Threads : HoldsSlot(t) => slot[t] # ctxSlot[c]

\* A signal on a waiter semaphore is addressed to the call that is waiting
\* there and has been completed; none is left for the next user of the slot.
NoStaleSignal ==
    \A s \in waiterSems : \E t \in Threads :
        /\ HoldsSlot(t) /\ slot[t] = s
        /\ pc[t] \in {"post", "wait", "timedout"}
        /\ mine[t] \in done

\* PostSyncTask returns TELEPHONY_SUCCESS only when the loop ran its task.
SuccessMeansRan ==
    \A t \in Threads :
        pc[t] = "leave" /\ op[t] = "sync" /\ ret[t] = "SUCCESS"
            => mine[t] \in ran

\* What a synchronous caller gets is its own: slot, signal and result.
WaitersSound == SlotExclusive /\ NoStaleSignal /\ SuccessMeansRan

\* Kernel objects are deleted only when no posting call and no loop step can
\* still reach them (the activeCalls_ protocol of LosEventHandlerCall and
\* Stop).
NoUseAfterRelease ==
    ~objects => /\ \A t \in Threads : pc[t] \in {"idle", "load", "leave"}
                /\ lpc = "off"

\* Init starts clean after a Stop that ended: no message, signal, waiter slot
\* or timer of an earlier life is left, and no late call puts one there.  Of an
\* Init that failed at its last step this cannot be said: posts are let in
\* before (los_event_handler.cpp:175), and one that comes late finds the ring
\* rolled back, so the claim is made for a loop task that can be created.
UninitIsClean ==
    state = "UNINIT" /\ owner = "idle" =>
        /\ ring = <<>> /\ queueSem = 0
        /\ waiterInUse = {} /\ waiterSems = {}
        /\ ~timerArmed /\ ~timerQueued
        /\ ~loopRunning

\* A full queue never refuses the timer message (the extra slot of Init).
TimerMessageFits ==
    pc[TimerTask] = "push" => Len(ring) < Capacity

\* The loop never sleeps on queueSem_ while the ring holds a message that
\* nobody is about to signal.
NoLostWakeup ==
    lpc = "wait" /\ ring # <<>> =>
        queueSem > 0 \/ \E t \in Threads : pc[t] = "post"

\* While the handler runs, a non-empty delayed table is being watched: the
\* timer counts, or its callback or message is on the way to RunDueTasks.
DelayedHasTimer ==
    state = "RUNNING" /\ delayed > 0 =>
        \/ timerArmed \/ timerQueued \/ lpc = "due"
        \/ pc[TimerTask] \in {"load", "exchange", "check", "push", "rearm"}

\* Every post returns, whatever Stop does meanwhile: also the synchronous
\* one whose message reached the ring when the loop had drained it for the
\* last time (the bounded TelOsSemWait of PostSyncTask).
CallsReturn == \A t \in Threads : pc[t] # "idle" ~> pc[t] = "idle"

\* While the handler runs, a waiter slot is given back, abandoned or not.
SlotsReturn ==
    \A s \in Slots : s \in waiterInUse ~> s \notin waiterInUse
                                         \/ state # "RUNNING"

\* The loop comes to look at a non-empty delayed table.
DelayedServed == state = "RUNNING" /\ delayed > 0 ~> lpc = "due" \/ delayed = 0

\* Stop comes to an end even when a slot is never given back to it (the
\* bounded WaitUntil polls).
StopReturns == owner # "idle" ~> owner = "idle"

\* Nobody waits for ever: the caller for the loop that Stop has ended, Stop for
\* the callers, the next caller for a slot.
NobodyIsStuck == CallsReturn /\ StopReturns /\ SlotsReturn
=============================================================================
