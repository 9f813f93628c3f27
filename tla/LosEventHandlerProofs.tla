------------------------ MODULE LosEventHandlerProofs ------------------------
(***************************************************************************)
(* What holds of LosEventHandler for every number of client tasks, every   *)
(* size of the queue, of the waiter pool and of the delayed table.         *)
(***************************************************************************)
EXTENDS LosEventHandler, FiniteSetTheorems, TLAPS

-----------------------------------------------------------------------------
(***************************************************************************)
(* The inductive invariant for types.  A decrement of activeCalls_ stays   *)
(* in Nat because the counter counts the calls in progress; the message a  *)
(* synchronous call pushes carries a context because its caller holds one. *)
(***************************************************************************)
Active == {t \in Threads : pc[t] # "idle"}

CountInv == activeCalls = Cardinality(Active)

CallInv ==
    \A t \in Threads :
        /\ pc[t] # "idle" => op[t] # "none"
        /\ pc[t] = "exchange" => op[t] = "timer"
        /\ pc[t] \in {"acquire", "alloc", "free", "wait", "woken", "timedout"}
              => op[t] = "sync"
        /\ op[t] = "sync" /\ pc[t] \in {"check", "push", "post", "wait",
                                        "woken", "timedout"}
              => mine[t] \in Contexts

LoopInv == lpc = "complete" => loopMsg.kind = "SYNC_CALL"

Shape == TypeOK /\ CallInv /\ LoopInv
TypeInv == Shape /\ CountInv

\* A step that begins no call and ends none.
CallsKept ==
    /\ activeCalls' = activeCalls
    /\ \A t \in Threads : pc'[t] # "idle" <=> pc[t] # "idle"

-----------------------------------------------------------------------------
(***************************************************************************)
(* Lemmas: the set of calls in progress and its size.                      *)
(***************************************************************************)
\* The tasks that can be inside a posting call are finitely many.
LEMMA ThreadsFinite == IsFiniteSet(Threads)
<1>1. IsFiniteSet(Callers)
  BY HandlerAssumption
<1>2. QED
  BY <1>1, FS_AddElement DEF Threads

\* Enqueue keeps the ring within its limit.
LEMMA RingGrows ==
    ASSUME ring \in Seq(Message), Len(ring) <= Capacity,
           NEW m \in Message, NEW limit \in Nat, limit <= Capacity,
           ring' = ring \/ (Len(ring) < limit /\ ring' = Append(ring, m))
    PROVE  ring' \in Seq(Message) /\ Len(ring') <= Capacity
<1>1. Capacity \in Nat
  BY HandlerAssumption DEF Capacity
<1>2. QED
  BY <1>1

\* PopLocked takes a message out of it.
LEMMA RingShrinks ==
    ASSUME ring \in Seq(Message), Len(ring) <= Capacity,
           loopMsg \in Message \cup {NoMessage},
           \/ ring # <<>> /\ loopMsg' = Head(ring) /\ ring' = Tail(ring)
           \/ ring' = ring /\ loopMsg' = loopMsg
    PROVE  /\ ring' \in Seq(Message) /\ Len(ring') <= Capacity
           /\ loopMsg' \in Message \cup {NoMessage}
<1>1. Capacity \in Nat
  BY HandlerAssumption DEF Capacity
<1>2. QED
  BY <1>1

\* ReleaseObjects clears it.
LEMMA RingEmpties ==
    ASSUME ring' = <<>>
    PROVE  ring' \in Seq(Message) /\ Len(ring') <= Capacity
  BY HandlerAssumption DEF Capacity

\* Arming the timer leaves it armed or not.
LEMMA ArmTimerBoolean ==
    ASSUME NEW n, ArmTimer(n)
    PROVE  timerArmed' \in BOOLEAN
  BY DEF ArmTimer

\* LosEventHandlerCall's constructor adds one call to those in progress.
LEMMA CountBegin ==
    ASSUME TypeOK, CountInv, NEW t \in Threads, NEW kind, Begin(t, kind)
    PROVE  activeCalls' \in Nat /\ CountInv'
<1>1. IsFiniteSet(Active)
  BY ThreadsFinite, FS_Subset DEF Active
<1>2. t \notin Active /\ Active' = Active \cup {t}
  BY DEF TypeOK, Begin, Goto, Active
<1>3. Cardinality(Active') = Cardinality(Active) + 1
  BY <1>1, <1>2, FS_AddElement
<1>4. QED
  BY <1>3 DEF CountInv, Begin, TypeOK

\* Its destructor removes one, which was counted: the counter stays in Nat.
LEMMA CountLeave ==
    ASSUME TypeOK, CountInv, NEW t \in Threads, Leave(t)
    PROVE  activeCalls' \in Nat /\ CountInv'
<1>1. IsFiniteSet(Active)
  BY ThreadsFinite, FS_Subset DEF Active
<1>2. t \in Active /\ Active' = Active \ {t}
  BY DEF TypeOK, Leave, Goto, Active
<1>3. IsFiniteSet(Active') /\ Cardinality(Active') = Cardinality(Active) - 1
  BY <1>1, <1>2, FS_RemoveElement
<1>4. Cardinality(Active') \in Nat
  BY <1>3, FS_CardinalityType
<1>5. QED
  BY <1>3, <1>4 DEF CountInv, Leave

\* Every other step leaves them and the counter as they are.
LEMMA CountKept ==
    ASSUME CountInv, CallsKept
    PROVE  CountInv'
<1>1. Active' = Active
  BY DEF Active, CallsKept
<1>2. QED
  BY <1>1 DEF CountInv, CallsKept

\* A counter at zero means that no call is in progress.
LEMMA NoCalls ==
    ASSUME CountInv, activeCalls = 0
    PROVE  \A t \in Threads : pc[t] = "idle"
<1>1. IsFiniteSet(Active)
  BY ThreadsFinite, FS_Subset DEF Active
<1>2. Active = {}
  BY <1>1, FS_EmptySet DEF CountInv
<1>3. QED
  BY <1>2 DEF Active

-----------------------------------------------------------------------------
(***************************************************************************)
(* Every step keeps the types.                                             *)
(***************************************************************************)
\* A call begins, from a client or from the timer task.
LEMMA ShapeBegin ==
    ASSUME TypeInv, NEW t \in Threads, NEW kind \in CallOp \ {"none"},
           Begin(t, kind), timerArmed' \in BOOLEAN
    PROVE  TypeInv'
<1>1. TypeOK /\ CallInv /\ LoopInv /\ CountInv
  BY DEF TypeInv, Shape
<1>2. activeCalls' \in Nat /\ CountInv'
  BY <1>1, CountBegin
<1>3. TypeOK' /\ CallInv' /\ LoopInv'
  BY <1>1, <1>2 DEF TypeOK, CallInv, LoopInv, Begin, Goto, CallPc, lifeVars,
     queueVars, waiterVars, ctxVars, loopVars
<1>4. QED
  BY <1>2, <1>3 DEF TypeInv, Shape

\* A call goes on, up to its return.
LEMMA ShapeCall ==
    ASSUME Shape, NEW t \in Threads, CallStep(t), ~Leave(t)
    PROVE  Shape' /\ CallsKept
<1> USE HandlerAssumption DEF Shape, CallsKept, TypeOK, CallInv, LoopInv, Goto,
        CallPc, CallOp, Status, lifeVars, queueVars, waiterVars, ctxVars,
        timerVars, callVars, loopVars
<1>1. ASSUME LoadState(t) PROVE Shape' /\ CallsKept
  BY <1>1 DEF LoadState, Return, FirstStep
<1>2. ASSUME ClaimTimerMessage(t) PROVE Shape' /\ CallsKept
  <2>1. CASE timerQueued
    BY <1>2, <2>1 DEF ClaimTimerMessage, Return
  <2>2. CASE ~timerQueued
    BY <1>2, <2>2 DEF ClaimTimerMessage, Return
  <2>3. QED
    BY <2>1, <2>2
<1>3. ASSUME PostDelayed(t) PROVE Shape' /\ CallsKept
  <2>1. timerArmed' \in BOOLEAN
    BY <1>3, ArmTimerBoolean DEF PostDelayed
  <2>2. delayed' \in 0 .. MaxDelayedTasks
    BY <1>3 DEF PostDelayed
  <2>3. Return(t, "SUCCESS") \/ Return(t, "FAIL")
    BY <1>3 DEF PostDelayed
  <2>4. pc[t] = "table"
        /\ UNCHANGED <<lifeVars, queueVars, waiterVars, ctxVars, timerQueued,
                       activeCalls, op, slot, mine, loopVars>>
    BY <1>3 DEF PostDelayed
  <2>5. QED
    BY <2>1, <2>2, <2>3, <2>4 DEF Return
<1>4. ASSUME RemoveDelayed(t) PROVE Shape' /\ CallsKept
  <2>1. timerArmed' \in BOOLEAN
    BY <1>4, ArmTimerBoolean DEF RemoveDelayed
  <2>2. delayed' \in 0 .. MaxDelayedTasks
    BY <1>4 DEF RemoveDelayed
  <2>3. Return(t, "SUCCESS") \/ Return(t, "FAIL")
    BY <1>4 DEF RemoveDelayed
  <2>4. pc[t] = "table"
        /\ UNCHANGED <<lifeVars, queueVars, waiterVars, ctxVars, timerQueued,
                       activeCalls, op, slot, mine, loopVars>>
    BY <1>4 DEF RemoveDelayed
  <2>5. QED
    BY <2>1, <2>2, <2>3, <2>4 DEF Return
<1>5. ASSUME AcquireWaiter(t) PROVE Shape' /\ CallsKept
  BY <1>5 DEF AcquireWaiter, Return
<1>6. ASSUME Allocate(t) PROVE Shape' /\ CallsKept
  <2>1. TypeOK'
    <3>1. /\ ctxSlot' \in [Contexts -> Slots]
          /\ ctxStatus' \in [Contexts -> Status]
          /\ mine' \in [Threads -> Contexts \cup {NoContext}]
      <4>1. CASE UNCHANGED <<mine, ctxVars>>
        BY <4>1
      <4>2. CASE \E c \in Contexts :
                    /\ mine' = [mine EXCEPT ![t] = c]
                    /\ ctxSlot' = [ctxSlot EXCEPT ![c] = slot[t]]
                    /\ ctxStatus' = [ctxStatus EXCEPT ![c] = "SUCCESS"]
        BY <4>2
      <4>3. QED
        BY <1>6, <4>1, <4>2 DEF Allocate
    <3>2. /\ abandoned' \subseteq Contexts /\ done' \subseteq Contexts
          /\ ran' \subseteq Contexts
      BY <1>6 DEF Allocate
    <3>3. pc' \in [Threads -> CallPc] /\ ret' \in [Threads -> Status]
      BY <1>6 DEF Allocate
    <3>4. UNCHANGED <<lifeVars, queueVars, waiterVars, timerVars, activeCalls,
                      op, slot, loopVars>>
      BY <1>6 DEF Allocate
    <3>5. QED
      BY <3>1, <3>2, <3>3, <3>4
  <2>2. CallInv' /\ LoopInv'
    BY <1>6 DEF Allocate
  <2>3. CallsKept
    BY <1>6 DEF Allocate
  <2>4. QED
    BY <2>1, <2>2, <2>3
<1>7. ASSUME EnqueueCheck(t) PROVE Shape' /\ CallsKept
  BY <1>7 DEF EnqueueCheck, EnqueueFailed
<1>8. ASSUME EnqueuePush(t) PROVE Shape' /\ CallsKept
  <2>1. MessageOf(t) \in Message
    <3>1. CASE op[t] = "sync"
      BY <1>8, <3>1 DEF EnqueuePush, MessageOf, Message
    <3>2. CASE op[t] # "sync"
      BY <3>2 DEF MessageOf, Message
    <3>3. QED
      BY <3>1, <3>2
  <2>2. Limit(t) \in Nat /\ Limit(t) <= Capacity
    BY DEF Limit, Capacity
  <2>3. \/ ring' = ring
        \/ Len(ring) < Limit(t) /\ ring' = Append(ring, MessageOf(t))
    BY <1>8 DEF EnqueuePush
  <2>4. ring' \in Seq(Message) /\ Len(ring') <= Capacity
    BY <2>1, <2>2, <2>3, RingGrows
  <2>5. QED
    BY <1>8, <2>4 DEF EnqueuePush, EnqueueFailed
<1>9. ASSUME EnqueuePost(t) PROVE Shape' /\ CallsKept
  BY <1>9 DEF EnqueuePost, Return, SemPostQueue, Capacity
<1>10. ASSUME FreeSlot(t) PROVE Shape' /\ CallsKept
  BY <1>10 DEF FreeSlot
<1>11. ASSUME RearmTimer(t) PROVE Shape' /\ CallsKept
  BY <1>11 DEF RearmTimer
<1>12. ASSUME SemWait(t) PROVE Shape' /\ CallsKept
  BY <1>12 DEF SemWait
<1>13. ASSUME FinishWait(t) PROVE Shape' /\ CallsKept
  BY <1>13 DEF FinishWait, Return, ConsumeSignal
<1>14. QED
  BY <1>1, <1>2, <1>3, <1>4, <1>5, <1>6, <1>7, <1>8, <1>9, <1>10, <1>11,
     <1>12, <1>13
     DEF CallStep

\* The loop task's steps.
LEMMA ShapeLoop ==
    ASSUME Shape, LoopStep
    PROVE  Shape' /\ CallsKept
<1> USE HandlerAssumption DEF TypeOK, LoopInv, LoopPc, Status, lifeVars,
        queueVars, waiterVars, ctxVars, timerVars, callVars, loopVars
<1>1. UNCHANGED callVars
  BY DEF LoopStep, LoopWait, LoopPop, Dispatch, RunTask, CompleteCall,
     RunDueTasks, Recycle, DrainPop, LoopExit
<1>2. CallInv' /\ CallsKept
  BY <1>1 DEF Shape, CallInv, CallsKept
<1>3. TypeOK /\ LoopInv
  BY DEF Shape
<1>4. ASSUME LoopWait PROVE TypeOK' /\ LoopInv'
  BY <1>3, <1>4 DEF LoopWait, Capacity
<1>5. ASSUME LoopPop PROVE TypeOK' /\ LoopInv'
  <2>1. /\ ring' \in Seq(Message) /\ Len(ring') <= Capacity
        /\ loopMsg' \in Message \cup {NoMessage}
    BY <1>3, <1>5, RingShrinks DEF LoopPop
  <2>2. loopStopping' \in BOOLEAN
    BY <1>3, <1>5 DEF LoopPop
  <2>3. QED
    BY <1>3, <1>5, <2>1, <2>2 DEF LoopPop
<1>6. ASSUME Dispatch PROVE TypeOK' /\ LoopInv'
  BY <1>3, <1>6 DEF Dispatch
<1>7. ASSUME RunTask PROVE TypeOK' /\ LoopInv'
  BY <1>3, <1>7 DEF RunTask, AfterMessage, Message, AsyncMessage,
     TimerMessage, SyncMessage, NoMessage
<1>8. ASSUME CompleteCall PROVE TypeOK' /\ LoopInv'
  BY <1>3, <1>8 DEF CompleteCall, AfterMessage, Complete, Message,
     AsyncMessage, TimerMessage, SyncMessage, NoMessage
<1>9. ASSUME RunDueTasks PROVE TypeOK' /\ LoopInv'
  BY <1>3, <1>9 DEF RunDueTasks, AfterMessage, ArmTimer
<1>10. ASSUME Recycle PROVE TypeOK' /\ LoopInv'
  BY <1>3, <1>10 DEF Recycle, AfterMessage, Complete, Message, AsyncMessage,
     TimerMessage, SyncMessage, NoMessage
<1>11. ASSUME DrainPop PROVE TypeOK' /\ LoopInv'
  <2>1. /\ ring' \in Seq(Message) /\ Len(ring') <= Capacity
        /\ loopMsg' \in Message \cup {NoMessage}
    BY <1>3, <1>11, RingShrinks DEF DrainPop
  <2>2. QED
    BY <1>3, <1>11, <2>1 DEF DrainPop
<1>12. ASSUME LoopExit PROVE TypeOK' /\ LoopInv'
  BY <1>3, <1>12 DEF LoopExit
<1>13. QED
  BY <1>2, <1>4, <1>5, <1>6, <1>7, <1>8, <1>9, <1>10, <1>11, <1>12
     DEF LoopStep, Shape

\* The owner's steps.
LEMMA ShapeOwner ==
    ASSUME Shape, InitHandler \/ Stop \/ OwnerStep
    PROVE  Shape' /\ CallsKept
<1> USE HandlerAssumption DEF TypeOK, LoopPc, OwnerPc, lifeVars, queueVars,
        waiterVars, ctxVars, timerVars, callVars, loopVars
<1>1. UNCHANGED callVars
  BY DEF OwnerStep, StopStep, InitHandler, CreateLoopTask, RollbackInit, Stop,
     StopTimer, DropDelayed, WakeLoop, StopPoll, StopGiveUp, StopRelease
<1>2. CallInv' /\ CallsKept
  BY <1>1 DEF Shape, CallInv, CallsKept
<1>3. UNCHANGED loopMsg /\ (lpc' = lpc \/ lpc' = "wait")
  BY DEF OwnerStep, StopStep, InitHandler, CreateLoopTask, RollbackInit, Stop,
     StopTimer, DropDelayed, WakeLoop, StopPoll, StopGiveUp, StopRelease
<1>4. LoopInv'
  BY <1>3 DEF Shape, LoopInv
<1>5. TypeOK
  BY DEF Shape
<1>6. ASSUME InitHandler PROVE TypeOK'
  BY <1>5, <1>6 DEF InitHandler
<1>7. ASSUME CreateLoopTask PROVE TypeOK'
  BY <1>5, <1>7 DEF CreateLoopTask
<1>8. ASSUME RollbackInit PROVE TypeOK'
  <2>1. ring' \in Seq(Message) /\ Len(ring') <= Capacity
    BY <1>5, <1>8, RingEmpties DEF RollbackInit, ReleaseObjects
  <2>2. queueSem' \in 0 .. Capacity /\ waiterInUse' = {} /\ waiterSems' = {}
    BY <1>5, <1>8 DEF RollbackInit, ReleaseObjects, Capacity
  <2>3. QED
    BY <1>5, <1>8, <2>1, <2>2 DEF RollbackInit, ReleaseObjects
<1>9. ASSUME Stop PROVE TypeOK'
  BY <1>5, <1>9 DEF Stop
<1>10. ASSUME StopTimer PROVE TypeOK'
  BY <1>5, <1>10 DEF StopTimer
<1>11. ASSUME DropDelayed PROVE TypeOK'
  BY <1>5, <1>11 DEF DropDelayed
<1>12. ASSUME WakeLoop PROVE TypeOK'
  BY <1>5, <1>12 DEF WakeLoop, SemPostQueue, Capacity
<1>13. ASSUME StopPoll PROVE TypeOK'
  BY <1>5, <1>13 DEF StopPoll, WaitNext
<1>14. ASSUME StopGiveUp PROVE TypeOK'
  BY <1>5, <1>14 DEF StopGiveUp, WaitNext
<1>15. ASSUME StopRelease PROVE TypeOK'
  <2>1. ring' \in Seq(Message) /\ Len(ring') <= Capacity
    BY <1>5, <1>15, RingEmpties DEF StopRelease, ReleaseObjects
  <2>2. queueSem' \in 0 .. Capacity /\ waiterInUse' = {} /\ waiterSems' = {}
    BY <1>5, <1>15 DEF StopRelease, ReleaseObjects, Capacity
  <2>3. QED
    BY <1>5, <1>15, <2>1, <2>2 DEF StopRelease, ReleaseObjects
<1>16. QED
  BY <1>2, <1>4, <1>6, <1>7, <1>8, <1>9, <1>10, <1>11, <1>12, <1>13, <1>14,
     <1>15
     DEF OwnerStep, StopStep, Shape

\* The type invariant is inductive.
LEMMA TypeInvStep ==
    ASSUME TypeInv, [Next]_vars
    PROVE  TypeInv'
<1>1. ASSUME NEW t \in Callers, BeginCall(t) PROVE TypeInv'
  <2>1. PICK kind \in PostKinds : Begin(t, kind)
    BY <1>1 DEF BeginCall
  <2>2. kind \in CallOp \ {"none"} /\ t \in Threads
    BY HandlerAssumption DEF CallOp, Threads
  <2>3. timerArmed' \in BOOLEAN
    BY <1>1 DEF BeginCall, TypeInv, Shape, TypeOK
  <2>4. QED
    BY <2>1, <2>2, <2>3, ShapeBegin
<1>2. ASSUME TimerExpired PROVE TypeInv'
  BY <1>2, ShapeBegin DEF TimerExpired, CallOp, Threads
<1>3. ASSUME NEW t \in Threads, CallStep(t) PROVE TypeInv'
  <2>1. CASE Leave(t)
    <3>1. TypeOK /\ CallInv /\ LoopInv /\ CountInv
      BY DEF TypeInv, Shape
    <3>2. activeCalls' \in Nat /\ CountInv'
      BY <2>1, <3>1, CountLeave
    <3>3. Shape'
      BY <2>1, <3>1, <3>2, HandlerAssumption DEF Shape, TypeOK, CallInv,
         LoopInv, Leave, Goto, CallPc, CallOp, Status, Slots, lifeVars,
         queueVars, waiterVars, ctxVars, timerVars, loopVars
    <3>4. QED
      BY <3>2, <3>3 DEF TypeInv
  <2>2. CASE ~Leave(t)
    BY <1>3, <2>2, ShapeCall, CountKept DEF TypeInv
  <2>3. QED
    BY <2>1, <2>2
<1>4. ASSUME LoopStep PROVE TypeInv'
  BY <1>4, ShapeLoop, CountKept DEF TypeInv
<1>5. ASSUME InitHandler \/ Stop \/ OwnerStep PROVE TypeInv'
  BY <1>5, ShapeOwner, CountKept DEF TypeInv
<1>6. ASSUME UNCHANGED vars PROVE TypeInv'
  <2>1. Shape' /\ CallsKept
    BY <1>6 DEF TypeInv, Shape, CallsKept, TypeOK, CallInv, LoopInv, vars,
       lifeVars, queueVars, waiterVars, ctxVars, timerVars, callVars, loopVars
  <2>2. QED
    BY <2>1, CountKept DEF TypeInv
<1>7. QED
  BY <1>1, <1>2, <1>3, <1>4, <1>5, <1>6 DEF Next

\* It holds when the handler object is constructed.
LEMMA TypeInvInit == Init => TypeInv
<1> SUFFICES ASSUME Init PROVE TypeInv
  OBVIOUS
<1> USE HandlerAssumption DEF Init
<1>1. ring \in Seq(Message) /\ Len(ring) <= Capacity
  BY DEF Capacity
<1>2. 1 \in Slots /\ 0 \in 0 .. Capacity /\ 0 \in 0 .. MaxDelayedTasks
  BY DEF Slots, Capacity
<1>3. TypeOK
  BY <1>1, <1>2 DEF TypeOK, OwnerPc, Status, CallPc, CallOp, LoopPc
<1>4. CallInv /\ LoopInv
  BY DEF CallInv, LoopInv
<1>5. Active = {}
  BY DEF Active
<1>6. CountInv
  BY <1>5, FS_EmptySet DEF CountInv
<1>7. QED
  BY <1>3, <1>4, <1>6 DEF TypeInv, Shape

\* The types and the bounds of the ring, its semaphore, the waiter pool and
\* the delayed table hold in every reachable state, for pools of every size
\* and every number of posting tasks (Init, Enqueue, PostAsyncTask,
\* AcquireWaiter).
THEOREM TypeCorrect == Spec => []TypeOK
<1>1. Init => TypeInv
  BY TypeInvInit
<1>2. TypeInv /\ [Next]_vars => TypeInv'
  BY TypeInvStep
<1>3. TypeInv => TypeOK
  BY DEF TypeInv, Shape
<1>4. QED
  BY <1>1, <1>2, <1>3, PTL DEF Spec

-----------------------------------------------------------------------------
(***************************************************************************)
(* The life cycle. As long as the kernel gives Init its loop task, objects *)
(* go only when Stop has seen the loop end and then, once, no call in      *)
(* progress: what begins afterwards finds the state STOPPING and returns   *)
(* without touching them.                                                  *)
(***************************************************************************)
Quiet(t) == pc[t] \in {"idle", "load", "leave"}
AllQuiet == \A t \in Threads : Quiet(t)
StopPc == {"timer", "drop", "post", "loop", "active", "queued", "waiters",
           "release"}

Clean ==
    /\ ring = <<>> /\ queueSem = 0
    /\ waiterInUse = {} /\ waiterSems = {}
    /\ ~timerArmed /\ ~timerQueued

LifeInv ==
    /\ ~objects => state = "UNINIT"
    /\ state = "UNINIT" => /\ owner = "idle" /\ ~loopRunning
                           /\ AllQuiet /\ Clean
    /\ owner \in StopPc => state = "STOPPING"
    /\ owner = "create" => state = "RUNNING" /\ lpc = "off" /\ loopRunning
    /\ owner # "rollback"
    /\ owner \in {"active", "queued", "waiters", "release"} => ~loopRunning
    /\ owner \in {"queued", "waiters", "release"} => AllQuiet
    /\ lpc # "off" => loopRunning

\* A step of a call that is past its state check: the handler is not released
\* and Stop has not passed its wait for the calls in progress.
LEMMA LifeBusyCall ==
    ASSUME LifeInv, NEW t \in Threads, ~Quiet(t),
           UNCHANGED <<lifeVars, loopVars>>
    PROVE  LifeInv'
<1>1. ~AllQuiet
  BY DEF AllQuiet
<1>2. QED
  BY <1>1 DEF LifeInv, lifeVars, loopVars

\* A step of a call that has not passed it or is on its way out.
LEMMA LifeQuietCall ==
    ASSUME LifeInv, UNCHANGED <<lifeVars, loopVars>>, AllQuiet => AllQuiet',
           state = "UNINIT" /\ Clean => Clean'
    PROVE  LifeInv'
  BY DEF LifeInv, lifeVars, loopVars

\* The steps of the posting calls.
LEMMA LifeCall ==
    ASSUME TypeInv, LifeInv, NEW t \in Threads, CallStep(t)
    PROVE  LifeInv'
<1>1. pc \in [Threads -> CallPc]
  BY DEF TypeInv, Shape, TypeOK
<1>2. CASE LoadState(t)
  <2>1. UNCHANGED <<lifeVars, loopVars>> /\ (Clean => Clean')
    BY <1>2 DEF LoadState, Clean, queueVars, waiterVars, timerVars
  <2>2. CASE state # "RUNNING"
    <3>1. AllQuiet => AllQuiet'
      BY <1>1, <1>2, <2>2 DEF LoadState, Return, Goto, AllQuiet, Quiet
    <3>2. QED
      BY <2>1, <3>1, LifeQuietCall
  <2>3. CASE state = "RUNNING"
    BY <2>1, <2>3 DEF LifeInv, StopPc, lifeVars, loopVars
  <2>4. QED
    BY <2>2, <2>3
<1>3. CASE Leave(t)
  <2>1. UNCHANGED <<lifeVars, loopVars>> /\ (Clean => Clean')
    BY <1>3 DEF Leave, Clean, queueVars, waiterVars, timerVars
  <2>2. AllQuiet => AllQuiet'
    BY <1>1, <1>3 DEF Leave, Goto, AllQuiet, Quiet
  <2>3. QED
    BY <2>1, <2>2, LifeQuietCall
<1>4. CASE ~LoadState(t) /\ ~Leave(t)
  <2>1. ~Quiet(t) /\ UNCHANGED <<lifeVars, loopVars>>
    BY <1>4 DEF CallStep, ClaimTimerMessage, PostDelayed, RemoveDelayed,
       AcquireWaiter, Allocate, EnqueueCheck, EnqueuePush, EnqueuePost,
       FreeSlot, RearmTimer, SemWait, FinishWait, Quiet
  <2>2. QED
    BY <2>1, LifeBusyCall
<1>5. QED
  BY <1>2, <1>3, <1>4

\* The beginning of a call.
LEMMA LifeBegin ==
    ASSUME TypeInv, LifeInv, NEW t \in Threads, NEW kind, Begin(t, kind),
           timerArmed => state # "UNINIT" \/ ~Clean,
           timerArmed' => timerArmed
    PROVE  LifeInv'
<1>1. UNCHANGED <<lifeVars, loopVars>>
  BY DEF Begin
<1>2. pc \in [Threads -> CallPc]
  BY DEF TypeInv, Shape, TypeOK
<1>3. AllQuiet => AllQuiet'
  BY <1>2 DEF Begin, Goto, AllQuiet, Quiet
<1>4. Clean => Clean'
  BY DEF Begin, Clean, queueVars, waiterVars
<1>5. QED
  BY <1>1, <1>3, <1>4, LifeQuietCall

\* The loop task's steps: while it runs, Stop has not passed its wait for it.
LEMMA LifeLoop ==
    ASSUME TypeInv, LifeInv, LoopStep
    PROVE  LifeInv'
<1>1. UNCHANGED <<lifeVars, callVars>>
  BY DEF LoopStep, LoopWait, LoopPop, Dispatch, RunTask, CompleteCall,
     RunDueTasks, Recycle, DrainPop, LoopExit
<1>2. lpc # "off"
  BY DEF LoopStep, LoopWait, LoopPop, Dispatch, RunTask, CompleteCall,
     RunDueTasks, Recycle, DrainPop, LoopExit
<1>3. loopRunning' = loopRunning \/ (lpc' = "off" /\ loopRunning' = FALSE)
  BY DEF LoopStep, LoopWait, LoopPop, Dispatch, RunTask, CompleteCall,
     RunDueTasks, Recycle, DrainPop, LoopExit
<1>4. AllQuiet' = AllQuiet
  BY <1>1 DEF AllQuiet, Quiet, callVars
<1>5. /\ loopRunning
      /\ state # "UNINIT" /\ owner # "create"
      /\ owner \notin {"active", "queued", "waiters", "release"}
  BY <1>2 DEF LifeInv
<1>6. QED
  BY <1>1, <1>3, <1>4, <1>5 DEF LifeInv, lifeVars

\* The owner's steps.
LEMMA LifeOwner ==
    ASSUME ~TaskCreateCanFail, TypeInv, LifeInv,
           InitHandler \/ Stop \/ OwnerStep
    PROVE  LifeInv'
<1> USE DEF LifeInv, StopPc, callVars, loopVars
<1>1. UNCHANGED callVars
  BY DEF OwnerStep, StopStep, InitHandler, CreateLoopTask, RollbackInit, Stop,
     StopTimer, DropDelayed, WakeLoop, StopPoll, StopGiveUp, StopRelease
<1>2. AllQuiet' = AllQuiet
  BY <1>1 DEF AllQuiet, Quiet
<1>3. ASSUME InitHandler PROVE LifeInv'
  <2>1. lpc = "off"
    BY <1>3 DEF InitHandler
  <2>2. QED
    BY <1>2, <1>3, <2>1 DEF InitHandler
<1>4. ASSUME CreateLoopTask PROVE LifeInv'
  BY <1>2, <1>4, HandlerAssumption DEF CreateLoopTask
<1>5. ASSUME RollbackInit PROVE LifeInv'
  BY <1>5 DEF RollbackInit
<1>6. ASSUME Stop PROVE LifeInv'
  BY <1>2, <1>6 DEF Stop
<1>7. ASSUME StopTimer PROVE LifeInv'
  BY <1>2, <1>7 DEF StopTimer
<1>8. ASSUME DropDelayed PROVE LifeInv'
  BY <1>2, <1>8 DEF DropDelayed
<1>9. ASSUME WakeLoop PROVE LifeInv'
  BY <1>2, <1>9 DEF WakeLoop
<1>10. ASSUME StopPoll PROVE LifeInv'
  <2>1. CASE owner = "active" /\ activeCalls = 0
    <3>1. AllQuiet
      BY <2>1, NoCalls DEF TypeInv, AllQuiet, Quiet
    <3>2. QED
      BY <1>2, <1>10, <2>1, <3>1 DEF StopPoll, WaitNext
  <2>2. CASE owner = "active" /\ activeCalls # 0
    BY <1>10, <2>2 DEF StopPoll, WaitConditions
  <2>3. CASE owner \in {"queued", "waiters"}
    BY <1>2, <1>10, <2>3 DEF StopPoll, WaitNext
  <2>4. CASE owner = "loop"
    BY <1>2, <1>10, <2>4 DEF StopPoll, WaitNext, WaitConditions
  <2>5. QED
    BY <1>10, <2>1, <2>2, <2>3, <2>4 DEF StopPoll, WaitNext
<1>11. ASSUME StopGiveUp PROVE LifeInv'
  BY <1>2, <1>11 DEF StopGiveUp, WaitNext
<1>12. ASSUME StopRelease PROVE LifeInv'
  <2>1. Clean'
    BY <1>12 DEF StopRelease, ReleaseObjects, Clean
  <2>2. QED
    BY <1>2, <1>12, <2>1 DEF StopRelease, ReleaseObjects
<1>13. QED
  BY <1>3, <1>4, <1>5, <1>6, <1>7, <1>8, <1>9, <1>10, <1>11, <1>12
     DEF OwnerStep, StopStep

\* The life-cycle invariant is inductive.
LEMMA LifeInvStep ==
    ASSUME ~TaskCreateCanFail, TypeInv, LifeInv, [Next]_vars
    PROVE  LifeInv'
<1>1. ASSUME NEW t \in Callers, BeginCall(t) PROVE LifeInv'
  BY <1>1, LifeBegin DEF BeginCall, Threads, Clean
<1>2. ASSUME TimerExpired PROVE LifeInv'
  BY <1>2, LifeBegin DEF TimerExpired, Threads, Clean
<1>3. ASSUME NEW t \in Threads, CallStep(t) PROVE LifeInv'
  BY <1>3, LifeCall
<1>4. ASSUME LoopStep PROVE LifeInv'
  BY <1>4, LifeLoop
<1>5. ASSUME InitHandler \/ Stop \/ OwnerStep PROVE LifeInv'
  BY <1>5, LifeOwner
<1>6. ASSUME UNCHANGED vars PROVE LifeInv'
  BY <1>6 DEF vars, lifeVars, queueVars, waiterVars, timerVars, callVars,
     loopVars, LifeInv, AllQuiet, Quiet, Clean
<1>7. QED
  BY <1>1, <1>2, <1>3, <1>4, <1>5, <1>6 DEF Next

\* It holds when the handler object is constructed.
LEMMA LifeInvInit == Init => LifeInv
  BY DEF Init, LifeInv, StopPc, AllQuiet, Quiet, Clean

\* When Init gets its loop task, no posting call and no loop step ever meets a
\* deleted kernel object, however many tasks post while Stop runs
\* (LosEventHandlerCall, Stop, ReleaseObjects).
THEOREM ReleaseIsSafe ==
    ASSUME ~TaskCreateCanFail
    PROVE  Spec => []NoUseAfterRelease
<1>1. Init => TypeInv /\ LifeInv
  BY TypeInvInit, LifeInvInit
<1>2. TypeInv /\ LifeInv /\ [Next]_vars => (TypeInv /\ LifeInv)'
  BY TypeInvStep, LifeInvStep
<1>3. LifeInv => NoUseAfterRelease
  BY DEF LifeInv, NoUseAfterRelease, AllQuiet, Quiet
<1>4. QED
  BY <1>1, <1>2, <1>3, PTL DEF Spec

\* Under the same assumption every Init finds an empty ring, no signal, no
\* waiter slot in use and no timer running (ReleaseObjects).
THEOREM InitStartsClean ==
    ASSUME ~TaskCreateCanFail
    PROVE  Spec => []UninitIsClean
<1>1. Init => TypeInv /\ LifeInv
  BY TypeInvInit, LifeInvInit
<1>2. TypeInv /\ LifeInv /\ [Next]_vars => (TypeInv /\ LifeInv)'
  BY TypeInvStep, LifeInvStep
<1>3. LifeInv => UninitIsClean
  BY DEF LifeInv, UninitIsClean, Clean
<1>4. QED
  BY <1>1, <1>2, <1>3, PTL DEF Spec

-----------------------------------------------------------------------------
(***************************************************************************)
(* The timer message.  There is one, and at any moment it is either in the *)
(* ring, in the loop's hand or claimed by the timer callback; so when the  *)
(* callback comes to push it the extra slot of the ring is still free.     *)
(***************************************************************************)
HasTimer(q) == \E i \in 1 .. Len(q) : q[i] = TimerMessage
OneTimer(q) ==
    \A i, j \in 1 .. Len(q) :
        q[i] = TimerMessage /\ q[j] = TimerMessage => i = j

InHand == lpc \in {"dispatch", "recycle"} /\ loopMsg = TimerMessage
Claimed == pc[TimerTask] \in {"check", "push", "rearm"}

TimerOps ==
    /\ \A t \in Threads : /\ op[t] = "timer" => t = TimerTask
                          /\ pc[t] \in {"exchange", "rearm"} => op[t] = "timer"
    /\ op[TimerTask] \in {"timer", "none"}

TimerPlace ==
    /\ HasTimer(ring) \/ InHand \/ Claimed => timerQueued
    /\ HasTimer(ring) => ~InHand /\ ~Claimed
    /\ InHand => ~Claimed
    /\ OneTimer(ring)
    /\ Len(ring) > QueueSize => HasTimer(ring)

TimerInv == TimerOps /\ TimerPlace

\* Popping a message.
LEMMA TimerTail ==
    ASSUME NEW q \in Seq(Message), q # <<>>, OneTimer(q)
    PROVE  /\ OneTimer(Tail(q))
           /\ HasTimer(Tail(q)) => HasTimer(q)
           /\ Head(q) = TimerMessage => HasTimer(q) /\ ~HasTimer(Tail(q))
<1>1. /\ Len(q) \in Nat /\ Len(q) > 0 /\ Len(Tail(q)) = Len(q) - 1
      /\ Head(q) = q[1]
      /\ \A i \in 1 .. Len(Tail(q)) : Tail(q)[i] = q[i + 1]
  OBVIOUS
<1>2. OneTimer(Tail(q))
  <2> SUFFICES ASSUME NEW i \in 1 .. Len(Tail(q)), NEW j \in 1 .. Len(Tail(q)),
                      Tail(q)[i] = TimerMessage, Tail(q)[j] = TimerMessage
               PROVE  i = j
    BY DEF OneTimer
  <2>1. q[i + 1] = TimerMessage /\ q[j + 1] = TimerMessage
    BY <1>1
  <2>2. i + 1 \in 1 .. Len(q) /\ j + 1 \in 1 .. Len(q)
    BY <1>1
  <2>3. i + 1 = j + 1
    BY <2>1, <2>2 DEF OneTimer
  <2>4. QED
    BY <1>1, <2>3
<1>3. ASSUME HasTimer(Tail(q)) PROVE HasTimer(q) /\ Head(q) # TimerMessage
  <2>1. PICK i \in 1 .. Len(Tail(q)) : Tail(q)[i] = TimerMessage
    BY <1>3 DEF HasTimer
  <2>2. q[i + 1] = TimerMessage /\ i + 1 \in 1 .. Len(q) /\ i + 1 # 1
    BY <1>1, <2>1
  <2>3. 1 \in 1 .. Len(q)
    BY <1>1
  <2>4. QED
    BY <1>1, <2>2, <2>3 DEF HasTimer, OneTimer
<1>4. ASSUME Head(q) = TimerMessage PROVE HasTimer(q)
  <2>1. 1 \in 1 .. Len(q)
    BY <1>1
  <2>2. QED
    BY <1>1, <1>4, <2>1 DEF HasTimer
<1>5. QED
  BY <1>2, <1>3, <1>4

\* Pushing a message.
LEMMA TimerAppend ==
    ASSUME NEW q \in Seq(Message), NEW m \in Message, OneTimer(q),
           m = TimerMessage => ~HasTimer(q)
    PROVE  /\ OneTimer(Append(q, m))
           /\ HasTimer(Append(q, m)) <=> HasTimer(q) \/ m = TimerMessage
<1>1. /\ Len(q) \in Nat /\ Len(Append(q, m)) = Len(q) + 1
      /\ Append(q, m)[Len(q) + 1] = m
      /\ \A i \in 1 .. Len(q) : Append(q, m)[i] = q[i]
  OBVIOUS
<1>2. \A i \in 1 .. Len(q) + 1 : i \in 1 .. Len(q) \/ i = Len(q) + 1
  BY <1>1
<1>3. OneTimer(Append(q, m))
  BY <1>1, <1>2 DEF OneTimer, HasTimer
<1>4. HasTimer(Append(q, m)) => HasTimer(q) \/ m = TimerMessage
  BY <1>1, <1>2 DEF HasTimer
<1>5. HasTimer(q) => HasTimer(Append(q, m))
  BY <1>1 DEF HasTimer
<1>6. Len(q) + 1 \in 1 .. Len(q) + 1
  BY <1>1
<1>7. m = TimerMessage => HasTimer(Append(q, m))
  BY <1>1, <1>6 DEF HasTimer
<1>8. QED
  BY <1>3, <1>4, <1>5, <1>7

\* Only the timer task runs OnTimerExpired.
LEMMA TimerOpsStep ==
    ASSUME TypeInv, TimerOps, [Next]_vars
    PROVE  TimerOps'
<1> USE DEF TimerOps
<1>1. /\ pc \in [Threads -> CallPc] /\ op \in [Threads -> CallOp]
      /\ CallInv /\ TimerTask \in Threads
  BY DEF TypeInv, Shape, TypeOK, Threads
<1>2. ASSUME NEW t \in Callers, BeginCall(t) PROVE TimerOps'
  <2>1. PICK kind \in PostKinds : Begin(t, kind)
    BY <1>2 DEF BeginCall
  <2>2. kind # "timer" /\ t # TimerTask /\ t \in Threads
    BY HandlerAssumption DEF Threads
  <2>3. QED
    BY <1>1, <2>1, <2>2 DEF Begin, Goto
<1>3. ASSUME TimerExpired PROVE TimerOps'
  BY <1>1, <1>3 DEF TimerExpired, Begin, Goto
<1>4. ASSUME NEW t \in Threads, LoadState(t) PROVE TimerOps'
  BY <1>1, <1>4 DEF LoadState, Return, Goto, FirstStep, CallInv, CallOp
<1>5. ASSUME NEW t \in Threads, Leave(t) PROVE TimerOps'
  BY <1>1, <1>5 DEF Leave, Goto
<1>6. ASSUME NEW t \in Threads, CallStep(t), ~LoadState(t), ~Leave(t)
      PROVE  TimerOps'
  <2>1. op' = op /\ pc' \in [Threads -> CallPc]
    BY <1>6, ShapeCall DEF TypeInv, Shape, TypeOK, CallStep,
       ClaimTimerMessage, PostDelayed, RemoveDelayed, AcquireWaiter, Allocate,
       EnqueueCheck, EnqueuePush, EnqueuePost, FreeSlot, RearmTimer, SemWait,
       FinishWait
  <2>2. \A u \in Threads : u # t => pc'[u] = pc[u]
    BY <1>1, <1>6 DEF CallStep, ClaimTimerMessage, PostDelayed, RemoveDelayed,
       AcquireWaiter, Allocate, EnqueueCheck, EnqueuePush, EnqueuePost,
       FreeSlot, RearmTimer, SemWait, FinishWait, Goto, Return, EnqueueFailed
  <2>3. pc'[t] \in {"exchange", "rearm"} => op[t] = "timer"
    BY <1>1, <1>6 DEF CallStep, ClaimTimerMessage, PostDelayed, RemoveDelayed,
       AcquireWaiter, Allocate, EnqueueCheck, EnqueuePush, EnqueuePost,
       FreeSlot, RearmTimer, SemWait, FinishWait, Goto, Return, EnqueueFailed
  <2>4. QED
    BY <2>1, <2>2, <2>3
<1>7. ASSUME UNCHANGED <<pc, op>> PROVE TimerOps'
  BY <1>7
<1>8. LoopStep \/ InitHandler \/ Stop \/ OwnerStep \/ UNCHANGED vars
        => UNCHANGED <<pc, op>>
  BY DEF LoopStep, LoopWait, LoopPop, Dispatch, RunTask, CompleteCall,
     RunDueTasks, Recycle, DrainPop, LoopExit, OwnerStep, StopStep,
     InitHandler, CreateLoopTask, RollbackInit, Stop, StopTimer, DropDelayed,
     WakeLoop, StopPoll, StopGiveUp, StopRelease, vars, callVars
<1>9. QED
  BY <1>2, <1>3, <1>4, <1>5, <1>6, <1>7, <1>8 DEF Next

\* The steps of the posting calls move the message from the callback's hand
\* into the ring, or put it back.
LEMMA TimerPlaceCall ==
    ASSUME TypeInv, TimerInv, NEW t \in Threads, CallStep(t)
    PROVE  TimerPlace'
<1>1. /\ pc \in [Threads -> CallPc] /\ TimerTask \in Threads
      /\ ring \in Seq(Message) /\ timerQueued \in BOOLEAN
      /\ CallInv /\ TimerOps /\ TimerPlace
  BY DEF TypeInv, TimerInv, Shape, TypeOK, Threads
<1>2. UNCHANGED loopVars
  BY DEF CallStep, LoadState, ClaimTimerMessage, PostDelayed, RemoveDelayed,
     AcquireWaiter, Allocate, EnqueueCheck, EnqueuePush, EnqueuePost,
     FreeSlot, RearmTimer, SemWait, FinishWait, Leave
<1>3. InHand' = InHand
  BY <1>2 DEF InHand, loopVars
<1>4. ASSUME UNCHANGED <<ring, timerQueued>>, Claimed' => Claimed
      PROVE  TimerPlace'
  BY <1>1, <1>3, <1>4 DEF TimerPlace
<1>5. CASE ClaimTimerMessage(t)
  <2>1. t = TimerTask /\ ring' = ring /\ timerQueued' = TRUE
    BY <1>1, <1>5 DEF ClaimTimerMessage, TimerOps, queueVars
  <2>2. CASE timerQueued
    <3>1. ~Claimed'
      BY <1>1, <1>5, <2>1, <2>2 DEF ClaimTimerMessage, Return, Goto, Claimed
    <3>2. QED
      BY <1>1, <1>3, <2>1, <2>2, <3>1 DEF TimerPlace
  <2>3. CASE ~timerQueued
    BY <1>1, <1>3, <2>1, <2>3 DEF TimerPlace
  <2>4. QED
    BY <2>2, <2>3
<1>6. CASE EnqueuePush(t)
  <2>1. timerQueued' = timerQueued
    BY <1>6 DEF EnqueuePush, timerVars
  <2>2. CASE ring' = ring
    <3>1. Claimed' => Claimed
      BY <1>1, <1>6 DEF EnqueuePush, EnqueueFailed, Goto, Claimed
    <3>2. QED
      BY <1>4, <2>1, <2>2, <3>1
  <2>3. CASE /\ Len(ring) < Limit(t)
             /\ ring' = Append(ring, MessageOf(t))
             /\ Goto(t, "post")
    <3>1. MessageOf(t) \in Message
      <4>1. CASE op[t] = "sync"
        BY <1>1, <1>6, <4>1 DEF EnqueuePush, MessageOf, Message, CallInv
      <4>2. CASE op[t] # "sync"
        BY <4>2 DEF MessageOf, Message
      <4>3. QED
        BY <4>1, <4>2
    <3>2. Len(ring) \in Nat /\ Len(ring') = Len(ring) + 1
      BY <1>1, <2>3, <3>1
    <3>3. CASE op[t] = "timer"
      <4>1. t = TimerTask /\ MessageOf(t) = TimerMessage
        BY <1>1, <3>3 DEF TimerOps, MessageOf
      <4>2. Claimed /\ ~Claimed'
        BY <1>1, <1>6, <2>3, <4>1 DEF Claimed, EnqueuePush, Goto
      <4>3. ~HasTimer(ring) /\ ~InHand /\ timerQueued
        BY <1>1, <4>2 DEF TimerPlace
      <4>4. HasTimer(ring') /\ OneTimer(ring')
        BY <1>1, <2>3, <3>1, <4>1, <4>3, TimerAppend DEF TimerPlace
      <4>5. QED
        BY <1>3, <2>1, <4>2, <4>3, <4>4 DEF TimerPlace
    <3>4. CASE op[t] # "timer"
      <4>1. MessageOf(t) # TimerMessage
        BY <3>4 DEF MessageOf, TimerMessage, SyncMessage, AsyncMessage
      <4>2. Claimed' = Claimed
        <5>1. t # TimerTask
          BY <1>1, <1>6, <3>4 DEF TimerOps, EnqueuePush, CallInv
        <5>2. QED
          BY <1>1, <2>3, <5>1 DEF Claimed, Goto
      <4>3. OneTimer(ring') /\ (HasTimer(ring') <=> HasTimer(ring))
        BY <1>1, <2>3, <3>1, <4>1, TimerAppend DEF TimerPlace
      <4>4. Len(ring') <= QueueSize
        BY <2>3, <3>2, <3>4, HandlerAssumption DEF Limit
      <4>5. ~(Len(ring') > QueueSize)
        BY <3>2, <4>4, HandlerAssumption
      <4>6. QED
        BY <1>1, <1>3, <2>1, <4>2, <4>3, <4>5 DEF TimerPlace
    <3>5. QED
      BY <3>3, <3>4
  <2>4. QED
    BY <1>6, <2>2, <2>3 DEF EnqueuePush
<1>7. CASE RearmTimer(t)
  <2>1. t = TimerTask /\ ring' = ring /\ timerQueued' = FALSE
    BY <1>1, <1>7 DEF RearmTimer, TimerOps, queueVars
  <2>2. Claimed /\ ~Claimed'
    BY <1>1, <1>7, <2>1 DEF RearmTimer, Goto, Claimed
  <2>3. QED
    BY <1>1, <1>3, <2>1, <2>2 DEF TimerPlace
<1>8. CASE ~ClaimTimerMessage(t) /\ ~EnqueuePush(t) /\ ~RearmTimer(t)
  <2>1. UNCHANGED <<ring, timerQueued>>
    BY <1>8 DEF CallStep, LoadState, PostDelayed, RemoveDelayed,
       AcquireWaiter, Allocate, EnqueueCheck, EnqueuePost, FreeSlot, SemWait,
       FinishWait, Leave, queueVars, timerVars
  <2>2. Claimed' => Claimed
    <3>1. CASE LoadState(t)
      BY <1>1, <3>1 DEF LoadState, Return, Goto, FirstStep, Claimed, TimerOps,
         CallInv
    <3>2. CASE Allocate(t)
      BY <1>1, <3>2 DEF Allocate, Goto, Claimed, TimerOps, CallInv
    <3>3. CASE ~LoadState(t) /\ ~Allocate(t)
      BY <1>1, <1>8, <3>3 DEF CallStep, PostDelayed, RemoveDelayed,
         AcquireWaiter, EnqueueCheck, EnqueuePost, FreeSlot, SemWait,
         FinishWait, Leave, Return, EnqueueFailed, Goto, Claimed
    <3>4. QED
      BY <3>1, <3>2, <3>3
  <2>3. QED
    BY <1>4, <2>1, <2>2
<1>9. QED
  BY <1>5, <1>6, <1>7, <1>8

\* The loop takes it out of the ring and lets it go.
LEMMA TimerPlaceLoop ==
    ASSUME TypeInv, TimerInv, LoopStep
    PROVE  TimerPlace'
<1>1. /\ ring \in Seq(Message) /\ timerQueued \in BOOLEAN /\ TimerPlace
  BY DEF TypeInv, TimerInv, Shape, TypeOK
<1>2. Claimed' = Claimed
  BY DEF LoopStep, LoopWait, LoopPop, Dispatch, RunTask, CompleteCall,
     RunDueTasks, Recycle, DrainPop, LoopExit, callVars, Claimed
<1>3. CASE LoopPop \/ DrainPop
  <2>1. UNCHANGED timerQueued /\ ~InHand
    BY <1>3 DEF LoopPop, DrainPop, timerVars, InHand
  <2>2. CASE ring # <<>>
    <3>1. ring' = Tail(ring) /\ loopMsg' = Head(ring)
      BY <1>3, <2>2 DEF LoopPop, DrainPop
    <3>2. /\ OneTimer(ring')
          /\ HasTimer(ring') => HasTimer(ring)
          /\ loopMsg' = TimerMessage => HasTimer(ring) /\ ~HasTimer(ring')
      BY <1>1, <2>2, <3>1, TimerTail DEF TimerPlace
    <3>3. ~(Len(ring') > QueueSize)
      BY <1>1, <2>2, <3>1, HandlerAssumption DEF TypeInv, Shape, TypeOK,
         Capacity
    <3>4. InHand' => loopMsg' = TimerMessage
      BY DEF InHand
    <3>5. QED
      BY <1>1, <1>2, <2>1, <3>2, <3>3, <3>4 DEF TimerPlace
  <2>3. CASE ring = <<>>
    <3>1. ring' = ring /\ ~InHand'
      BY <1>3, <2>3 DEF LoopPop, DrainPop, InHand
    <3>2. QED
      BY <1>1, <1>2, <2>1, <3>1 DEF TimerPlace
  <2>4. QED
    BY <2>2, <2>3
<1>4. CASE Dispatch
  <2>1. ring' = ring
    BY <1>4 DEF Dispatch, queueVars
  <2>2. CASE state # "RUNNING"
    <3>1. UNCHANGED timerQueued /\ (InHand' => InHand)
      BY <1>4, <2>2 DEF Dispatch, InHand
    <3>2. QED
      BY <1>1, <1>2, <2>1, <3>1 DEF TimerPlace
  <2>3. CASE state = "RUNNING" /\ loopMsg.kind = "TIMER_FIRE"
    <3>1. timerQueued' = FALSE /\ ~InHand'
      BY <1>4, <2>3 DEF Dispatch, InHand
    <3>2. InHand
      BY <1>4, <2>3 DEF Dispatch, InHand, TypeInv, Shape, TypeOK, Message,
         NoMessage, AsyncMessage, SyncMessage, TimerMessage
    <3>3. QED
      BY <1>1, <1>2, <2>1, <3>1, <3>2 DEF TimerPlace
  <2>4. CASE state = "RUNNING" /\ loopMsg.kind # "TIMER_FIRE"
    <3>1. UNCHANGED timerQueued /\ ~InHand'
      BY <1>4, <2>4 DEF Dispatch, InHand
    <3>2. QED
      BY <1>1, <1>2, <2>1, <3>1 DEF TimerPlace
  <2>5. QED
    BY <2>2, <2>3, <2>4
<1>5. CASE Recycle
  <2>1. ring' = ring /\ ~InHand'
    BY <1>5 DEF Recycle, queueVars, InHand, AfterMessage
  <2>2. CASE loopMsg.kind = "TIMER_FIRE"
    <3>1. timerQueued' = FALSE
      BY <1>5, <2>2 DEF Recycle
    <3>2. InHand
      BY <1>5, <2>2 DEF Recycle, InHand, TypeInv, Shape, TypeOK, Message,
         NoMessage, AsyncMessage, SyncMessage, TimerMessage
    <3>3. QED
      BY <1>1, <1>2, <2>1, <3>1, <3>2 DEF TimerPlace
  <2>3. CASE loopMsg.kind # "TIMER_FIRE"
    <3>1. timerQueued' = timerQueued
      BY <1>1, <1>5, <2>3 DEF Recycle
    <3>2. QED
      BY <1>1, <1>2, <2>1, <3>1 DEF TimerPlace
  <2>4. QED
    BY <2>2, <2>3
<1>6. CASE LoopWait \/ RunTask \/ CompleteCall \/ RunDueTasks \/ LoopExit
  <2>1. UNCHANGED <<ring, timerQueued>>
    BY <1>6 DEF LoopWait, RunTask, CompleteCall, RunDueTasks, LoopExit,
       queueVars, timerVars
  <2>2. ~InHand'
    BY <1>6 DEF LoopWait, RunTask, CompleteCall, RunDueTasks, LoopExit,
       InHand, AfterMessage
  <2>3. QED
    BY <1>1, <1>2, <2>1, <2>2 DEF TimerPlace
<1>7. QED
  BY <1>3, <1>4, <1>5, <1>6 DEF LoopStep

\* The owner lets it go only with everything else.
LEMMA TimerPlaceOwner ==
    ASSUME TypeInv, LifeInv, TimerInv, InitHandler \/ Stop \/ OwnerStep
    PROVE  TimerPlace'
<1>1. Claimed' = Claimed /\ TimerPlace
  BY DEF OwnerStep, StopStep, InitHandler, CreateLoopTask, RollbackInit, Stop,
     StopTimer, DropDelayed, WakeLoop, StopPoll, StopGiveUp, StopRelease,
     callVars, Claimed, TimerInv
<1>2. CASE StopRelease
  <2>1. ring' = <<>>
    BY <1>2 DEF StopRelease, ReleaseObjects
  <2>2. OneTimer(ring') /\ ~HasTimer(ring') /\ ~(Len(ring') > QueueSize)
    BY <2>1, HandlerAssumption DEF OneTimer, HasTimer
  <2>3. AllQuiet /\ lpc = "off"
    BY <1>2 DEF StopRelease, LifeInv
  <2>4. ~Claimed
    BY <2>3 DEF AllQuiet, Quiet, Claimed, Threads
  <2>5. ~InHand'
    BY <1>2, <2>3 DEF StopRelease, loopVars, InHand
  <2>6. QED
    BY <1>1, <2>2, <2>4, <2>5 DEF TimerPlace
<1>3. CASE ~StopRelease
  <2>1. ~RollbackInit
    BY DEF RollbackInit, LifeInv
  <2>2. UNCHANGED <<ring, timerQueued>>
    BY <1>3, <2>1 DEF OwnerStep, StopStep, InitHandler, CreateLoopTask, Stop,
       StopTimer, DropDelayed, WakeLoop, StopPoll, StopGiveUp, queueVars,
       timerVars
  <2>3. InHand' => InHand
    BY <1>3, <2>1 DEF OwnerStep, StopStep, InitHandler, CreateLoopTask, Stop,
       StopTimer, DropDelayed, WakeLoop, StopPoll, StopGiveUp, loopVars,
       InHand
  <2>4. QED
    BY <1>1, <2>2, <2>3 DEF TimerPlace
<1>4. QED
  BY <1>2, <1>3

\* The timer invariant is inductive.
LEMMA TimerInvStep ==
    ASSUME TypeInv, LifeInv, TimerInv, [Next]_vars
    PROVE  TimerInv'
<1>1. TimerOps'
  BY TimerOpsStep DEF TimerInv
<1>2. ASSUME NEW t \in Threads, NEW kind, Begin(t, kind) PROVE TimerPlace'
  <2>1. UNCHANGED <<ring, timerQueued>> /\ InHand' = InHand
    BY <1>2 DEF Begin, queueVars, loopVars, InHand
  <2>2. Claimed' => Claimed
    BY <1>2 DEF Begin, Goto, Claimed, TypeInv, Shape, TypeOK
  <2>3. QED
    BY <2>1, <2>2 DEF TimerInv, TimerPlace
<1>3. ASSUME NEW t \in Callers, BeginCall(t) PROVE TimerPlace'
  BY <1>2, <1>3 DEF BeginCall, Threads
<1>4. ASSUME TimerExpired PROVE TimerPlace'
  BY <1>2, <1>4 DEF TimerExpired, Threads
<1>5. ASSUME UNCHANGED vars PROVE TimerPlace'
  BY <1>5 DEF vars, queueVars, timerVars, callVars, loopVars, TimerInv,
     TimerPlace, InHand, Claimed
<1>6. TimerPlace'
  BY <1>3, <1>4, <1>5, TimerPlaceCall, TimerPlaceLoop, TimerPlaceOwner
     DEF Next
<1>7. QED
  BY <1>1, <1>6 DEF TimerInv

\* It holds when the handler object is constructed.
LEMMA TimerInvInit == Init => TimerInv
<1> SUFFICES ASSUME Init PROVE TimerInv
  OBVIOUS
<1>1. TimerOps
  BY DEF Init, TimerOps, Threads
<1>2. ~Claimed /\ ~InHand
  BY DEF Init, Claimed, InHand, Threads
<1>3. ring = <<>>
  BY DEF Init
<1>4. OneTimer(ring) /\ ~HasTimer(ring) /\ ~(Len(ring) > QueueSize)
  BY <1>3, HandlerAssumption DEF OneTimer, HasTimer
<1>5. QED
  BY <1>1, <1>2, <1>4 DEF TimerInv, TimerPlace

\* A queue full of tasks never refuses the timer message, so a due task is
\* never delayed by a full queue (the extra slot of Init, Enqueue,
\* OnTimerExpired).
THEOREM TimerMessageAlwaysFits ==
    ASSUME ~TaskCreateCanFail
    PROVE  Spec => []TimerMessageFits
<1>1. Init => TypeInv /\ LifeInv /\ TimerInv
  BY TypeInvInit, LifeInvInit, TimerInvInit
<1>2. TypeInv /\ LifeInv /\ TimerInv /\ [Next]_vars
        => (TypeInv /\ LifeInv /\ TimerInv)'
  BY TypeInvStep, LifeInvStep, TimerInvStep
<1>3. TypeInv /\ TimerInv => TimerMessageFits
  <2> SUFFICES ASSUME TypeInv, TimerInv, pc[TimerTask] = "push"
               PROVE  Len(ring) < Capacity
    BY DEF TimerMessageFits
  <2>1. ~HasTimer(ring)
    BY DEF TimerInv, TimerPlace, Claimed
  <2>2. ~(Len(ring) > QueueSize)
    BY <2>1 DEF TimerInv, TimerPlace
  <2>3. Len(ring) \in Nat
    BY DEF TypeInv, Shape, TypeOK
  <2>4. QED
    BY <2>2, <2>3, HandlerAssumption DEF Capacity
<1>4. QED
  BY <1>1, <1>2, <1>3, PTL DEF Spec
-----------------------------------------------------------------------------
(***************************************************************************)
(* The waiter slots.  A slot belongs to the call that acquired it until    *)
(* that call frees it, or, when the call gives up waiting, to the context  *)
(* it abandons until the loop completes that context.  A context travels   *)
(* to the loop once, in one message, so nothing is completed twice and the *)
(* one signal of a completion finds the one caller waiting on that slot.   *)
(***************************************************************************)
\* Program points at which a synchronous call holds its context, and those at
\* which the loop may complete it.
HoldsContext == {"check", "push", "post", "wait", "woken", "timedout", "free",
                 "leave"}
Waiting == {"post", "wait", "timedout"}

\* What a call holds: a slot that is taken, a context made for that slot.
Claims ==
    \A t \in Threads :
        /\ mine[t] # NoContext => op[t] = "sync" /\ pc[t] \in HoldsContext
        /\ HoldsSlot(t) => slot[t] \in waiterInUse
        /\ HoldsSlot(t) /\ mine[t] # NoContext => ctxSlot[mine[t]] = slot[t]
        /\ mine[t] \in abandoned => pc[t] = "leave"
        /\ pc[t] = "woken" => mine[t] \in done
        /\ pc[t] \in {"check", "push"} => mine[t] \notin done
        /\ pc[t] = "free" => ret[t] # "SUCCESS"

\* No two calls hold the same.
Apart ==
    \A t, u \in Threads : t # u =>
        /\ mine[t] = mine[u] => mine[t] = NoContext
        /\ HoldsSlot(t) /\ HoldsSlot(u) => slot[t] # slot[u]

\* A context on its way to be completed: its caller waits for it, or has
\* abandoned it and left it the slot.
Journey ==
    \A c \in Contexts : Carried(c) =>
        /\ c \notin done
        /\ c \notin abandoned =>
              \E t \in Threads : mine[t] = c /\ pc[t] \in Waiting
        /\ c \in abandoned =>
              /\ ctxSlot[c] \in waiterInUse
              /\ \A t \in Threads : HoldsSlot(t) => slot[t] # ctxSlot[c]

Left ==
    \A c, d \in abandoned :
        Carried(c) /\ Carried(d) /\ c # d => ctxSlot[c] # ctxSlot[d]

\* It travels once: no second message carries it.
Once(q) ==
    \A i, j \in 1 .. Len(q) :
        q[i].kind = "SYNC_CALL" /\ q[i] = q[j] => i = j
OnePlace ==
    /\ Once(ring)
    /\ loopMsg.kind = "SYNC_CALL" => \A i \in 1 .. Len(ring) : ring[i] # loopMsg
    /\ lpc \notin {"dispatch", "run", "complete", "due", "recycle"}
          => loopMsg = NoMessage

\* A result is that of the task.
Results ==
    /\ \A c \in done : ctxStatus[c] = "SUCCESS" => c \in ran
    /\ lpc = "complete" => loopMsg.sync \in ran

WaitInv ==
    /\ Claims /\ Apart /\ Journey /\ Left /\ OnePlace /\ Results
    /\ NoStaleSignal /\ SuccessMeansRan
\* A context in transit has a caller that waits for it, or none.
LEMMA NotCarried ==
    ASSUME Apart, Claims, Journey, NEW t \in Threads, mine[t] \in Contexts,
           pc[t] \notin Waiting \cup {"leave"}, NoContext \notin Contexts
    PROVE  ~Carried(mine[t])
<1> SUFFICES ASSUME Carried(mine[t]) PROVE FALSE
  OBVIOUS
<1>1. mine[t] \notin abandoned
  BY DEF Claims
<1>2. PICK u \in Threads : mine[u] = mine[t] /\ pc[u] \in Waiting
  BY <1>1 DEF Journey
<1>3. u = t
  BY <1>2 DEF Apart
<1>4. QED
  BY <1>2, <1>3

\* A step of a call that moves no message, no slot, no signal and no context.
LEMMA WaitPlain ==
    ASSUME TypeInv, WaitInv, NEW t \in Threads,
           UNCHANGED <<ring, waiterVars, ctxVars, mine, slot, op, lpc, loopMsg>>,
           pc' \in [Threads -> CallPc], NEW p, pc' = [pc EXCEPT ![t] = p],
           \/ ret' = ret
           \/ \E r \in Status : ret' = [ret EXCEPT ![t] = r] /\ r # "SUCCESS"
           \/ op[t] # "sync" /\ \A u \in Threads : u # t => ret'[u] = ret[u],
           op[t] # "sync" => p \notin {"free", "woken"},
           op[t] = "sync" =>
               \/ /\ pc[t] \in {"load", "acquire"}
                  /\ p = "acquire" \/ (p = "leave" /\ ret'[t] # "SUCCESS")
               \/ pc[t] = "check" /\ p = "push"
               \/ pc[t] \in {"check", "push"} /\ p = "free" /\ ret'[t] # "SUCCESS"
               \/ pc[t] = "post" /\ p = "wait"
    PROVE  WaitInv'
<1>1. /\ pc \in [Threads -> CallPc] /\ op \in [Threads -> CallOp]
      /\ ret \in [Threads -> Status] /\ mine \in [Threads -> Contexts \cup {NoContext}]
      /\ NoContext \notin Contexts /\ abandoned \subseteq Contexts /\ done \subseteq Contexts
      /\ CallInv
  BY HandlerAssumption DEF TypeInv, Shape, TypeOK
<1>2. \A c : Carried(c)' = Carried(c)
  BY DEF Carried, InRing
<1>3. \A u \in Threads : HoldsSlot(u)' => HoldsSlot(u) 
  BY <1>1 DEF HoldsSlot
<1> USE <1>1 DEF WaitInv
<1>4. Claims'
  BY <1>3 DEF Claims, waiterVars, ctxVars, HoldsContext, HoldsSlot, CallInv
<1>5. Apart'
  BY <1>3 DEF Apart
<1>6. Journey'
  BY <1>2, <1>3 DEF Journey, waiterVars, ctxVars, Waiting, Claims, HoldsContext
<1>7. Left'
  BY <1>2 DEF Left, ctxVars
<1>8. OnePlace' /\ Results'
  BY DEF OnePlace, Once, Results, ctxVars
<1>9. NoStaleSignal'
  BY DEF NoStaleSignal, HoldsSlot, waiterVars, ctxVars
<1>10. SuccessMeansRan'
  BY DEF SuccessMeansRan, ctxVars
<1>11. QED
  BY <1>4, <1>5, <1>6, <1>7, <1>8, <1>9, <1>10

\* A slot that was free is held by nobody and left to nobody.
LEMMA WaitAcquire ==
    ASSUME TypeInv, WaitInv, NEW t \in Threads, AcquireWaiter(t)
    PROVE  WaitInv'
<1>1. /\ pc \in [Threads -> CallPc] /\ slot \in [Threads -> Slots]
      /\ ret \in [Threads -> Status] /\ mine \in [Threads -> Contexts \cup {NoContext}]
      /\ NoContext \notin Contexts /\ done \subseteq Contexts /\ CallInv
  BY HandlerAssumption DEF TypeInv, Shape, TypeOK
<1>2. CASE Return(t, "FAIL") /\ UNCHANGED <<waiterInUse, slot>>
  <2>1. UNCHANGED <<ring, waiterVars, ctxVars, mine, slot, op, lpc, loopMsg>>
    BY <1>2 DEF AcquireWaiter, queueVars, loopVars, waiterVars
  <2>2. pc' = [pc EXCEPT ![t] = "leave"] /\ ret' = [ret EXCEPT ![t] = "FAIL"]
    BY <1>2 DEF Return, Goto
  <2>3. pc[t] = "acquire" /\ op[t] = "sync" /\ mine[t] = NoContext
    BY <1>1 DEF AcquireWaiter, CallInv, WaitInv, Claims, HoldsContext
  <2>4. pc' \in [Threads -> CallPc] /\ ret'[t] = "FAIL"
    BY <1>1, <2>2 DEF CallPc
  <2>5. \E r \in Status : ret' = [ret EXCEPT ![t] = r] /\ r # "SUCCESS"
    BY <2>2 DEF Status
  <2>6. QED
    BY <2>1, <2>2, <2>3, <2>4, <2>5, WaitPlain
<1>3. CASE Goto(t, "alloc")
  <2>1. PICK s \in Slots \ waiterInUse :
           waiterInUse' = waiterInUse \cup {s} /\ slot' = [slot EXCEPT ![t] = s]
    BY <1>1, <1>3 DEF AcquireWaiter, Return, Goto
  <2>2. /\ pc[t] = "acquire" /\ op[t] = "sync" /\ mine[t] = NoContext
        /\ pc' = [pc EXCEPT ![t] = "alloc"] /\ ret' = ret
        /\ UNCHANGED <<ring, waiterSems, ctxVars, mine, op, lpc, loopMsg>>
    BY <1>1, <1>3 DEF AcquireWaiter, Return, Goto, CallInv, WaitInv, Claims,
       HoldsContext, queueVars, loopVars
  <2>3. \A c : Carried(c)' = Carried(c)
    BY <2>2 DEF Carried, InRing
  <2>4. /\ HoldsSlot(t)' /\ ~HoldsSlot(t) /\ slot'[t] = s
        /\ \A u \in Threads : u # t =>
              /\ HoldsSlot(u)' = HoldsSlot(u)
              /\ pc'[u] = pc[u] /\ slot'[u] = slot[u]
    BY <1>1, <2>1, <2>2 DEF HoldsSlot
  <2> USE <1>1, <2>1, <2>2, <2>4 DEF WaitInv
  <2>5. Claims'
    BY DEF Claims, ctxVars, HoldsContext
  <2>6. Apart'
    BY DEF Apart, Claims
  <2>7. Journey'
    BY <2>3 DEF Journey, Waiting, ctxVars
  <2>8. Left' /\ OnePlace' /\ Results'
    BY <2>3 DEF Left, OnePlace, Once, Results, ctxVars
  <2>9. NoStaleSignal'
    BY DEF NoStaleSignal, ctxVars
  <2>10. SuccessMeansRan'
    BY DEF SuccessMeansRan, ctxVars
  <2>11. QED
    BY <2>5, <2>6, <2>7, <2>8, <2>9, <2>10
<1>4. QED
  BY <1>2, <1>3 DEF AcquireWaiter

\* A context that nobody references is nobody's.
LEMMA WaitAllocate ==
    ASSUME TypeInv, WaitInv, NEW t \in Threads, Allocate(t)
    PROVE  WaitInv'
<1>1. /\ pc \in [Threads -> CallPc] /\ slot \in [Threads -> Slots]
      /\ ret \in [Threads -> Status] /\ mine \in [Threads -> Contexts \cup {NoContext}]
      /\ ctxSlot \in [Contexts -> Slots] /\ ctxStatus \in [Contexts -> Status]
      /\ NoContext \notin Contexts /\ done \subseteq Contexts /\ CallInv
      /\ loopMsg \in Message \cup {NoMessage} /\ LoopInv
      /\ abandoned \subseteq Contexts
  BY HandlerAssumption DEF TypeInv, Shape, TypeOK
<1>2. /\ pc[t] = "alloc" /\ op[t] = "sync" /\ mine[t] = NoContext
      /\ UNCHANGED <<ring, waiterVars, slot, op, lpc, loopMsg>>
  BY <1>1 DEF Allocate, CallInv, WaitInv, Claims, HoldsContext, queueVars,
     loopVars
<1>3. \A c : Carried(c)' = Carried(c)
  BY <1>2 DEF Carried, InRing
<1> USE <1>1, <1>2 DEF WaitInv
<1>4. CASE UNCHANGED <<mine, ctxVars>> /\ Goto(t, "free")
           /\ ret' = [ret EXCEPT ![t] = "FAIL"]
  <2>1. pc' = [pc EXCEPT ![t] = "free"]
    BY <1>4 DEF Goto
  <2>2. \A u \in Threads : HoldsSlot(u)' = HoldsSlot(u)
    BY <2>1 DEF HoldsSlot
  <2> USE <1>4, <2>1, <2>2
  <2>3. Claims'
    BY DEF Claims, ctxVars, waiterVars, HoldsContext
  <2>4. Apart' /\ Left' /\ OnePlace' /\ Results'
    BY <1>3 DEF Apart, Left, OnePlace, Once, Results, ctxVars
  <2>5. Journey'
    BY <1>3 DEF Journey, Waiting, ctxVars, waiterVars
  <2>6. NoStaleSignal'
    BY DEF NoStaleSignal, ctxVars, waiterVars
  <2>7. SuccessMeansRan'
    BY DEF SuccessMeansRan, ctxVars
  <2>8. QED
    BY <2>3, <2>4, <2>5, <2>6, <2>7
<1>5. ASSUME NEW c \in Contexts,
             ~Referenced(c),
             mine' = [mine EXCEPT ![t] = c],
             ctxSlot' = [ctxSlot EXCEPT ![c] = slot[t]],
             ctxStatus' = [ctxStatus EXCEPT ![c] = "SUCCESS"],
             abandoned' = abandoned \ {c}, done' = done \ {c},
             ran' = ran \ {c}, Goto(t, "check"), ret' = ret
      PROVE  WaitInv'
  <2>1. /\ pc' = [pc EXCEPT ![t] = "check"]
        /\ ~Carried(c) /\ \A u \in Threads : mine[u] # c
    BY <1>5 DEF Goto, Referenced
  <2>2. \A u \in Threads : HoldsSlot(u)' = HoldsSlot(u)
    BY <2>1 DEF HoldsSlot
  <2>3. \A d \in Contexts : d # c => ctxSlot'[d] = ctxSlot[d]
                                     /\ ctxStatus'[d] = ctxStatus[d]
    BY <1>5
  <2>4. /\ mine'[t] = c /\ pc'[t] = "check" /\ ctxSlot'[c] = slot[t]
        /\ \A u \in Threads : u # t => mine'[u] = mine[u] /\ pc'[u] = pc[u]
    BY <1>5, <2>1
  <2> USE <1>5, <2>1, <2>2, <2>3, <2>4
  <2>5. Claims'
    <3> SUFFICES ASSUME NEW u \in Threads
                 PROVE  /\ mine'[u] # NoContext => op'[u] = "sync" /\ pc'[u] \in HoldsContext
                        /\ HoldsSlot(u)' => slot'[u] \in waiterInUse'
                        /\ HoldsSlot(u)' /\ mine'[u] # NoContext
                              => ctxSlot'[mine'[u]] = slot'[u]
                        /\ mine'[u] \in abandoned' => pc'[u] = "leave"
                        /\ pc'[u] = "woken" => mine'[u] \in done'
                        /\ pc'[u] \in {"check", "push"} => mine'[u] \notin done'
                        /\ pc'[u] = "free" => ret'[u] # "SUCCESS"
      BY DEF Claims
    <3>1. CASE u = t
      BY <3>1 DEF Claims, waiterVars, HoldsContext
    <3>2. CASE u # t
      BY <3>2 DEF Claims, waiterVars
    <3>3. QED
      BY <3>1, <3>2
  <2>6. Apart'
    BY DEF Apart
  <2>7. Journey'
    BY <1>3 DEF Journey, Waiting, waiterVars
  <2>8. Left'
    BY <1>3 DEF Left
  <2>9. OnePlace'
    BY DEF OnePlace, Once
  <2>10. Results'
    <3>1. lpc = "complete" => loopMsg = SyncMessage(loopMsg.sync)
      BY DEF LoopInv, Message, NoMessage, AsyncMessage, TimerMessage, SyncMessage
    <3>2. lpc = "complete" => loopMsg.sync # c
      BY <3>1 DEF Carried
    <3>3. QED
      BY <3>2 DEF Results
  <2>11. NoStaleSignal'
    BY DEF NoStaleSignal, waiterVars
  <2>12. SuccessMeansRan'
    BY DEF SuccessMeansRan
  <2>13. QED
    BY <2>5, <2>6, <2>7, <2>8, <2>9, <2>10, <2>11, <2>12
<1>6. QED
  BY <1>4, <1>5 DEF Allocate

\* A message that is pushed carries a context that nothing carries yet.
LEMMA WaitPush ==
    ASSUME TypeInv, WaitInv, NEW t \in Threads, EnqueuePush(t),
           ring' = Append(ring, MessageOf(t)), Goto(t, "post"), ret' = ret
    PROVE  WaitInv'
<1>1. /\ pc \in [Threads -> CallPc] /\ mine \in [Threads -> Contexts \cup {NoContext}]
      /\ NoContext \notin Contexts /\ done \subseteq Contexts /\ CallInv
      /\ ring \in Seq(Message) /\ loopMsg \in Message \cup {NoMessage}
      /\ abandoned \subseteq Contexts
  BY HandlerAssumption DEF TypeInv, Shape, TypeOK
<1>2. /\ pc[t] = "push" /\ pc' = [pc EXCEPT ![t] = "post"]
      /\ UNCHANGED <<waiterVars, ctxVars, mine, slot, op, lpc, loopMsg>>
  BY DEF EnqueuePush, Goto, loopVars
<1>3. \A u \in Threads : HoldsSlot(u)' = HoldsSlot(u)
  BY <1>1, <1>2 DEF HoldsSlot
<1>4. op[t] = "sync" => mine[t] \in Contexts /\ ~Carried(mine[t])
  BY <1>1, <1>2, NotCarried DEF CallInv, WaitInv, Waiting
<1>5. MessageOf(t) \in Message
  BY <1>4 DEF MessageOf, Message
<1>6. /\ Len(ring) \in Nat /\ Len(ring') = Len(ring) + 1
      /\ ring'[Len(ring) + 1] = MessageOf(t)
      /\ \A i \in 1 .. Len(ring) : ring'[i] = ring[i]
      /\ \A i \in 1 .. Len(ring') : i \in 1 .. Len(ring) \/ i = Len(ring) + 1
  BY <1>1, <1>5
<1>7. MessageOf(t).kind = "SYNC_CALL"
        => op[t] = "sync" /\ MessageOf(t) = SyncMessage(mine[t])
  BY DEF MessageOf, TimerMessage, AsyncMessage, SyncMessage
<1>8. \A c \in Contexts : Carried(c)' => Carried(c) \/ (op[t] = "sync" /\ c = mine[t])
  BY <1>2, <1>6, <1>7 DEF Carried, InRing, SyncMessage
<1> USE <1>1, <1>2, <1>3 DEF WaitInv
<1>9. Claims' /\ Apart'
  BY DEF Claims, Apart, waiterVars, ctxVars, HoldsContext
<1>10. Journey'
  <2> SUFFICES ASSUME NEW c \in Contexts, Carried(c)'
               PROVE  /\ c \notin done'
                      /\ c \notin abandoned' =>
                            \E u \in Threads : mine'[u] = c /\ pc'[u] \in Waiting
                      /\ c \in abandoned' =>
                            /\ ctxSlot'[c] \in waiterInUse'
                            /\ \A u \in Threads : HoldsSlot(u)' => slot'[u] # ctxSlot'[c]
    BY DEF Journey
  <2>1. CASE Carried(c)
    BY <2>1 DEF Journey, Waiting, waiterVars, ctxVars
  <2>2. CASE c = mine[t]
    BY <2>2 DEF Claims, Waiting, ctxVars
  <2>3. QED
    BY <1>8, <2>1, <2>2
<1>11. Left'
  BY <1>8 DEF Left, ctxVars, Claims
<1>12. OnePlace'
  <2>1. MessageOf(t).kind = "SYNC_CALL"
          => /\ \A i \in 1 .. Len(ring) : ring[i] # MessageOf(t)
             /\ loopMsg # MessageOf(t)
    BY <1>4, <1>7 DEF Carried, InRing
  <2>2. Once(ring')
    BY <1>6, <2>1 DEF OnePlace, Once
  <2>3. loopMsg'.kind = "SYNC_CALL" => \A i \in 1 .. Len(ring') : ring'[i] # loopMsg'
    BY <1>6, <2>1 DEF OnePlace
  <2>4. QED
    BY <2>2, <2>3 DEF OnePlace
<1>13. Results'
  BY DEF Results, ctxVars
<1>14. NoStaleSignal'
  BY DEF NoStaleSignal, waiterVars, ctxVars
<1>15. SuccessMeansRan'
  BY DEF SuccessMeansRan, ctxVars
<1>16. QED
  BY <1>9, <1>10, <1>11, <1>12, <1>13, <1>14, <1>15

\* A call that begins holds nothing; one that ends gives its context up.
LEMMA WaitEnds ==
    ASSUME TypeInv, WaitInv, NEW t \in Threads,
           Leave(t) \/ \E kind : Begin(t, kind)
    PROVE  WaitInv'
<1>1. /\ pc \in [Threads -> CallPc] /\ mine \in [Threads -> Contexts \cup {NoContext}]
      /\ op \in [Threads -> CallOp] /\ slot \in [Threads -> Slots]
      /\ ret \in [Threads -> Status]
      /\ NoContext \notin Contexts /\ done \subseteq Contexts
      /\ abandoned \subseteq Contexts
  BY HandlerAssumption DEF TypeInv, Shape, TypeOK
<1>2. /\ UNCHANGED <<ring, waiterVars, ctxVars, lpc, loopMsg>>
      /\ \A u \in Threads : u # t =>
            /\ pc'[u] = pc[u] /\ op'[u] = op[u] /\ slot'[u] = slot[u]
            /\ mine'[u] = mine[u] /\ ret'[u] = ret[u]
      /\ mine'[t] = NoContext /\ pc'[t] \in {"idle", "load"}
      /\ pc[t] \in {"leave", "idle"}
  <2>1. CASE Leave(t)
    BY <1>1, <2>1 DEF Leave, Goto, queueVars, loopVars
  <2>2. ASSUME NEW kind, Begin(t, kind)
        PROVE  /\ UNCHANGED <<ring, waiterVars, ctxVars, lpc, loopMsg, mine, slot, ret>>
               /\ \A u \in Threads : u # t => pc'[u] = pc[u] /\ op'[u] = op[u]
               /\ mine[t] = NoContext /\ pc'[t] = "load" /\ pc[t] = "idle"
    BY <1>1, <2>2 DEF Begin, Goto, queueVars, loopVars, WaitInv, Claims,
       HoldsContext
  <2>3. QED
    BY <2>1, <2>2
<1>3. \A c : Carried(c)' = Carried(c)
  BY <1>2 DEF Carried, InRing
<1>4. /\ ~HoldsSlot(t) /\ ~HoldsSlot(t)'
      /\ \A u \in Threads : u # t => HoldsSlot(u)' = HoldsSlot(u)
  BY <1>2 DEF HoldsSlot
<1> USE <1>1, <1>2, <1>4 DEF WaitInv
<1>5. Claims'
  BY DEF Claims, waiterVars, ctxVars
<1>6. Apart'
  BY DEF Apart
<1>7. Journey'
  BY <1>3 DEF Journey, Waiting, waiterVars, ctxVars
<1>8. Left' /\ OnePlace' /\ Results'
  BY <1>3 DEF Left, OnePlace, Once, Results, ctxVars
<1>9. NoStaleSignal'
  BY DEF NoStaleSignal, waiterVars, ctxVars
<1>10. SuccessMeansRan'
  BY DEF SuccessMeansRan, ctxVars
<1>11. QED
  BY <1>5, <1>6, <1>7, <1>8, <1>9, <1>10

\* A signal is for the one call that holds its slot.
LEMMA SignalIsOwn ==
    ASSUME WaitInv, NEW t \in Threads, HoldsSlot(t), slot[t] \in waiterSems
    PROVE  pc[t] \in Waiting /\ mine[t] \in done
  BY DEF WaitInv, NoStaleSignal, Apart, Waiting

\* A call gives its slot back: nobody else has it.
LEMMA WaitGivesBack ==
    ASSUME TypeInv, WaitInv, NEW t \in Threads, HoldsSlot(t),
           UNCHANGED <<ring, ctxVars, mine, slot, op, lpc, loopMsg>>,
           waiterInUse' = waiterInUse \ {slot[t]},
           waiterSems' = waiterSems \ {slot[t]},
           pc' = [pc EXCEPT ![t] = "leave"],
           pc[t] = "free" \/ mine[t] \in done,
           \A u \in Threads : u # t => ret'[u] = ret[u],
           ret'[t] = "SUCCESS" => mine[t] \in ran
    PROVE  WaitInv'
<1>1. /\ pc \in [Threads -> CallPc] /\ mine \in [Threads -> Contexts \cup {NoContext}]
      /\ NoContext \notin Contexts /\ done \subseteq Contexts
      /\ abandoned \subseteq Contexts
  BY HandlerAssumption DEF TypeInv, Shape, TypeOK
<1>2. \A c : Carried(c)' = Carried(c)
  BY DEF Carried, InRing
<1>3. /\ ~HoldsSlot(t)' /\ pc'[t] = "leave"
      /\ \A u \in Threads : u # t => HoldsSlot(u)' = HoldsSlot(u) /\ pc'[u] = pc[u]
  BY <1>1 DEF HoldsSlot
<1> USE <1>1, <1>3 DEF WaitInv
<1>4. Claims'
  BY DEF Claims, Apart, ctxVars, HoldsContext, HoldsSlot
<1>5. Apart'
  BY DEF Apart
<1>6. Journey'
  BY <1>2 DEF Journey, Waiting, ctxVars
<1>7. Left' /\ OnePlace' /\ Results'
  BY <1>2 DEF Left, OnePlace, Once, Results, ctxVars
<1>8. NoStaleSignal'
  BY DEF NoStaleSignal, ctxVars
<1>9. SuccessMeansRan'
  BY DEF SuccessMeansRan, ctxVars
<1>10. QED
  BY <1>4, <1>5, <1>6, <1>7, <1>8, <1>9

\* The failure path.
LEMMA WaitFree ==
    ASSUME TypeInv, WaitInv, NEW t \in Threads, FreeSlot(t)
    PROVE  WaitInv'
<1>1. HoldsSlot(t) /\ pc[t] = "free"
  BY DEF FreeSlot, HoldsSlot, TypeInv, Shape, CallInv
<1>2. slot[t] \notin waiterSems
  BY <1>1, SignalIsOwn DEF Waiting
<1>3. ret[t] # "SUCCESS"
  BY <1>1 DEF WaitInv, Claims
<1>4. /\ UNCHANGED <<ring, ctxVars, mine, slot, op, lpc, loopMsg>>
      /\ waiterInUse' = waiterInUse \ {slot[t]}
      /\ waiterSems' = waiterSems \ {slot[t]}
      /\ pc' = [pc EXCEPT ![t] = "leave"] /\ ret' = ret
  BY <1>2 DEF FreeSlot, Goto, queueVars, loopVars
<1>5. QED
  BY <1>1, <1>3, <1>4, WaitGivesBack

\* The caller takes its signal, or gives up waiting for it.
LEMMA WaitSem ==
    ASSUME TypeInv, WaitInv, NEW t \in Threads, SemWait(t)
    PROVE  WaitInv'
<1>1. /\ pc \in [Threads -> CallPc] /\ mine \in [Threads -> Contexts \cup {NoContext}]
      /\ NoContext \notin Contexts /\ done \subseteq Contexts
      /\ abandoned \subseteq Contexts
  BY HandlerAssumption DEF TypeInv, Shape, TypeOK
<1>2. /\ pc[t] = "wait" /\ HoldsSlot(t)
      /\ UNCHANGED <<ring, waiterInUse, ctxVars, mine, slot, op, ret, lpc, loopMsg>>
  BY DEF SemWait, HoldsSlot, TypeInv, Shape, CallInv, queueVars, loopVars
<1>3. \A c : Carried(c)' = Carried(c)
  BY <1>2 DEF Carried, InRing
<1> USE <1>1, <1>2 DEF WaitInv
<1>4. CASE /\ slot[t] \in waiterSems
           /\ waiterSems' = waiterSems \ {slot[t]}
           /\ Goto(t, "woken")
  <2>1. mine[t] \in done
    BY <1>4, SignalIsOwn
  <2>2. /\ pc' = [pc EXCEPT ![t] = "woken"] /\ pc'[t] = "woken"
        /\ \A u \in Threads : HoldsSlot(u)' = HoldsSlot(u)
    BY <1>4 DEF Goto, HoldsSlot
  <2> USE <1>4, <2>1, <2>2
  <2>3. Claims' /\ Apart'
    BY DEF Claims, Apart, ctxVars, HoldsContext
  <2>4. Journey'
    BY <1>3 DEF Journey, Waiting, ctxVars
  <2>5. Left' /\ OnePlace' /\ Results' /\ SuccessMeansRan'
    BY <1>3 DEF Left, OnePlace, Once, Results, SuccessMeansRan, ctxVars
  <2>6. NoStaleSignal'
    BY DEF NoStaleSignal, ctxVars
  <2>7. QED
    BY <2>3, <2>4, <2>5, <2>6
<1>5. CASE Goto(t, "timedout") /\ UNCHANGED waiterSems
  <2>1. /\ pc' = [pc EXCEPT ![t] = "timedout"] /\ pc'[t] = "timedout"
        /\ \A u \in Threads : HoldsSlot(u)' = HoldsSlot(u)
    BY <1>5 DEF Goto, HoldsSlot
  <2> USE <1>5, <2>1
  <2>2. Claims' /\ Apart'
    BY DEF Claims, Apart, ctxVars, HoldsContext
  <2>3. Journey'
    BY <1>3 DEF Journey, Waiting, ctxVars
  <2>4. Left' /\ OnePlace' /\ Results' /\ SuccessMeansRan'
    BY <1>3 DEF Left, OnePlace, Once, Results, SuccessMeansRan, ctxVars
  <2>5. NoStaleSignal'
    BY DEF NoStaleSignal, ctxVars
  <2>6. QED
    BY <2>2, <2>3, <2>4, <2>5
<1>6. QED
  BY <1>4, <1>5 DEF SemWait

\* It returns with its result, or abandons its context and leaves the slot.
LEMMA WaitFinish ==
    ASSUME TypeInv, WaitInv, NEW t \in Threads, FinishWait(t)
    PROVE  WaitInv'
<1>1. /\ pc \in [Threads -> CallPc] /\ mine \in [Threads -> Contexts \cup {NoContext}]
      /\ ret \in [Threads -> Status]
      /\ NoContext \notin Contexts /\ done \subseteq Contexts
      /\ abandoned \subseteq Contexts
  BY HandlerAssumption DEF TypeInv, Shape, TypeOK
<1>2. /\ pc[t] \in {"woken", "timedout"} /\ HoldsSlot(t) /\ mine[t] \in Contexts
      /\ UNCHANGED <<ring, ctxSlot, ctxStatus, done, ran, mine, slot, op, lpc,
                     loopMsg>>
  BY DEF FinishWait, HoldsSlot, TypeInv, Shape, CallInv, queueVars, loopVars
<1>3. \A c : Carried(c)' = Carried(c)
  BY <1>2 DEF Carried, InRing
<1>4. CASE /\ pc[t] = "woken" \/ mine[t] \in done
           /\ waiterSems' = ConsumeSignal(t)
           /\ waiterInUse' = waiterInUse \ {slot[t]}
           /\ Return(t, ctxStatus[mine[t]])
           /\ UNCHANGED abandoned
  <2>1. mine[t] \in done
    BY <1>4 DEF WaitInv, Claims
  <2>2. waiterSems' = waiterSems \ {slot[t]}
    <3>1. CASE pc[t] = "woken"
      <4>1. slot[t] \notin waiterSems
        BY <1>2, <3>1, SignalIsOwn DEF Waiting
      <4>2. QED
        BY <1>4, <3>1, <4>1 DEF ConsumeSignal
    <3>2. CASE pc[t] = "timedout"
      BY <1>4, <3>2 DEF ConsumeSignal
    <3>3. QED
      BY <1>2, <3>1, <3>2
  <2>3. /\ pc' = [pc EXCEPT ![t] = "leave"]
        /\ ret' = [ret EXCEPT ![t] = ctxStatus[mine[t]]]
    BY <1>4 DEF Return, Goto
  <2>4. /\ \A u \in Threads : u # t => ret'[u] = ret[u]
        /\ ret'[t] = "SUCCESS" => mine[t] \in ran
    BY <1>1, <2>1, <2>3 DEF WaitInv, Results
  <2>5. UNCHANGED ctxVars
    BY <1>2, <1>4 DEF ctxVars
  <2>6. QED
    BY <1>2, <1>4, <2>1, <2>2, <2>3, <2>4, <2>5, WaitGivesBack
<1>5. CASE /\ pc[t] = "timedout" /\ mine[t] \notin done
           /\ abandoned' = abandoned \cup {mine[t]}
           /\ Return(t, "FAIL")
           /\ UNCHANGED waiterVars
  <2>1. /\ pc' = [pc EXCEPT ![t] = "leave"] /\ pc'[t] = "leave"
        /\ ret' = [ret EXCEPT ![t] = "FAIL"] /\ ret'[t] = "FAIL"
        /\ ~HoldsSlot(t)'
        /\ \A u \in Threads : u # t => HoldsSlot(u)' = HoldsSlot(u)
                                       /\ pc'[u] = pc[u] /\ ret'[u] = ret[u]
    BY <1>1, <1>2, <1>5 DEF Return, Goto, HoldsSlot
  <2>2. slot[t] \notin waiterSems
    BY <1>2, <1>5, SignalIsOwn
  <2>3. /\ ctxSlot[mine[t]] = slot[t] /\ slot[t] \in waiterInUse
        /\ mine[t] \notin abandoned
    BY <1>1, <1>2, <1>5 DEF WaitInv, Claims
  <2> USE <1>1, <1>2, <1>5, <2>1, <2>3 DEF WaitInv
  <2>4. Claims'
    BY DEF Claims, Apart, HoldsContext, waiterVars
  <2>5. Apart'
    BY DEF Apart
  <2>6. Journey'
    <3> SUFFICES ASSUME NEW c \in Contexts, Carried(c)'
                 PROVE  /\ c \notin done'
                        /\ c \notin abandoned' =>
                              \E u \in Threads : mine'[u] = c /\ pc'[u] \in Waiting
                        /\ c \in abandoned' =>
                              /\ ctxSlot'[c] \in waiterInUse'
                              /\ \A u \in Threads : HoldsSlot(u)' => slot'[u] # ctxSlot'[c]
      BY DEF Journey
    <3>1. CASE c = mine[t]
      BY <1>3, <3>1 DEF Apart, waiterVars
    <3>2. CASE c # mine[t]
      BY <1>3, <3>2 DEF Journey, waiterVars
    <3>3. QED
      BY <3>1, <3>2
  <2>7. Left'
    BY <1>3 DEF Left, Journey
  <2>8. OnePlace' /\ Results'
    BY DEF OnePlace, Once, Results
  <2>9. NoStaleSignal'
    BY <2>2 DEF NoStaleSignal, waiterVars
  <2>10. SuccessMeansRan'
    BY DEF SuccessMeansRan
  <2>11. QED
    BY <2>4, <2>5, <2>6, <2>7, <2>8, <2>9, <2>10
<1>6. QED
  BY <1>4, <1>5 DEF FinishWait

\* Every step of a posting call.
LEMMA WaitCall ==
    ASSUME TypeInv, TimerOps, WaitInv, NEW t \in Threads, CallStep(t)
    PROVE  WaitInv'
<1>1. /\ pc \in [Threads -> CallPc] /\ ret \in [Threads -> Status] /\ CallInv
      /\ op \in [Threads -> CallOp]
  BY DEF TypeInv, Shape, TypeOK
<1>2. CASE LoadState(t)
  <2>1. UNCHANGED <<ring, waiterVars, ctxVars, mine, slot, op, lpc, loopMsg>>
    BY <1>2 DEF LoadState, queueVars, loopVars
  <2>2. CASE Return(t, "UNINIT") \/ Return(t, "FAIL")
    <3>1. /\ pc' = [pc EXCEPT ![t] = "leave"] /\ pc' \in [Threads -> CallPc]
          /\ \E r \in Status : ret' = [ret EXCEPT ![t] = r] /\ r # "SUCCESS"
          /\ ret'[t] # "SUCCESS" /\ pc[t] = "load"
      BY <1>1, <1>2, <2>2 DEF Return, Goto, CallPc, Status, LoadState
    <3>2. QED
      BY <2>1, <3>1, WaitPlain
  <2>3. CASE Goto(t, FirstStep[op[t]]) /\ UNCHANGED ret
    <3>1. op[t] # "none" /\ pc[t] = "load"
      BY <1>1, <1>2 DEF CallInv, LoadState
    <3>2. FirstStep[op[t]] \in CallPc \ {"free", "woken"}
      BY <1>1, <3>1 DEF FirstStep, CallPc, CallOp
    <3>3. op[t] = "sync" => FirstStep[op[t]] = "acquire"
      BY DEF FirstStep
    <3>4. /\ pc' = [pc EXCEPT ![t] = FirstStep[op[t]]]
          /\ pc' \in [Threads -> CallPc]
      BY <1>1, <2>3, <3>2 DEF Goto
    <3>5. QED
      BY <2>1, <2>3, <3>1, <3>2, <3>3, <3>4, WaitPlain
  <2>4. QED
    BY <1>2, <2>2, <2>3 DEF LoadState
<1>3. CASE ClaimTimerMessage(t) \/ PostDelayed(t) \/ RemoveDelayed(t) \/ RearmTimer(t)
  <2>1. UNCHANGED <<ring, waiterVars, ctxVars, mine, slot, op, lpc, loopMsg>>
    BY <1>3 DEF ClaimTimerMessage, PostDelayed, RemoveDelayed, RearmTimer,
       queueVars, loopVars
  <2>2. PICK p \in {"leave", "check"} : pc' = [pc EXCEPT ![t] = p]
    BY <1>3 DEF ClaimTimerMessage, PostDelayed, RemoveDelayed, RearmTimer,
       Return, Goto
  <2>3. \A u \in Threads : u # t => ret'[u] = ret[u]
    BY <1>1, <1>3 DEF ClaimTimerMessage, PostDelayed, RemoveDelayed,
       RearmTimer, Return
  <2>4. pc' \in [Threads -> CallPc]
    BY <1>1, <2>2 DEF CallPc
  <2>5. op[t] # "sync"
    BY <1>1, <1>3 DEF ClaimTimerMessage, PostDelayed, RemoveDelayed,
       RearmTimer, CallInv, TimerOps
  <2>6. QED
    BY <2>1, <2>2, <2>3, <2>4, <2>5, WaitPlain
<1>4. CASE EnqueueCheck(t) \/ EnqueuePush(t) \/ EnqueuePost(t)
  <2>1. CASE ring' = Append(ring, MessageOf(t)) /\ EnqueuePush(t)
             /\ Goto(t, "post") /\ ret' = ret
    BY <2>1, WaitPush
  <2>2. CASE ring' = ring
    <3>1. UNCHANGED <<ring, waiterVars, ctxVars, mine, slot, op, lpc, loopMsg>>
      BY <1>4, <2>2 DEF EnqueueCheck, EnqueuePush, EnqueuePost, queueVars,
         loopVars
    <3>2. CASE /\ EnqueueCheck(t) \/ EnqueuePush(t)
               /\ EnqueueFailed(t, "UNINIT") \/ EnqueueFailed(t, "FAIL")
      <4>1. PICK p \in {"free", "rearm", "leave"} :
               /\ pc' = [pc EXCEPT ![t] = p]
               /\ p = "free" <=> op[t] = "sync"
        BY <3>2 DEF EnqueueFailed, Goto
      <4>2. /\ \E r \in Status : ret' = [ret EXCEPT ![t] = r] /\ r # "SUCCESS"
            /\ ret'[t] # "SUCCESS"
        BY <1>1, <3>2 DEF EnqueueFailed, Status
      <4>3. pc[t] \in {"check", "push"}
        BY <3>2 DEF EnqueueCheck, EnqueuePush
      <4>4. pc' \in [Threads -> CallPc]
        BY <1>1, <4>1 DEF CallPc
      <4>5. QED
        BY <3>1, <4>1, <4>2, <4>3, <4>4, WaitPlain
    <3>3. CASE EnqueueCheck(t) /\ Goto(t, "push") /\ UNCHANGED ret
      <4>1. /\ pc' = [pc EXCEPT ![t] = "push"] /\ pc[t] = "check"
            /\ pc' \in [Threads -> CallPc]
        BY <1>1, <3>3 DEF EnqueueCheck, Goto, CallPc
      <4>2. QED
        BY <3>1, <3>3, <4>1, WaitPlain
    <3>4. CASE EnqueuePost(t)
      <4>1. CASE op[t] = "sync"
        <5>1. /\ pc' = [pc EXCEPT ![t] = "wait"] /\ pc[t] = "post" /\ ret' = ret
              /\ pc' \in [Threads -> CallPc]
          BY <1>1, <3>4, <4>1 DEF EnqueuePost, Goto, CallPc
        <5>2. QED
          BY <3>1, <4>1, <5>1, WaitPlain
      <4>2. CASE op[t] # "sync"
        <5>1. /\ pc' = [pc EXCEPT ![t] = "leave"]
              /\ pc' \in [Threads -> CallPc]
              /\ \A u \in Threads : u # t => ret'[u] = ret[u]
          BY <1>1, <3>4, <4>2 DEF EnqueuePost, Return, Goto, CallPc
        <5>2. QED
          BY <3>1, <4>2, <5>1, WaitPlain
      <4>3. QED
        BY <4>1, <4>2
    <3>5. CASE EnqueuePush(t) /\ ~EnqueueFailed(t, "FAIL")
      BY <2>1, <3>5 DEF EnqueuePush
    <3>6. QED
      BY <1>4, <3>2, <3>3, <3>4, <3>5 DEF EnqueueCheck
  <2>3. QED
    BY <1>4, <2>1, <2>2 DEF EnqueueCheck, EnqueuePush, EnqueuePost, queueVars
<1>5. QED
  BY <1>2, <1>3, <1>4, WaitAcquire, WaitAllocate, WaitFree, WaitSem,
     WaitFinish, WaitEnds
     DEF CallStep

\* The loop completes the call it has in hand: the caller that waits finds its
\* signal, or the slot left behind is free again.
LEMMA WaitComplete ==
    ASSUME TypeInv, WaitInv, NEW status \in Status,
           loopMsg.kind = "SYNC_CALL", Complete(loopMsg.sync, status),
           status = "SUCCESS" => loopMsg.sync \in ran,
           UNCHANGED <<ring, ctxSlot, abandoned, ran, callVars>>,
           loopMsg' = NoMessage, lpc' \in {"wait", "drain"}
    PROVE  WaitInv'
<1> DEFINE c == loopMsg.sync
<1>1. /\ loopMsg = SyncMessage(c) /\ c \in Contexts
      /\ mine \in [Threads -> Contexts \cup {NoContext}]
      /\ NoContext \notin Contexts /\ done \subseteq Contexts
      /\ abandoned \subseteq Contexts /\ ctxStatus \in [Contexts -> Status]
  BY HandlerAssumption DEF TypeInv, Shape, TypeOK, Message, NoMessage,
     AsyncMessage, TimerMessage, SyncMessage
<1>2. Carried(c)
  BY <1>1 DEF Carried
<1>3. \A d \in Contexts : Carried(d)' => Carried(d) /\ d # c
  BY <1>1 DEF Carried, InRing, WaitInv, OnePlace, NoMessage, SyncMessage
<1>4. /\ UNCHANGED <<ring, ctxSlot, abandoned, ran, op, pc, slot, mine, ret>>
      /\ done' = done \cup {c} /\ ctxStatus' = [ctxStatus EXCEPT ![c] = status]
      /\ \A t \in Threads : HoldsSlot(t)' = HoldsSlot(t)
  BY DEF callVars, Complete, HoldsSlot
<1>5. OnePlace'
  BY <1>4 DEF OnePlace, Once, NoMessage, WaitInv
<1>6. Results'
  <2>1. status = "SUCCESS" => c \in ran
    OBVIOUS
  <2> HIDE DEF c
  <2>2. \A d \in done' : ctxStatus'[d] = "SUCCESS" => d \in ran'
    BY <1>1, <1>4, <2>1 DEF WaitInv, Results
  <2>3. lpc' # "complete"
    OBVIOUS
  <2>4. QED
    BY <2>2, <2>3 DEF Results
<1>7. CASE c \in abandoned
  <2>1. waiterInUse' = waiterInUse \ {ctxSlot[c]} /\ waiterSems' = waiterSems
    BY <1>7 DEF Complete
  <2> HIDE DEF c
  <2> USE <1>1, <1>2, <1>4, <1>7, <2>1 DEF WaitInv
  <2>2. Claims'
    BY DEF Claims, Journey
  <2>3. Apart' /\ SuccessMeansRan'
    BY DEF Apart, SuccessMeansRan
  <2>4. Journey'
    BY <1>3 DEF Journey, Left
  <2>5. Left'
    BY <1>3 DEF Left
  <2>6. NoStaleSignal'
    BY DEF NoStaleSignal
  <2>7. QED
    BY <1>5, <1>6, <2>2, <2>3, <2>4, <2>5, <2>6
<1>8. CASE c \notin abandoned
  <2>1. waiterInUse' = waiterInUse /\ waiterSems' = waiterSems \cup {ctxSlot[c]}
    BY <1>8 DEF Complete
  <2> HIDE DEF c
  <2>2. PICK w \in Threads : mine[w] = c /\ pc[w] \in Waiting
    BY <1>1, <1>2, <1>8 DEF WaitInv, Journey
  <2>3. HoldsSlot(w) /\ slot[w] = ctxSlot[c]
    BY <1>1, <2>2 DEF WaitInv, Claims, HoldsSlot, Waiting
  <2> USE <1>1, <1>2, <1>4, <1>8, <2>1 DEF WaitInv
  <2>4. Claims'
    BY <2>2 DEF Claims, Apart, Waiting
  <2>5. Apart' /\ SuccessMeansRan'
    BY DEF Apart, SuccessMeansRan
  <2>6. Journey'
    BY <1>3 DEF Journey
  <2>7. Left'
    BY <1>3 DEF Left
  <2>8. NoStaleSignal'
    BY <2>2, <2>3 DEF NoStaleSignal, Waiting
  <2>9. QED
    BY <1>5, <1>6, <2>4, <2>5, <2>6, <2>7, <2>8
<1>9. QED
  BY <1>7, <1>8

\* A step that gives the loop no context it did not have.
LEMMA WaitRest ==
    ASSUME TypeInv, WaitInv,
           UNCHANGED <<waiterVars, ctxSlot, ctxStatus, abandoned, done, callVars>>,
           ran \subseteq ran',
           \A c \in Contexts : Carried(c)' => Carried(c),
           OnePlace', lpc' = "complete" => loopMsg'.sync \in ran'
    PROVE  WaitInv'
<1>1. UNCHANGED <<waiterInUse, waiterSems, op, pc, slot, mine, ret>>
  BY DEF waiterVars, callVars
<1>2. \A t \in Threads : HoldsSlot(t)' = HoldsSlot(t)
  BY <1>1 DEF HoldsSlot
<1> USE <1>1, <1>2 DEF WaitInv
<1>3. Claims' /\ Apart'
  BY DEF Claims, Apart
<1>4. Journey'
  BY DEF Journey
<1>5. Left'
  BY DEF Left, TypeInv, Shape, TypeOK
<1>6. Results'
  BY DEF Results
<1>7. NoStaleSignal' /\ SuccessMeansRan'
  BY DEF NoStaleSignal, SuccessMeansRan
<1>8. QED
  BY <1>3, <1>4, <1>5, <1>6, <1>7

\* The message popped is gone from the ring.
LEMMA WaitPop ==
    ASSUME TypeInv, OnePlace, ring # <<>>, ring' = Tail(ring),
           loopMsg' = Head(ring), loopMsg = NoMessage,
           lpc' \in {"dispatch", "recycle"}
    PROVE  /\ \A c \in Contexts : Carried(c)' => Carried(c)
           /\ OnePlace'
<1>1. ring \in Seq(Message)
  BY DEF TypeInv, Shape, TypeOK
<1>2. /\ Len(ring) \in Nat /\ Len(ring) > 0 /\ Len(ring') = Len(ring) - 1
      /\ loopMsg' = ring[1] /\ 1 \in 1 .. Len(ring)
      /\ \A i \in 1 .. Len(ring') :
            i + 1 \in 1 .. Len(ring) /\ ring'[i] = ring[i + 1]
  BY <1>1
<1>3. \A c \in Contexts : Carried(c)' => Carried(c)
  BY <1>2 DEF Carried, InRing
<1>4. Once(ring')
  <2> SUFFICES ASSUME NEW i \in 1 .. Len(ring'), NEW j \in 1 .. Len(ring'),
                      ring'[i].kind = "SYNC_CALL", ring'[i] = ring'[j]
               PROVE  i = j
    BY DEF Once
  <2>1. i + 1 \in 1 .. Len(ring) /\ j + 1 \in 1 .. Len(ring)
        /\ ring[i + 1].kind = "SYNC_CALL" /\ ring[i + 1] = ring[j + 1]
    BY <1>2
  <2>2. i + 1 = j + 1
    BY <2>1 DEF OnePlace, Once
  <2>3. QED
    BY <1>2, <2>2
<1>5. ASSUME loopMsg'.kind = "SYNC_CALL", NEW i \in 1 .. Len(ring')
      PROVE  ring'[i] # loopMsg'
  <2>1. i + 1 \in 1 .. Len(ring) /\ i + 1 # 1 /\ ring'[i] = ring[i + 1]
    BY <1>2
  <2>2. QED
    BY <1>2, <1>5, <2>1 DEF OnePlace, Once
<1>6. QED
  BY <1>3, <1>4, <1>5 DEF OnePlace

\* Every step of the loop.
LEMMA WaitLoop ==
    ASSUME TypeInv, WaitInv, LoopStep
    PROVE  WaitInv'
<1>1. OnePlace /\ LoopInv
  BY DEF WaitInv, TypeInv, Shape
<1>2. CASE LoopPop \/ DrainPop
  <2>1. UNCHANGED <<waiterVars, ctxVars, callVars>> /\ lpc' # "complete"
    BY <1>2 DEF LoopPop, DrainPop
  <2>2. loopMsg = NoMessage
    BY <1>1, <1>2 DEF LoopPop, DrainPop, OnePlace
  <2>3. CASE ring # <<>>
    <3>1. /\ ring' = Tail(ring) /\ loopMsg' = Head(ring)
          /\ lpc' \in {"dispatch", "recycle"}
      BY <1>2, <2>3 DEF LoopPop, DrainPop
    <3>2. (\A c \in Contexts : Carried(c)' => Carried(c)) /\ OnePlace'
      BY <1>1, <2>2, <2>3, <3>1, WaitPop
    <3>3. QED
      BY <2>1, <3>2, WaitRest DEF ctxVars
  <2>4. CASE ring = <<>>
    <3>1. UNCHANGED <<ring, loopMsg>> /\ lpc' \in {"wait", "drain", "exit"}
      BY <1>2, <2>4 DEF LoopPop, DrainPop
    <3>2. (\A c \in Contexts : Carried(c)' => Carried(c)) /\ OnePlace'
      BY <1>1, <2>2, <3>1 DEF Carried, InRing, OnePlace, Once
    <3>3. QED
      BY <2>1, <3>2, WaitRest DEF ctxVars
  <2>5. QED
    BY <2>3, <2>4
<1>3. CASE LoopWait \/ Dispatch \/ LoopExit
  <2>1. /\ UNCHANGED <<ring, loopMsg, waiterVars, ctxVars, callVars>>
        /\ lpc' # "complete"
        /\ \/ lpc \in {"wait", "exit"}
           \/ lpc = "dispatch" /\ lpc' \in {"run", "due", "recycle"}
    BY <1>3 DEF LoopWait, Dispatch, LoopExit, queueVars
  <2>2. (\A c \in Contexts : Carried(c)' => Carried(c)) /\ OnePlace'
    BY <1>1, <2>1 DEF Carried, InRing, OnePlace, Once
  <2>3. QED
    BY <2>1, <2>2, WaitRest DEF ctxVars
<1>4. CASE RunTask /\ loopMsg.kind = "SYNC_CALL"
  <2>1. /\ ran' = ran \cup {loopMsg.sync} /\ lpc' = "complete"
        /\ UNCHANGED <<ring, loopMsg, waiterVars, ctxSlot, ctxStatus,
                       abandoned, done, callVars>>
    BY <1>4 DEF RunTask, queueVars
  <2>2. (\A c \in Contexts : Carried(c)' => Carried(c)) /\ OnePlace'
    BY <1>1, <2>1 DEF Carried, InRing, OnePlace, Once
  <2>3. QED
    BY <2>1, <2>2, WaitRest
<1>5. CASE \/ RunTask /\ loopMsg.kind # "SYNC_CALL"
           \/ RunDueTasks
           \/ Recycle /\ loopMsg.kind # "SYNC_CALL"
  <2>1. /\ loopMsg' = NoMessage /\ lpc' \in {"wait", "drain"}
        /\ UNCHANGED <<ring, waiterVars, ctxVars, callVars>>
    BY <1>5 DEF RunTask, RunDueTasks, Recycle, AfterMessage, queueVars, ctxVars
  <2>2. (\A c \in Contexts : Carried(c)' => Carried(c)) /\ OnePlace'
    BY <1>1, <2>1 DEF Carried, InRing, OnePlace, Once, NoMessage, SyncMessage
  <2>3. QED
    BY <2>1, <2>2, WaitRest DEF ctxVars
<1>6. CASE CompleteCall
  <2>1. /\ loopMsg.kind = "SYNC_CALL" /\ loopMsg.sync \in ran
        /\ Complete(loopMsg.sync, "SUCCESS")
        /\ UNCHANGED <<ring, ctxSlot, abandoned, ran, callVars>>
        /\ loopMsg' = NoMessage /\ lpc' \in {"wait", "drain"}
    BY <1>1, <1>6 DEF CompleteCall, LoopInv, WaitInv, Results, AfterMessage,
       queueVars
  <2>2. "SUCCESS" \in Status
    BY DEF Status
  <2>3. QED
    BY <2>1, <2>2, WaitComplete
<1>7. CASE Recycle /\ loopMsg.kind = "SYNC_CALL"
  <2>1. /\ Complete(loopMsg.sync, "UNINIT")
        /\ UNCHANGED <<ring, ctxSlot, abandoned, ran, callVars>>
        /\ loopMsg' = NoMessage /\ lpc' \in {"wait", "drain"}
    BY <1>7 DEF Recycle, AfterMessage, queueVars
  <2>2. "UNINIT" \in Status
    BY DEF Status
  <2>3. QED
    BY <1>7, <2>1, <2>2, WaitComplete
<1>8. QED
  BY <1>2, <1>3, <1>4, <1>5, <1>6, <1>7 DEF LoopStep

\* The owner releases the slots when nobody holds or is owed one.
LEMMA WaitOwner ==
    ASSUME ~TaskCreateCanFail, TypeInv, LifeInv, WaitInv,
           InitHandler \/ Stop \/ OwnerStep
    PROVE  WaitInv'
<1>1. /\ UNCHANGED <<ctxVars, callVars, loopMsg>>
      /\ lpc' = lpc \/ (lpc = "off" /\ lpc' = "wait")
  BY DEF OwnerStep, StopStep, InitHandler, CreateLoopTask, RollbackInit, Stop,
     StopTimer, DropDelayed, WakeLoop, StopPoll, StopGiveUp, StopRelease,
     loopVars, LifeInv
<1>2. CASE StopRelease
  <2>1. /\ ring' = <<>> /\ waiterInUse' = {} /\ waiterSems' = {}
        /\ UNCHANGED <<op, pc, slot, mine, ret, ctxSlot, ctxStatus, abandoned,
                       done, ran>>
    BY <1>1, <1>2 DEF StopRelease, ReleaseObjects, callVars, ctxVars
  <2>2. AllQuiet /\ lpc = "off"
    BY <1>2 DEF StopRelease, LifeInv
  <2>3. \A t \in Threads : ~HoldsSlot(t)' /\ HoldsSlot(t)' = HoldsSlot(t)
    BY <2>1, <2>2 DEF AllQuiet, Quiet, HoldsSlot
  <2>4. lpc' = "off" /\ loopMsg' = NoMessage
    BY <1>1, <1>2, <2>2 DEF StopRelease, loopVars, WaitInv, OnePlace
  <2>5. \A c : ~Carried(c)'
    BY <2>1, <2>4 DEF Carried, InRing, NoMessage, SyncMessage
  <2> USE <2>1, <2>3 DEF WaitInv
  <2>6. Claims' /\ Apart'
    BY DEF Claims, Apart
  <2>7. Journey' /\ Left'
    BY <2>5 DEF Journey, Left
  <2>8. OnePlace' /\ Results'
    BY <2>4 DEF OnePlace, Once, NoMessage, Results
  <2>9. NoStaleSignal' /\ SuccessMeansRan'
    BY DEF NoStaleSignal, SuccessMeansRan
  <2>10. QED
    BY <2>6, <2>7, <2>8, <2>9
<1>3. CASE ~StopRelease
  <2>1. ~RollbackInit
    BY DEF RollbackInit, LifeInv
  <2>2. UNCHANGED <<ring, waiterVars>>
    BY <1>3, <2>1 DEF OwnerStep, StopStep, InitHandler, CreateLoopTask, Stop,
       StopTimer, DropDelayed, WakeLoop, StopPoll, StopGiveUp, queueVars
  <2>3. (\A c \in Contexts : Carried(c)' => Carried(c)) /\ OnePlace'
    BY <1>1, <2>2 DEF Carried, InRing, OnePlace, Once, WaitInv
  <2>4. lpc' = "complete" => loopMsg'.sync \in ran'
    BY <1>1 DEF WaitInv, Results, ctxVars
  <2>5. QED
    BY <1>1, <2>2, <2>3, <2>4, WaitRest DEF ctxVars
<1>4. QED
  BY <1>2, <1>3

\* The waiter invariant is inductive.
LEMMA WaitInvStep ==
    ASSUME ~TaskCreateCanFail, TypeInv, LifeInv, TimerInv, WaitInv, [Next]_vars
    PROVE  WaitInv'
<1>1. ASSUME NEW t \in Callers, BeginCall(t) PROVE WaitInv'
  BY <1>1, WaitEnds DEF BeginCall, Threads
<1>2. ASSUME TimerExpired PROVE WaitInv'
  BY <1>2, WaitEnds DEF TimerExpired, Threads
<1>3. ASSUME NEW t \in Threads, CallStep(t) PROVE WaitInv'
  BY <1>3, WaitCall DEF TimerInv
<1>4. ASSUME UNCHANGED vars PROVE WaitInv'
  <2>1. UNCHANGED <<ring, lpc, loopMsg, waiterVars, ctxVars, callVars>>
    BY <1>4 DEF vars, queueVars, loopVars
  <2>2. (\A c \in Contexts : Carried(c)' => Carried(c)) /\ OnePlace'
    BY <2>1 DEF Carried, InRing, OnePlace, Once, WaitInv
  <2>3. lpc' = "complete" => loopMsg'.sync \in ran'
    BY <2>1 DEF WaitInv, Results, ctxVars
  <2>4. QED
    BY <2>1, <2>2, <2>3, WaitRest DEF ctxVars
<1>5. QED
  BY <1>1, <1>2, <1>3, <1>4, WaitLoop, WaitOwner DEF Next

\* It holds when the handler object is constructed.
LEMMA WaitInvInit == Init => WaitInv
<1> SUFFICES ASSUME Init PROVE WaitInv
  OBVIOUS
<1>1. /\ ring = <<>> /\ loopMsg = NoMessage /\ lpc = "off"
      /\ waiterInUse = {} /\ waiterSems = {} /\ abandoned = {} /\ done = {}
      /\ \A t \in Threads : mine[t] = NoContext /\ pc[t] = "idle" /\ ~HoldsSlot(t)
  BY DEF Init, HoldsSlot
<1>2. Claims /\ Apart
  BY <1>1 DEF Claims, Apart
<1>3. \A c : ~Carried(c)
  BY <1>1 DEF Carried, InRing, NoMessage, SyncMessage
<1>4. Journey /\ Left
  BY <1>1, <1>3 DEF Journey, Left
<1>5. OnePlace /\ Results
  BY <1>1 DEF OnePlace, Once, NoMessage, Results
<1>6. NoStaleSignal /\ SuccessMeansRan
  BY <1>1 DEF NoStaleSignal, SuccessMeansRan
<1>7. QED
  BY <1>2, <1>4, <1>5, <1>6 DEF WaitInv

\* What a synchronous post gets is its own, whatever times out, is abandoned
\* or is drained meanwhile: its waiter slot is nobody else's, a signal there is
\* for it, and TELEPHONY_SUCCESS means that its task ran (AcquireWaiter,
\* PostSyncTask, Complete, Recycle).
THEOREM WaitersAreServedRight ==
    ASSUME ~TaskCreateCanFail
    PROVE  Spec => []WaitersSound
<1>1. Init => TypeInv /\ LifeInv /\ TimerInv /\ WaitInv
  BY TypeInvInit, LifeInvInit, TimerInvInit, WaitInvInit
<1>2. TypeInv /\ LifeInv /\ TimerInv /\ WaitInv /\ [Next]_vars
        => (TypeInv /\ LifeInv /\ TimerInv /\ WaitInv)'
  BY TypeInvStep, LifeInvStep, TimerInvStep, WaitInvStep
<1>3. TypeInv /\ WaitInv => WaitersSound
  <2> SUFFICES ASSUME TypeInv, WaitInv PROVE SlotExclusive
    BY DEF WaitersSound, WaitInv
  <2>1. abandoned \subseteq Contexts
    BY DEF TypeInv, Shape, TypeOK
  <2>2. QED
    BY <2>1 DEF SlotExclusive, WaitInv, Claims, Apart, Journey
<1>4. QED
  BY <1>1, <1>2, <1>3, PTL DEF Spec
-----------------------------------------------------------------------------
(***************************************************************************)
(* Messages and signals.  Enqueue puts the message into the ring first and *)
(* posts the semaphore after the unlock, and the loop takes the signal     *)
(* first and the message after it: every message in the ring is covered by *)
(* a signal, by a poster that is about to signal, or by the loop on its    *)
(* way from the semaphore to the ring.  None of this needs Init to         *)
(* succeed.                                                                *)
(***************************************************************************)
Posters == {t \in Threads : pc[t] = "post"}
Popping == IF lpc = "pop" THEN 1 ELSE 0

Signalled == Len(ring) <= queueSem + Cardinality(Posters) + Popping

\* There is one loop task: Init creates it when none is left.
LoopLife ==
    /\ lpc # "off" => loopRunning
    /\ state = "UNINIT" => ~loopRunning
    /\ owner = "create" => state = "RUNNING" /\ lpc = "off" /\ loopRunning
    /\ owner = "rollback" => state = "UNINIT"
    /\ owner \in StopPc => state = "STOPPING"
    /\ owner \in {"active", "queued", "waiters", "release"} => ~loopRunning

WakeInv == LoopLife /\ Signalled

\* The loop task is created once per successful Init and ends before Stop
\* releases anything.
LEMMA LoopLifeStep ==
    ASSUME TypeInv, LoopLife, [Next]_vars
    PROVE  LoopLife'
<1> USE DEF StopPc
<1>1. ASSUME NEW t \in Threads, NEW kind, Begin(t, kind) PROVE LoopLife'
  BY <1>1 DEF LoopLife, Begin, lifeVars, loopVars
<1>2. ASSUME NEW t \in Threads, CallStep(t) PROVE LoopLife'
  <2>1. UNCHANGED <<lifeVars, loopVars>>
    BY <1>2 DEF CallStep, LoadState, ClaimTimerMessage, PostDelayed,
       RemoveDelayed, AcquireWaiter, Allocate, EnqueueCheck, EnqueuePush,
       EnqueuePost, FreeSlot, RearmTimer, SemWait, FinishWait, Leave
  <2>2. QED
    BY <2>1 DEF LoopLife, lifeVars, loopVars
<1>3. ASSUME LoopStep PROVE LoopLife'
  <2>1. UNCHANGED lifeVars
    BY <1>3 DEF LoopStep, LoopWait, LoopPop, Dispatch, RunTask, CompleteCall,
       RunDueTasks, Recycle, DrainPop, LoopExit
  <2>2. CASE LoopExit
    BY <2>1, <2>2 DEF LoopLife, LoopExit, lifeVars
  <2>3. CASE ~LoopExit
    <3>1. lpc # "off" /\ loopRunning' = loopRunning
      BY <1>3, <2>3 DEF LoopStep, LoopWait, LoopPop, Dispatch, RunTask,
         CompleteCall, RunDueTasks, Recycle, DrainPop, loopVars
    <3>2. QED
      BY <2>1, <3>1 DEF LoopLife, lifeVars
  <2>4. QED
    BY <2>2, <2>3
<1>4. ASSUME InitHandler PROVE LoopLife'
  BY <1>4 DEF LoopLife, InitHandler
<1>5. ASSUME CreateLoopTask PROVE LoopLife'
  <2>1. state = "RUNNING" /\ lpc = "off" /\ loopRunning
    BY <1>5 DEF LoopLife, CreateLoopTask
  <2>2. CASE owner' = "idle" /\ UNCHANGED <<state, loopRunning>>
    BY <2>1, <2>2 DEF LoopLife
  <2>3. CASE /\ owner' = "rollback" /\ state' = "UNINIT"
             /\ loopRunning' = FALSE /\ lpc' = lpc
    BY <2>1, <2>3 DEF LoopLife
  <2>4. \/ owner' = "idle" /\ UNCHANGED <<state, loopRunning>>
        \/ /\ owner' = "rollback" /\ state' = "UNINIT"
           /\ loopRunning' = FALSE /\ lpc' = lpc
    BY <1>5, Zenon DEF CreateLoopTask
  <2>5. QED
    BY <2>2, <2>3, <2>4
<1>6. ASSUME RollbackInit PROVE LoopLife'
  BY <1>6 DEF LoopLife, RollbackInit, loopVars
<1>7. ASSUME Stop PROVE LoopLife'
  BY <1>7 DEF LoopLife, Stop, loopVars
<1>8. ASSUME StopTimer \/ DropDelayed \/ WakeLoop PROVE LoopLife'
  BY <1>8 DEF LoopLife, StopTimer, DropDelayed, WakeLoop, loopVars
<1>9. ASSUME StopPoll PROVE LoopLife'
  <2>1. UNCHANGED <<state, loopVars>>
    BY <1>9 DEF StopPoll
  <2>2. owner \in {"loop", "active", "queued", "waiters"}
    BY <1>9 DEF StopPoll, WaitNext
  <2>3. CASE owner = "loop"
    <3>1. WaitConditions[owner] /\ owner' = "active"
      BY <1>9, <2>3 DEF StopPoll, WaitNext
    <3>2. ~loopRunning
      BY <2>3, <3>1 DEF WaitConditions
    <3>3. QED
      BY <2>1, <2>3, <3>1, <3>2 DEF LoopLife, loopVars
  <2>4. CASE owner # "loop"
    <3>1. owner' \in {"active", "queued", "waiters", "release"}
      BY <1>9, <2>2, <2>4 DEF StopPoll, WaitNext
    <3>2. QED
      BY <2>1, <2>2, <2>4, <3>1 DEF LoopLife, loopVars
  <2>5. QED
    BY <2>3, <2>4
<1>10. ASSUME StopGiveUp PROVE LoopLife'
  BY <1>10 DEF LoopLife, StopGiveUp, loopVars
<1>11. ASSUME StopRelease PROVE LoopLife'
  BY <1>11 DEF LoopLife, StopRelease, loopVars
<1>12. ASSUME UNCHANGED vars PROVE LoopLife'
  BY <1>12 DEF LoopLife, vars, lifeVars, loopVars
<1>13. QED
  BY <1>1, <1>2, <1>3, <1>4, <1>5, <1>6, <1>7, <1>8, <1>9, <1>10, <1>11,
     <1>12
     DEF Next, BeginCall, TimerExpired, Threads, OwnerStep, StopStep

\* The posters between ring and semaphore are finitely many.
LEMMA PostersFinite == IsFiniteSet(Posters) /\ Cardinality(Posters) \in Nat
<1>1. IsFiniteSet(Posters)
  BY ThreadsFinite, FS_Subset DEF Posters
<1>2. QED
  BY <1>1, FS_CardinalityType

\* A step that takes no poster to its signal or past it, adds no message and
\* takes no signal and no turn of the loop.
LEMMA SignalledKept ==
    ASSUME TypeInv, Signalled, Posters' = Posters, Len(ring') \in Nat,
           queueSem' \in Nat, Len(ring') <= Len(ring), queueSem <= queueSem',
           lpc = "pop" => lpc' = "pop" \/ Len(ring') < Len(ring)
                          \/ Len(ring') = 0
    PROVE  Signalled'
<1>1. Len(ring) \in Nat /\ queueSem \in Nat
  BY HandlerAssumption DEF TypeInv, Shape, TypeOK, Capacity
<1>2. Cardinality(Posters) \in Nat
  BY PostersFinite
<1>3. Cardinality(Posters') = Cardinality(Posters)
  OBVIOUS
<1>4. /\ Popping \in {0, 1} /\ Popping' \in {0, 1}
      /\ lpc = "pop" => Popping = 1
      /\ lpc # "pop" => Popping = 0
      /\ lpc' = "pop" => Popping' = 1
  BY DEF Popping
<1>5. CASE Len(ring') = 0
  BY <1>1, <1>2, <1>3, <1>4, <1>5 DEF Signalled
<1>6. CASE Popping <= Popping'
  BY <1>1, <1>2, <1>3, <1>4, <1>6 DEF Signalled
<1>7. CASE Len(ring') < Len(ring)
  <2>1. Len(ring') + 1 <= Len(ring)
    BY <1>1, <1>7
  <2>2. Len(ring) <= queueSem + Cardinality(Posters) + 1
    BY <1>1, <1>2, <1>4 DEF Signalled
  <2>3. Len(ring') <= queueSem' + Cardinality(Posters')
    BY <1>1, <1>2, <1>3, <2>1, <2>2
  <2>4. QED
    BY <1>2, <1>3, <1>4, <2>3 DEF Signalled
<1>8. QED
  BY <1>4, <1>5, <1>6, <1>7

\* Enqueue: the message is covered by its poster, then by the signal.
LEMMA SignalledCall ==
    ASSUME TypeInv, Signalled, NEW t \in Threads, CallStep(t)
    PROVE  Signalled'
<1>1. /\ pc \in [Threads -> CallPc] /\ ring \in Seq(Message)
      /\ Len(ring) \in Nat /\ Len(ring) <= Capacity
      /\ queueSem \in 0 .. Capacity /\ Capacity \in Nat
      /\ Cardinality(Posters) \in Nat /\ IsFiniteSet(Posters)
  BY PostersFinite, HandlerAssumption DEF TypeInv, Shape, TypeOK, Capacity
<1>2. UNCHANGED loopVars
  BY DEF CallStep, LoadState, ClaimTimerMessage, PostDelayed, RemoveDelayed,
     AcquireWaiter, Allocate, EnqueueCheck, EnqueuePush, EnqueuePost,
     FreeSlot, RearmTimer, SemWait, FinishWait, Leave
<1>3. Popping' = Popping /\ Popping \in {0, 1} /\ lpc' = lpc
  BY <1>2 DEF Popping, loopVars
<1>4. CASE EnqueuePush(t) /\ ring' # ring
  <2>1. ring' = Append(ring, MessageOf(t)) /\ queueSem' = queueSem
    BY <1>4 DEF EnqueuePush
  <2>2. t \notin Posters /\ Posters' = Posters \cup {t}
    BY <1>1, <1>4 DEF EnqueuePush, Goto, Posters
  <2>3. Cardinality(Posters') = Cardinality(Posters) + 1
    BY <1>1, <2>2, FS_AddElement
  <2>4. Len(ring') = Len(ring) + 1
    BY <1>1, <2>1
  <2>5. QED
    BY <1>1, <1>3, <2>1, <2>3, <2>4 DEF Signalled
<1>5. CASE EnqueuePost(t)
  <2>1. t \in Posters /\ Posters' = Posters \ {t}
    BY <1>1, <1>5 DEF EnqueuePost, Return, Goto, Posters
  <2>2. IsFiniteSet(Posters') /\ Cardinality(Posters') = Cardinality(Posters) - 1
    BY <1>1, <2>1, FS_RemoveElement
  <2>3. Cardinality(Posters') \in Nat
    BY <2>2, FS_CardinalityType
  <2>4. ring' = ring /\ SemPostQueue
    BY <1>5 DEF EnqueuePost
  <2>5. CASE queueSem < Capacity
    <3>1. queueSem' = queueSem + 1
      BY <2>4, <2>5 DEF SemPostQueue
    <3>2. QED
      BY <1>1, <1>3, <2>2, <2>3, <2>4, <3>1 DEF Signalled
  <2>6. CASE ~(queueSem < Capacity)
    <3>1. queueSem' = queueSem /\ queueSem = Capacity
      BY <1>1, <2>4, <2>6 DEF SemPostQueue
    <3>2. QED
      BY <1>1, <1>3, <2>3, <2>4, <3>1 DEF Signalled
  <2>7. QED
    BY <2>5, <2>6
<1>6. CASE ~(EnqueuePush(t) /\ ring' # ring) /\ ~EnqueuePost(t)
  <2>1. UNCHANGED queueVars
    BY <1>6 DEF CallStep, LoadState, ClaimTimerMessage, PostDelayed,
       RemoveDelayed, AcquireWaiter, Allocate, EnqueueCheck, EnqueuePush,
       FreeSlot, RearmTimer, SemWait, FinishWait, Leave, queueVars
  <2>2. Posters' = Posters
    <3>1. \A u \in Threads : u # t => pc'[u] = pc[u]
      BY <1>1, <1>6 DEF CallStep, LoadState, ClaimTimerMessage, PostDelayed,
         RemoveDelayed, AcquireWaiter, Allocate, EnqueueCheck, EnqueuePush,
         FreeSlot, RearmTimer, SemWait, FinishWait, Leave, Return, Goto,
         EnqueueFailed
    <3>2. pc[t] # "post"
      BY <1>6 DEF CallStep, LoadState, ClaimTimerMessage, PostDelayed,
         RemoveDelayed, AcquireWaiter, Allocate, EnqueueCheck, EnqueuePush,
         FreeSlot, RearmTimer, SemWait, FinishWait, Leave
    <3>3. pc'[t] # "post"
      <4>1. CASE EnqueuePush(t)
        <5>1. Append(ring, MessageOf(t)) # ring
          BY <1>1
        <5>2. EnqueueFailed(t, "FAIL")
          BY <1>6, <4>1, <5>1 DEF EnqueuePush
        <5>3. QED
          BY <1>1, <5>2 DEF EnqueueFailed, Goto
      <4>2. CASE ~EnqueuePush(t)
        <5>1. CASE LoadState(t)
          BY <1>1, <5>1 DEF LoadState, Return, Goto, FirstStep, CallOp,
             CallInv, TypeInv, Shape, TypeOK
        <5>2. CASE ~LoadState(t)
          BY <1>1, <1>6, <4>2, <5>2 DEF CallStep, ClaimTimerMessage,
             PostDelayed, RemoveDelayed, AcquireWaiter, Allocate,
             EnqueueCheck, FreeSlot, RearmTimer, SemWait, FinishWait, Leave,
             Return, Goto, EnqueueFailed
        <5>3. QED
          BY <5>1, <5>2
      <4>3. QED
        BY <4>1, <4>2
    <3>4. QED
      BY <3>1, <3>2, <3>3 DEF Posters
  <2>3. QED
    BY <1>1, <1>3, <2>1, <2>2, SignalledKept DEF queueVars
<1>7. QED
  BY <1>4, <1>5, <1>6

\* The loop takes a signal before it takes a message.
LEMMA SignalledLoop ==
    ASSUME TypeInv, Signalled, LoopStep
    PROVE  Signalled'
<1>1. /\ ring \in Seq(Message) /\ Len(ring) \in Nat
      /\ queueSem \in Nat /\ Cardinality(Posters) \in Nat
  BY PostersFinite, HandlerAssumption DEF TypeInv, Shape, TypeOK, Capacity
<1>2. UNCHANGED callVars
  BY DEF LoopStep, LoopWait, LoopPop, Dispatch, RunTask, CompleteCall,
     RunDueTasks, Recycle, DrainPop, LoopExit
<1>3. Posters' = Posters
  BY <1>2 DEF Posters, callVars
<1>4. CASE LoopWait
  <2>1. ring' = ring /\ queueSem' = queueSem - 1 /\ Popping = 0 /\ Popping' = 1
    BY <1>4 DEF LoopWait, Popping
  <2>2. Cardinality(Posters') = Cardinality(Posters)
    BY <1>3
  <2>3. QED
    BY <1>1, <2>1, <2>2 DEF Signalled
<1>5. ASSUME ring # <<>>, ring' = Tail(ring), queueSem' = queueSem
      PROVE  Signalled'
  <2>1. Len(ring') \in Nat /\ Len(ring') < Len(ring)
    BY <1>1, <1>5
  <2>2. QED
    BY <1>1, <1>3, <1>5, <2>1, SignalledKept
<1>6. CASE LoopPop
  <2>1. ring = <<>> => Len(ring) = 0
    BY <1>1
  <2>2. CASE ring = <<>>
    BY <1>1, <1>3, <1>6, <2>1, <2>2, SignalledKept DEF LoopPop
  <2>3. CASE ring # <<>>
    BY <1>5, <1>6, <2>3 DEF LoopPop
  <2>4. QED
    BY <2>2, <2>3
<1>7. CASE DrainPop
  <2>1. CASE ring = <<>>
    BY <1>1, <1>3, <1>7, <2>1, SignalledKept DEF DrainPop
  <2>2. CASE ring # <<>>
    BY <1>5, <1>7, <2>2 DEF DrainPop
  <2>3. QED
    BY <2>1, <2>2
<1>8. CASE Dispatch \/ RunTask \/ CompleteCall \/ RunDueTasks \/ Recycle
           \/ LoopExit
  <2>1. UNCHANGED queueVars /\ lpc # "pop"
    BY <1>8 DEF Dispatch, RunTask, CompleteCall, RunDueTasks, Recycle, LoopExit
  <2>2. QED
    BY <1>1, <1>3, <2>1, SignalledKept DEF queueVars
<1>9. QED
  BY <1>4, <1>6, <1>7, <1>8 DEF LoopStep

\* The owner adds a signal, or empties the ring together with its semaphore.
LEMMA SignalledOwner ==
    ASSUME TypeInv, LoopLife, Signalled, InitHandler \/ Stop \/ OwnerStep
    PROVE  Signalled'
<1>1. /\ ring \in Seq(Message) /\ Len(ring) \in Nat
      /\ queueSem \in Nat /\ Cardinality(Posters) \in Nat
  BY PostersFinite, HandlerAssumption DEF TypeInv, Shape, TypeOK, Capacity
<1>2. UNCHANGED callVars
  BY DEF OwnerStep, StopStep, InitHandler, CreateLoopTask, RollbackInit, Stop,
     StopTimer, DropDelayed, WakeLoop, StopPoll, StopGiveUp, StopRelease
<1>3. Posters' = Posters
  BY <1>2 DEF Posters, callVars
<1>4. CASE ReleaseObjects
  <2>1. ring' = <<>> /\ queueSem' = 0
    BY <1>4 DEF ReleaseObjects
  <2>2. Len(ring') = 0 /\ Popping' \in {0, 1}
    BY <2>1 DEF Popping
  <2>3. Cardinality(Posters') = Cardinality(Posters)
    BY <1>3
  <2>4. QED
    BY <1>1, <2>1, <2>2, <2>3 DEF Signalled
<1>5. CASE ~ReleaseObjects
  <2>1. lpc = "pop" => lpc' = "pop"
    BY <1>5 DEF OwnerStep, StopStep, InitHandler, CreateLoopTask, RollbackInit,
       Stop, StopTimer, DropDelayed, WakeLoop, StopPoll, StopGiveUp,
       StopRelease, loopVars, LoopLife
  <2>2. ring' = ring /\ (queueSem' = queueSem \/ SemPostQueue)
    BY <1>5 DEF OwnerStep, StopStep, InitHandler, CreateLoopTask, RollbackInit,
       Stop, StopTimer, DropDelayed, WakeLoop, StopPoll, StopGiveUp,
       StopRelease, queueVars
  <2>3. queueSem' \in Nat /\ queueSem <= queueSem'
    BY <1>1, <2>2 DEF SemPostQueue
  <2>4. QED
    BY <1>1, <1>3, <2>1, <2>2, <2>3, SignalledKept
<1>6. QED
  BY <1>4, <1>5

\* The invariant of messages and signals is inductive.
LEMMA WakeInvStep ==
    ASSUME TypeInv, WakeInv, [Next]_vars
    PROVE  WakeInv'
<1>1. LoopLife /\ Signalled /\ LoopLife'
  BY LoopLifeStep DEF WakeInv
<1>2. Len(ring) \in Nat /\ queueSem \in Nat
  BY HandlerAssumption DEF TypeInv, Shape, TypeOK, Capacity
<1>3. ASSUME NEW t \in Threads, NEW kind, Begin(t, kind) PROVE Signalled'
  <2>1. UNCHANGED <<queueVars, loopVars>>
    BY <1>3 DEF Begin
  <2>2. Posters' = Posters
    BY <1>3 DEF Begin, Goto, Posters, TypeInv, Shape, TypeOK
  <2>3. QED
    BY <1>1, <1>2, <2>1, <2>2, SignalledKept DEF queueVars, loopVars
<1>4. ASSUME UNCHANGED vars PROVE Signalled'
  BY <1>1, <1>2, <1>4, SignalledKept
     DEF vars, queueVars, callVars, loopVars, Posters
<1>5. Signalled'
  BY <1>1, <1>3, <1>4, SignalledCall, SignalledLoop, SignalledOwner
     DEF Next, BeginCall, TimerExpired, Threads
<1>6. QED
  BY <1>1, <1>5 DEF WakeInv

\* It holds when the handler object is constructed.
LEMMA WakeInvInit == Init => WakeInv
<1> SUFFICES ASSUME Init PROVE WakeInv
  OBVIOUS
<1>1. LoopLife
  BY DEF Init, LoopLife, StopPc
<1>2. Len(ring) = 0 /\ queueSem = 0 /\ Popping = 0
  BY DEF Init, Popping
<1>3. QED
  BY <1>1, <1>2, PostersFinite DEF WakeInv, Signalled

\* No wake-up is lost: whenever the loop sleeps and the ring holds a message,
\* a signal is there for it or its poster is about to give one, whatever Init,
\* Stop and the drain do (Enqueue, RunLoop, PopLocked, ReleaseObjects).
THEOREM WakeupsAreNotLost == Spec => []NoLostWakeup
<1>1. Init => TypeInv /\ WakeInv
  BY TypeInvInit, WakeInvInit
<1>2. TypeInv /\ WakeInv /\ [Next]_vars => (TypeInv /\ WakeInv)'
  BY TypeInvStep, WakeInvStep
<1>3. TypeInv /\ WakeInv => NoLostWakeup
  <2> SUFFICES ASSUME TypeInv, Signalled, lpc = "wait", ring # <<>>,
                      queueSem = 0, Posters = {}
               PROVE  FALSE
    BY HandlerAssumption DEF NoLostWakeup, WakeInv, Posters, TypeInv, Shape,
       TypeOK, Capacity
  <2>1. Len(ring) \in Nat /\ Len(ring) > 0
    BY DEF TypeInv, Shape, TypeOK
  <2>2. Cardinality(Posters) = 0 /\ Popping = 0
    BY FS_EmptySet DEF Popping
  <2>3. QED
    BY <2>1, <2>2 DEF Signalled
<1>4. QED
  BY <1>1, <1>2, <1>3, PTL DEF Spec

-----------------------------------------------------------------------------
(***************************************************************************)
(* The delayed table.  A handler that is never stopped keeps a non-empty   *)
(* table watched: the timer counts, or its expiry is on the way through    *)
(* the callback, the message and the loop to RunDueTasks.                  *)
(***************************************************************************)
WatchInv ==
    /\ state # "STOPPING"
    /\ ~loopStopping /\ lpc \notin {"recycle", "drain", "exit"}
    /\ state = "UNINIT" => delayed = 0
    /\ DelayedHasTimer

\* Where the timer callback is while the table relies on it.
OnTheWay == pc[TimerTask] \in {"load", "exchange", "check", "push", "rearm"}

\* A posting call arms the timer when it makes the table non-empty, and the
\* callback hands the expiry on.
LEMMA WatchCall ==
    ASSUME TypeInv, LifeInv, TimerInv, WatchInv,
           NEW t \in Threads, CallStep(t)
    PROVE  WatchInv'
<1>1. /\ pc \in [Threads -> CallPc] /\ TimerTask \in Threads
      /\ delayed \in Nat /\ timerArmed \in BOOLEAN /\ timerQueued \in BOOLEAN
      /\ op \in [Threads -> CallOp] /\ CallInv /\ TimerOps /\ TimerPlace
  BY DEF TypeInv, TimerInv, Shape, TypeOK, Threads
<1>2. UNCHANGED <<lifeVars, loopVars>>
  BY DEF CallStep, LoadState, ClaimTimerMessage, PostDelayed, RemoveDelayed,
     AcquireWaiter, Allocate, EnqueueCheck, EnqueuePush, EnqueuePost,
     FreeSlot, RearmTimer, SemWait, FinishWait, Leave
<1>3. /\ state' = state /\ lpc' = lpc
      /\ (state # "STOPPING" /\ ~loopStopping
          /\ lpc \notin {"recycle", "drain", "exit"})'
  BY <1>2 DEF lifeVars, loopVars, WatchInv
<1>4. state = "UNINIT" => Quiet(t) /\ delayed = 0
  BY DEF LifeInv, AllQuiet, WatchInv
<1>5. CASE PostDelayed(t) \/ RemoveDelayed(t)
  <2>1. pc[t] = "table" /\ t # TimerTask
    BY <1>1, <1>5 DEF PostDelayed, RemoveDelayed, TimerOps
  <2>2. pc'[TimerTask] = pc[TimerTask] /\ timerQueued' = timerQueued
    BY <1>1, <1>5, <2>1 DEF PostDelayed, RemoveDelayed, Return, Goto
  <2>3. state # "UNINIT"
    BY <1>4, <2>1 DEF Quiet
  <2>4. \/ ArmTimer(delayed')
        \/ delayed > 0 /\ timerArmed' = timerArmed
        \/ delayed' = delayed /\ timerArmed' = timerArmed
    BY <1>1, <1>5 DEF PostDelayed, RemoveDelayed
  <2>5. DelayedHasTimer'
    BY <1>3, <2>2, <2>4 DEF ArmTimer, DelayedHasTimer, WatchInv
  <2>6. QED
    BY <1>3, <2>3, <2>5 DEF WatchInv
<1>6. CASE ~(PostDelayed(t) \/ RemoveDelayed(t))
  <2>1. delayed' = delayed /\ (timerArmed' = timerArmed \/ RearmTimer(t))
    BY <1>6 DEF CallStep, LoadState, ClaimTimerMessage, AcquireWaiter,
       Allocate, EnqueueCheck, EnqueuePush, EnqueuePost, FreeSlot, RearmTimer,
       SemWait, FinishWait, Leave, timerVars
  <2>2. CASE RearmTimer(t)
    BY <1>3, <1>4, <2>1, <2>2 DEF RearmTimer, DelayedHasTimer, WatchInv
  <2>3. CASE ~RearmTimer(t)
    <3>1. timerQueued => timerQueued'
      BY <1>6, <2>3 DEF CallStep, LoadState, ClaimTimerMessage, AcquireWaiter,
         Allocate, EnqueueCheck, EnqueuePush, EnqueuePost, FreeSlot, SemWait,
         FinishWait, Leave, timerVars
    <3>2. ASSUME state = "RUNNING", OnTheWay
          PROVE  OnTheWay' \/ timerQueued'
      <4>1. CASE t # TimerTask
        <5>1. pc'[TimerTask] = pc[TimerTask]
          BY <1>1, <1>6, <2>3, <4>1 DEF CallStep, LoadState,
             ClaimTimerMessage, AcquireWaiter, Allocate, EnqueueCheck,
             EnqueuePush, EnqueuePost, FreeSlot, SemWait, FinishWait, Leave,
             Return, Goto, EnqueueFailed
        <5>2. QED
          BY <3>2, <5>1 DEF OnTheWay
      <4>2. CASE t = TimerTask
        <5>1. op[t] = "timer"
          BY <1>1, <3>2, <4>2 DEF OnTheWay, CallInv, TimerOps
        <5>2. CASE LoadState(t)
          BY <1>1, <3>2, <4>2, <5>1, <5>2 DEF LoadState, Return, Goto,
             FirstStep, OnTheWay
        <5>3. CASE ClaimTimerMessage(t)
          BY <5>3 DEF ClaimTimerMessage
        <5>4. CASE EnqueueCheck(t) \/ EnqueuePush(t)
          <6>1. timerQueued
            BY <1>1, <4>2, <5>4 DEF EnqueueCheck, EnqueuePush, TimerPlace,
               Claimed
          <6>2. QED
            BY <3>1, <6>1
        <5>5. QED
          BY <1>6, <2>3, <3>2, <4>2, <5>2, <5>3, <5>4 DEF OnTheWay, CallStep,
             AcquireWaiter, Allocate, EnqueuePost, FreeSlot, SemWait,
             FinishWait, Leave
      <4>3. QED
        BY <4>1, <4>2
    <3>3. DelayedHasTimer'
      BY <1>3, <2>1, <2>3, <3>1, <3>2 DEF DelayedHasTimer, OnTheWay, WatchInv
    <3>4. QED
      BY <1>3, <1>4, <2>1, <3>3 DEF WatchInv
  <2>4. QED
    BY <2>2, <2>3
<1>7. QED
  BY <1>5, <1>6

\* The loop never sees a stop; it arms the timer for what RunDueTasks leaves.
LEMMA WatchLoop ==
    ASSUME TypeInv, LifeInv, WatchInv, LoopStep
    PROVE  WatchInv'
<1>1. UNCHANGED <<lifeVars, callVars>>
  BY DEF LoopStep, LoopWait, LoopPop, Dispatch, RunTask, CompleteCall,
     RunDueTasks, Recycle, DrainPop, LoopExit
<1>2. state' = state /\ pc' = pc
  BY <1>1 DEF lifeVars, callVars
<1>3. lpc # "off"
  BY DEF LoopStep, LoopWait, LoopPop, Dispatch, RunTask, CompleteCall,
     RunDueTasks, Recycle, DrainPop, LoopExit
<1>4. state = "RUNNING"
  BY <1>3 DEF LifeInv, WatchInv, TypeInv, Shape, TypeOK
<1>5. ~loopStopping /\ AfterMessage = "wait" /\ DelayedHasTimer
  BY DEF WatchInv, AfterMessage
<1>6. CASE RunDueTasks
  <2>1. PICK left \in 0 .. delayed : delayed' = left /\ ArmTimer(left)
    BY <1>6 DEF RunDueTasks
  <2>2. loopStopping' = loopStopping /\ lpc' = "wait"
    BY <1>5, <1>6 DEF RunDueTasks
  <2>3. DelayedHasTimer'
    BY <2>1 DEF ArmTimer, DelayedHasTimer
  <2>4. QED
    BY <1>2, <1>4, <1>5, <2>2, <2>3 DEF WatchInv
<1>7. CASE Dispatch
  <2>1. delayed' = delayed /\ timerArmed' = timerArmed
        /\ loopStopping' = loopStopping /\ lpc = "dispatch"
    BY <1>7 DEF Dispatch
  <2>2. (lpc' = "due") \/ (lpc' = "run" /\ timerQueued' = timerQueued)
    BY <1>4, <1>7 DEF Dispatch
  <2>3. QED
    BY <1>2, <1>4, <1>5, <2>1, <2>2 DEF WatchInv, DelayedHasTimer
<1>8. CASE LoopWait \/ LoopPop \/ RunTask \/ CompleteCall
  <2>1. UNCHANGED timerVars /\ lpc # "due"
        /\ (loopStopping' = loopStopping \/ loopStopping' = (state # "RUNNING"))
    BY <1>8 DEF LoopWait, LoopPop, RunTask, CompleteCall
  <2>2. lpc' \in {"pop", "dispatch", "wait", "complete"}
    BY <1>4, <1>5, <1>8 DEF LoopWait, LoopPop, RunTask, CompleteCall
  <2>3. ~loopStopping'
    <3>1. (state # "RUNNING") = FALSE
      BY <1>4
    <3>2. QED
      BY <1>5, <2>1, <3>1, Zenon
  <2>4. DelayedHasTimer'
    BY <1>2, <1>4, <1>5, <2>1, <2>2 DEF DelayedHasTimer, timerVars
  <2>5. QED
    BY <1>2, <1>4, <2>2, <2>3, <2>4 DEF WatchInv
<1>9. ~Recycle /\ ~DrainPop /\ ~LoopExit
  BY DEF Recycle, DrainPop, LoopExit, WatchInv
<1>10. QED
  BY <1>6, <1>7, <1>8, <1>9 DEF LoopStep

\* The owner only brings the handler up.
LEMMA WatchOwner ==
    ASSUME ~TaskCreateCanFail, ~MayStop, LifeInv, WatchInv,
           InitHandler \/ Stop \/ OwnerStep
    PROVE  WatchInv'
<1>1. owner # "rollback" /\ owner \notin StopPc
  BY DEF LifeInv, WatchInv
<1>2. InitHandler \/ CreateLoopTask
  BY <1>1 DEF OwnerStep, StopStep, RollbackInit, Stop, StopTimer, DropDelayed,
     WakeLoop, StopPoll, StopGiveUp, StopRelease, StopPc, WaitNext
<1>3. CASE InitHandler
  BY <1>3 DEF InitHandler, WatchInv, DelayedHasTimer, timerVars
<1>4. CASE CreateLoopTask
  <2>1. lpc = "off" /\ state' = state /\ lpc' = "wait" /\ ~loopStopping'
        /\ UNCHANGED <<timerVars, callVars>>
    BY <1>4 DEF CreateLoopTask, LifeInv
  <2>2. QED
    BY <2>1 DEF WatchInv, DelayedHasTimer, timerVars, callVars
<1>5. QED
  BY <1>2, <1>3, <1>4

\* The invariant of the watched table is inductive.
LEMMA WatchInvStep ==
    ASSUME ~TaskCreateCanFail, ~MayStop, TypeInv, LifeInv, TimerInv, WatchInv,
           [Next]_vars
    PROVE  WatchInv'
<1>1. pc \in [Threads -> CallPc] /\ TimerTask \in Threads
  BY DEF TypeInv, Shape, TypeOK, Threads
<1>2. ASSUME NEW t \in Callers, BeginCall(t) PROVE WatchInv'
  <2>1. t # TimerTask
    BY HandlerAssumption
  <2>2. pc'[TimerTask] = pc[TimerTask]
    BY <1>1, <1>2, <2>1 DEF BeginCall, Begin, Goto
  <2>3. UNCHANGED <<lifeVars, loopVars, delayed, timerQueued, timerArmed>>
    BY <1>2 DEF BeginCall, Begin
  <2>4. QED
    BY <2>2, <2>3 DEF WatchInv, DelayedHasTimer, lifeVars, loopVars
<1>3. ASSUME TimerExpired PROVE WatchInv'
  BY <1>1, <1>3 DEF TimerExpired, Begin, Goto, WatchInv, DelayedHasTimer,
     lifeVars, loopVars
<1>4. ASSUME UNCHANGED vars PROVE WatchInv'
  BY <1>4 DEF vars, lifeVars, loopVars, timerVars, callVars, WatchInv,
     DelayedHasTimer
<1>5. QED
  BY <1>2, <1>3, <1>4, WatchCall, WatchLoop, WatchOwner DEF Next

\* It holds when the handler object is constructed.
LEMMA WatchInvInit == Init => WatchInv
  BY DEF Init, WatchInv, DelayedHasTimer

\* In a handler that is not stopped no delayed task is forgotten: as long as
\* the table holds one, the timer counts or its expiry is on the way to
\* RunDueTasks, also when the ring refused it (PostAsyncTask, RemoveAsyncTask,
\* OnTimerExpired, Dispatch, RunDueTasks).
THEOREM DelayedTasksAreWatched ==
    ASSUME ~TaskCreateCanFail, ~MayStop
    PROVE  Spec => []DelayedHasTimer
<1>1. Init => TypeInv /\ LifeInv /\ TimerInv /\ WatchInv
  BY TypeInvInit, LifeInvInit, TimerInvInit, WatchInvInit
<1>2. TypeInv /\ LifeInv /\ TimerInv /\ WatchInv /\ [Next]_vars
        => (TypeInv /\ LifeInv /\ TimerInv /\ WatchInv)'
  BY TypeInvStep, LifeInvStep, TimerInvStep, WatchInvStep
<1>3. WatchInv => DelayedHasTimer
  BY DEF WatchInv
<1>4. QED
  BY <1>1, <1>2, <1>3, PTL DEF Spec
=============================================================================
