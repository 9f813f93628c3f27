-------------------------- MODULE CallServiceProofs --------------------------
(***************************************************************************)
(* Theorems about the start and stop of the service and about its          *)
(* registrations, for every set of clients, callbacks and stacks, every    *)
(* size of the queue and every choice of permissions.                      *)
(***************************************************************************)
EXTENDS CallService, TLAPS

\* The steps of the clients' tasks and of the owner: they post and give up
\* posts, and decide nothing on the loop.
Outside == (\E c \in Clients : ClientStep(c)) \/ OwnerStep

\* What the tasks of the loop and the stack work on.
insideVars == <<lpc, got, serviceVars, connectionVars, callbackVars, stackVars>>

LEMMA OutsideSteps ==
    ASSUME Outside
    PROVE  UNCHANGED insideVars
<1>1. ASSUME NEW c \in Clients, ClientStep(c)
      PROVE  UNCHANGED insideVars
  BY <1>1 DEF ClientStep, ClientInit, ClientInitDone, ClientUnInit,
       ClientUnInitDone, BeginCall, PostCall, TimeOut, insideVars, loopVars,
       serviceVars, connectionVars, callbackVars, stackVars
<1>2. ASSUME OwnerStep
      PROVE  UNCHANGED insideVars
  BY <1>2 DEF OwnerStep, MiniStart, PostInit, MiniStop, PostLifecycle,
       OwnerTimesOut, StopLoop, JoinLoop, insideVars, loopVars,
       serviceVars, connectionVars, callbackVars, stackVars
<1> QED BY <1>1, <1>2 DEF Outside

-----------------------------------------------------------------------------
(***************************************************************************)
(* The two registrations of the callback.                                  *)
(***************************************************************************)
\* Only a stop of the service and the calls of a client touch a registration.
LEMMA CallbackSteps ==
    ASSUME [Next]_vars
    PROVE  \/ UNCHANGED callbackVars
           \/ ServiceDetach
           \/ \E op, cb : ClientCall(op, cb)
<1>1. CASE LoopStep
  <2>1. CASE RunClientCall
    BY <2>1 DEF RunClientCall
  <2>2. CASE ServiceDetach
    BY <2>2
  <2> QED
    BY <1>1, <2>1, <2>2 DEF LoopStep, Take, Drain, ServiceInit, ServiceReady,
         ServiceUnInit, RegisterCallbackOnLoop, AttachUplink, HandleReport,
         HandleRequest, Deliver, ReturnFromCallback
<1>2. CASE \E op \in ClientOp : CallFromCallback(op)
  BY <1>2 DEF CallFromCallback
<1>3. CASE StackStep
  BY <1>3 DEF StackStep, StackRegister, StackSnapshot, StackNotify,
       StackWithdraw, StackReport
<1>4. CASE Outside
  BY <1>4, OutsideSteps DEF insideVars
<1>5. CASE UNCHANGED vars
  BY <1>5 DEF vars
<1> QED BY <1>1, <1>2, <1>3, <1>4, <1>5 DEF Next, Outside

\* ReportsAgree is inductive as it stands.
LEMMA AgreeStep ==
    ASSUME ReportsAgree, [Next]_vars
    PROVE  ReportsAgree'
<1> USE DEF ReportsAgree
<1>1. CASE UNCHANGED callbackVars
  BY <1>1 DEF callbackVars
<1>2. CASE ServiceDetach
  BY <1>2 DEF ServiceDetach
<1>3. ASSUME NEW op, NEW cb, ClientCall(op, cb)
      PROVE  ReportsAgree'
  <2>1. CASE RegisterCallBack(cb)
    BY <2>1 DEF RegisterCallBack, callbackVars
  <2>2. CASE UnRegisterCallBack
    BY <2>2 DEF UnRegisterCallBack, callbackVars
  <2>3. CASE CloseCallBack
    BY <2>3 DEF CloseCallBack
  <2>4. CASE ObserverOnCallDetailsChange \/ DialCall \/ ControlCall
    BY <2>4 DEF ObserverOnCallDetailsChange, DialCall, ControlCall, callbackVars
  <2> QED BY <1>3, <2>1, <2>2, <2>3, <2>4 DEF ClientCall
<1> QED BY <1>1, <1>2, <1>3, CallbackSteps

\* The report proxy of the service and the proxy of the client agree on the
\* callback, and it is not closed: also after a refused or a late
\* registration, a UnInit of the client, a stop of the service, and calls the
\* callback makes itself.
THEOREM RegistrationsAgree == Spec => []ReportsAgree
<1>1. Init => ReportsAgree
  BY DEF Init, ReportsAgree
<1> QED BY <1>1, AgreeStep, PTL DEF Spec

-----------------------------------------------------------------------------
(***************************************************************************)
(* A service that is down has left none of what it holds behind.           *)
(*                                                                         *)
(* CleanWhenNotReady alone is not inductive.  ServiceDetach takes the      *)
(* uplink back only if callbackRegistered_ says so, hence UplinkKnown; and *)
(* the tasks that are cut into steps must find at the second step what     *)
(* they left at the first, hence Midway.                                   *)
(***************************************************************************)
StackTypes ==
    /\ stack \in Stacks \cup {NoStack}
    /\ uplink \subseteq Stacks /\ strays \subseteq Stacks

\* A connection that holds no registration has left the uplink at no stack,
\* save those a stop did not reach.
UplinkKnown == ~callbackRegistered => Linked = {}

Midway ==
    /\ lpc = "detach" => ~ready /\ ~initialized /\ ~listening
    /\ lpc = "attach" => /\ ready /\ ~callbackRegistered
                         /\ got \in Stacks

CleanInv == StackTypes /\ UplinkKnown /\ Midway /\ CleanWhenNotReady

\* The calls of a client need a service that is ready, or only remove.
LEMMA CallsNeedService ==
    ASSUME NEW op, NEW cb, ClientCall(op, cb), ~ready, calls = 0,
           reportCb = NoCallback
    PROVE  calls' = 0 /\ reportCb' = NoCallback
BY DEF ClientCall, RegisterCallBack, UnRegisterCallBack, CloseCallBack,
     ObserverOnCallDetailsChange, DialCall, ControlCall, callbackVars

LEMMA CleanStep ==
    ASSUME CleanInv, [Next]_vars
    PROVE  CleanInv'
<1> USE ServiceAssumption DEF CleanInv, StackTypes, UplinkKnown, Midway,
        CleanWhenNotReady, Linked
<1>1. CASE Take
  BY <1>1 DEF Take, serviceVars, connectionVars, callbackVars, stackVars
<1>2. CASE Drain
  BY <1>2 DEF Drain, serviceVars, connectionVars, callbackVars, stackVars
<1>3. CASE ServiceInit
  <2> USE DEF ServiceInit, Running, Finish, LoopDone, InitSteps, callbackVars
  <2>1. CASE ready
    BY <1>3, <2>1 DEF serviceVars
  <2>2. CASE lpc' = "watch"
    BY <1>3, <2>2
  <2>3. CASE ~ready /\ lpc' # "watch"
    <3>1. PICK failed \in FailingSteps : InitSteps(failed) /\ lpc' = "idle"
      BY <1>3, <2>3
    <3>2. failed # 0
      BY DEF ServiceAssumption
    <3>3. ~control' /\ ~handler'
      BY <3>1, <3>2
    <3>4. ~initialized' /\ ~listening'
      BY <1>3, <2>3, <3>1, <3>2
    <3>5. UNCHANGED <<ready, calls, reportCb, callbackRegistered, stack,
                      uplink, strays>>
      BY <1>3, <2>3
    <3> QED BY <1>3, <2>3, <3>1, <3>3, <3>4, <3>5
  <2> QED BY <2>1, <2>2, <2>3
<1>4. CASE ServiceReady
  BY <1>4 DEF ServiceReady, Finish, LoopDone, connectionVars, callbackVars, stackVars
<1>5. CASE ServiceUnInit
  BY <1>5 DEF ServiceUnInit, Running, Finish, LoopDone, callbackVars
<1>6. CASE ServiceDetach
  BY <1>6 DEF ServiceDetach, Finish, LoopDone
<1>7. CASE RegisterCallbackOnLoop
  BY <1>7 DEF RegisterCallbackOnLoop, WantsUplink, Running, LoopDone,
       serviceVars, connectionVars, callbackVars, stackVars
<1>8. CASE AttachUplink
  BY <1>8 DEF AttachUplink, LoopDone, serviceVars, callbackVars
<1>9. CASE HandleReport
  BY <1>9 DEF HandleReport, UpdateReportInfo, Running, LoopDone,
       connectionVars, callbackVars, stackVars
<1>10. CASE RunClientCall
  BY <1>10, CallsNeedService DEF RunClientCall, Finish, LoopDone,
       connectionVars, stackVars
<1>11. CASE HandleRequest \/ Deliver \/ ReturnFromCallback
  BY <1>11 DEF HandleRequest, Deliver, ReturnFromCallback, Running, LoopDone,
       serviceVars, connectionVars, callbackVars, stackVars
<1>12. ASSUME NEW op \in ClientOp, CallFromCallback(op)
       PROVE  CleanInv'
  BY <1>12, CallsNeedService DEF CallFromCallback, callbackVars,
       connectionVars, stackVars
<1>13. CASE StackRegister
  BY <1>13 DEF StackRegister, SameInstance, NewInstance, loopVars,
       serviceVars, connectionVars, callbackVars
<1>14. CASE StackSnapshot \/ StackNotify \/ StackReport
  BY <1>14 DEF StackSnapshot, StackNotify, StackReport, loopVars, serviceVars,
       connectionVars, callbackVars, stackVars
<1>15. CASE StackWithdraw
  BY <1>15 DEF StackWithdraw, loopVars, serviceVars, connectionVars, callbackVars
<1>16. CASE Outside
  BY <1>16, OutsideSteps DEF insideVars, serviceVars, connectionVars,
       callbackVars, stackVars
<1>17. CASE UNCHANGED vars
  BY <1>17 DEF vars, loopVars, serviceVars, connectionVars, callbackVars, stackVars
<1> QED
  BY <1>1, <1>2, <1>3, <1>4, <1>5, <1>6, <1>7, <1>8, <1>9, <1>10, <1>11, <1>12,
     <1>13, <1>14, <1>15, <1>16, <1>17 DEF Next, LoopStep, StackStep, Outside

LEMMA CleanInit == Init => CleanInv
BY ServiceAssumption DEF Init, CleanInv, StackTypes, UplinkKnown, Midway,
     CleanWhenNotReady, Linked

LEMMA CleanAlways == Spec => []CleanInv
BY CleanInit, CleanStep, PTL DEF Spec

\* A service that is not ready holds no observer, manager, call, listener or
\* callback, and the stack holds its uplink only if it was not registered when
\* the service went down, however Init failed and whatever tasks of its
\* earlier life the loop still serves.
THEOREM StoppedIsClean == Spec => []CleanWhenNotReady
BY CleanAlways, PTL DEF CleanInv

\* RegisterCallbackOnLoop gives a stack the uplink a second time only after a
\* stop that did not reach it, however often it is scheduled and whatever stack
\* comes in between.
THEOREM UplinkIsGivenOnce == Spec => UplinkOnce
<1>1. CleanInv /\ [Next]_vars => [lpc = "attach" /\ callbackRegistered' => got \notin Linked]_vars
  BY DEF CleanInv, Midway, UplinkKnown
<1> QED BY <1>1, CleanAlways, PTL DEF Spec, UplinkOnce
-----------------------------------------------------------------------------
(***************************************************************************)
(* The type invariant: the queue keeps its bound through every post, and   *)
(* a task that is given up stays a task.                                   *)
(***************************************************************************)
QueueOK(q) == q \in Seq(Tasks) /\ Len(q) <= QueueSize

\* A task posted to a queue that has room.
LEMMA QueueAppend ==
    ASSUME NEW q, QueueOK(q), Len(q) < QueueSize, NEW t \in Tasks
    PROVE  QueueOK(Append(q, t))
  BY ServiceAssumption DEF QueueOK

\* PostSyncTask finds room.
LEMMA RoomToPost ==
    ASSUME CanPostSync
    PROVE  Len(queue) < QueueSize
  BY DEF CanPostSync, CanPost

\* PostAsyncTask keeps the bound.
LEMMA PostAsyncOK ==
    ASSUME NEW q, QueueOK(q), NEW op \in AsyncOp,
           NEW cb \in Callbacks \cup {NoCallback}
    PROVE  QueueOK(PostAsync(q, op, cb))
<1>1. Task(op, cb, Nobody) \in Tasks
  BY DEF Task, Tasks
<1>2. QED
  BY <1>1, QueueAppend DEF PostAsync

\* n reports posted one after the other are cut off at the bound.
LEMMA ReportsOK ==
    ASSUME QueueOK(queue), reportCb \in Callbacks \cup {NoCallback},
           NEW n \in Nat
    PROVE  QueueOK(Reports(n))
<1> DEFINE room == QueueSize - Len(queue)
           k == Least(n, room)
           t == Task("deliver", reportCb, Nobody)
           more == [i \in 1 .. k |-> t]
<1>1. room \in Nat /\ Len(queue) \in Nat
  BY ServiceAssumption DEF QueueOK
<1>2. k \in Nat /\ k <= room
  BY <1>1 DEF Least
<1>3. t \in Tasks
  BY DEF Task, Tasks, AsyncOp
<1>4. more \in Seq(Tasks) /\ Len(more) = k
  BY <1>2, <1>3
<1> HIDE DEF more, k
<1>5. queue \o more \in Seq(Tasks) /\ Len(queue \o more) = Len(queue) + k
  BY <1>4 DEF QueueOK
<1>6. QueueOK(queue \o more)
  BY <1>1, <1>2, <1>5, ServiceAssumption DEF QueueOK
<1>7. Reports(n) \in {queue, queue \o more}
  BY DEF Reports, more, k
<1>8. QED
  BY <1>6, <1>7

LEMMA BroadcastOK ==
    ASSUME QueueOK(queue), reportCb \in Callbacks \cup {NoCallback},
           NEW q \in Broadcast
    PROVE  QueueOK(q)
  BY ReportsOK, ServiceAssumption DEF Broadcast

\* The calls of a client keep the types of what they work on.
LEMMA ClientCallTypes ==
    ASSUME TypeOK, NEW op, NEW cb \in Callbacks \cup {NoCallback},
           ClientCall(op, cb)
    PROVE  /\ QueueOK(queue') /\ calls' \in 0 .. MaxCalls
           /\ reportCb' \in Callbacks \cup {NoCallback}
           /\ proxyCb' \in Callbacks \cup {NoCallback}
           /\ closed' \subseteq Callbacks /\ registerStatus' \in BOOLEAN
<1>1. /\ QueueOK(queue) /\ calls \in 0 .. MaxCalls /\ calls \in Nat
      /\ reportCb \in Callbacks \cup {NoCallback}
      /\ proxyCb \in Callbacks \cup {NoCallback}
      /\ closed \subseteq Callbacks /\ registerStatus \in BOOLEAN
  BY ServiceAssumption DEF TypeOK, QueueOK
<1>2. CASE op = "register" /\ RegisterCallBack(cb)
  BY <1>1, <1>2 DEF RegisterCallBack, callbackVars
<1>3. CASE UnRegisterCallBack
  BY <1>1, <1>3 DEF UnRegisterCallBack, callbackVars, Close
<1>4. CASE CloseCallBack
  BY <1>1, <1>4 DEF CloseCallBack, Close
<1>5. CASE ObserverOnCallDetailsChange
  BY <1>1, <1>5, ReportsOK DEF ObserverOnCallDetailsChange, callbackVars
<1>6. CASE DialCall
  <2>1. QueueOK(queue')
    BY <1>1, <1>6, BroadcastOK DEF DialCall
  <2>2. calls' \in 0 .. MaxCalls
    BY <1>1, <1>6, ServiceAssumption DEF DialCall
  <2>3. QED
    BY <1>1, <1>6, <2>1, <2>2 DEF DialCall, callbackVars
<1>7. CASE ControlCall
  <2>1. QueueOK(queue')
    <3>1. CASE queue' = queue
      BY <1>1, <3>1
    <3>2. CASE \E q \in Broadcast :
                  queue' \in {q, PostAsync(q, "request", NoCallback)}
      BY <1>1, <3>2, BroadcastOK, PostAsyncOK DEF AsyncOp
    <3>3. QED
      BY <1>7, <3>1, <3>2 DEF ControlCall
  <2>2. QED
    BY <1>1, <1>7, <2>1 DEF ControlCall, callbackVars
<1>8. QED
  BY <1>2, <1>3, <1>4, <1>5, <1>6, <1>7 DEF ClientCall

\* A bounded wait that runs out changes no more than who reads the result.
LEMMA AbandonTypes ==
    ASSUME QueueOK(queue), hand \in Tasks \cup {NoTask}, NEW w, Abandon(w)
    PROVE  /\ QueueOK(queue') /\ hand' \in Tasks \cup {NoTask}
           /\ DOMAIN queue' = DOMAIN queue
           /\ \A i \in DOMAIN queue : /\ queue'[i].op = queue[i].op
                                      /\ queue'[i].cb = queue[i].cb
           /\ hand'.op = hand.op /\ hand'.cb = hand.cb
<1> DEFINE left(t) == IF t.by = w THEN [t EXCEPT !.by = Nobody] ELSE t
<1>1. ASSUME NEW t \in Tasks
      PROVE  left(t) \in Tasks /\ left(t).op = t.op /\ left(t).cb = t.cb
  BY DEF Tasks
<1>2. hand' = left(hand) /\ queue' = [i \in DOMAIN queue |-> left(queue[i])]
  BY DEF Abandon
<1>3. left(NoTask) = NoTask
  BY DEF NoTask, Task
<1> HIDE DEF left
<1>4. DOMAIN queue = 1 .. Len(queue) /\ Len(queue) \in Nat
      /\ \A i \in DOMAIN queue : queue[i] \in Tasks
  BY DEF QueueOK
<1>5. queue' \in Seq(Tasks) /\ Len(queue') = Len(queue)
      /\ DOMAIN queue' = DOMAIN queue
  BY <1>1, <1>2, <1>4
<1>6. \A i \in DOMAIN queue : queue'[i].op = queue[i].op
                              /\ queue'[i].cb = queue[i].cb
  BY <1>1, <1>2, <1>4
<1>7. hand' \in Tasks \cup {NoTask} /\ hand'.op = hand.op /\ hand'.cb = hand.cb
  BY <1>1, <1>2, <1>3
<1>8. QED
  BY <1>5, <1>6, <1>7 DEF QueueOK

\* Where the tasks that wait for the loop are when it has answered.
LEMMA AnswerTypes ==
    ASSUME TypeOK, NEW ws, NEW ok, Answer(ws, ok)
    PROVE  /\ cpc' \in [Clients -> {"idle", "init", "post", "wait", "fini"}]
           /\ opc' \in {"idle", "start", "starting", "stopping", "stop", "join"}
  BY DEF TypeOK, Answer

\* The tasks of the loop keep the types.
LEMMA TypesLoop ==
    ASSUME TypeOK, CleanInv, LoopStep
    PROVE  TypeOK'
<1> USE ServiceAssumption DEF TypeOK, Finish, LoopDone, loopVars, serviceVars,
        connectionVars, callbackVars, initVars, stackVars, clientVars
<1>1. CASE Take
  <2>1. QueueOK(queue') /\ hand' \in Tasks
    BY <1>1 DEF Take, QueueOK
  <2>2. QED
    BY <1>1, <2>1 DEF Take, QueueOK
<1>2. CASE Drain
  <2>1. queue' \in Seq(Tasks) /\ Len(queue') <= QueueSize
    BY <1>2 DEF Drain
  <2>2. QED
    BY <1>2, <2>1, AnswerTypes DEF Drain
<1>3. CASE ServiceInit
  <2>1. /\ control' \in BOOLEAN /\ handler' \in BOOLEAN
        /\ initialized' \in BOOLEAN /\ listening' \in BOOLEAN
    BY <1>3 DEF ServiceInit, InitSteps
  <2>2. /\ lpc' \in {"idle", "watch"} /\ hand' \in {hand, NoTask}
        /\ \/ UNCHANGED <<cpc, opc>>
           \/ \E ok \in BOOLEAN : Answer({hand.by}, ok)
    BY <1>3 DEF ServiceInit
  <2>3. UNCHANGED <<ready, calls>>
    BY <1>3 DEF ServiceInit
  <2>4. /\ cpc' \in [Clients -> {"idle", "init", "post", "wait", "fini"}]
        /\ opc' \in {"idle", "start", "starting", "stopping", "stop", "join"}
    BY <2>2, AnswerTypes
  <2>5. QED
    BY <1>3, <2>1, <2>2, <2>3, <2>4 DEF ServiceInit
<1>4. CASE ServiceReady
  <2>1. QueueOK(queue')
    BY <1>4, PostAsyncOK DEF ServiceReady, QueueOK, AsyncOp
  <2>2. QED
    BY <1>4, <2>1, AnswerTypes DEF ServiceReady, QueueOK
<1>5. CASE ServiceUnInit
  BY <1>5, AnswerTypes DEF ServiceUnInit
<1>6. CASE ServiceDetach
  <2>1. /\ uplink' \subseteq Stacks /\ strays' \subseteq Stacks
        /\ 0 \in 0 .. MaxCalls
    BY <1>6 DEF ServiceDetach
  <2>2. QED
    BY <1>6, <2>1, AnswerTypes DEF ServiceDetach
<1>7. CASE RegisterCallbackOnLoop
  BY <1>7 DEF RegisterCallbackOnLoop
<1>8. CASE AttachUplink
  <2>1. got \in Stacks
    BY <1>8 DEF AttachUplink, CleanInv, Midway
  <2>2. QED
    BY <1>8, <2>1 DEF AttachUplink
<1>9. CASE HandleReport
  <2>1. QueueOK(queue') /\ calls' \in 0 .. MaxCalls
    BY <1>9, BroadcastOK DEF HandleReport, UpdateReportInfo, QueueOK
  <2>2. QED
    BY <1>9, <2>1 DEF HandleReport, QueueOK
<1>10. CASE RunClientCall
  <2>1. hand.cb \in Callbacks \cup {NoCallback} /\ ClientCall(hand.op, hand.cb)
    BY <1>10 DEF RunClientCall, Tasks, NoTask, Task
  <2>2. QED
    BY <1>10, <2>1, ClientCallTypes, AnswerTypes DEF RunClientCall, QueueOK
<1>11. CASE HandleRequest \/ Deliver \/ ReturnFromCallback
  BY <1>11 DEF HandleRequest, Deliver, ReturnFromCallback
<1>12. QED
  BY <1>1, <1>2, <1>3, <1>4, <1>5, <1>6, <1>7, <1>8, <1>9, <1>10, <1>11
     DEF LoopStep

\* The owner's posts keep the bound of the queue.
LEMMA LifecyclePosted ==
    ASSUME QueueOK(queue), NEW op \in {"init", "uninit"}, NEW wait,
           PostLifecycle(op, wait)
    PROVE  QueueOK(queue')
<1>1. Task(op, NoCallback, Owner) \in Tasks
  BY DEF Task, Tasks, SyncOp
<1>2. CASE CanPostSync
  <2>1. queue' = Append(queue, Task(op, NoCallback, Owner))
    BY <1>2 DEF PostLifecycle
  <2>2. QED
    BY <1>1, <1>2, <2>1, RoomToPost, QueueAppend
<1>3. CASE ~CanPostSync
  BY <1>3 DEF PostLifecycle
<1>4. QED
  BY <1>2, <1>3

\* So do the calls the application makes inside its callback, the clients'
\* tasks, the stack and the owner.
LEMMA TypesOthers ==
    ASSUME TypeOK,
           \/ \E op \in ClientOp : CallFromCallback(op)
           \/ \E c \in Clients : ClientStep(c)
           \/ StackStep \/ OwnerStep
    PROVE  TypeOK'
<1> USE ServiceAssumption DEF TypeOK, Goto, loopVars, serviceVars,
        connectionVars, callbackVars, initVars, stackVars, clientVars
<1>1. ASSUME NEW op \in ClientOp, CallFromCallback(op) PROVE TypeOK'
  <2>1. \A cb \in Free \cup {NoCallback} : cb \in Callbacks \cup {NoCallback}
    BY DEF Free
  <2>2. \/ UNCHANGED <<callbackVars, queue, calls>>
        \/ \E cb \in Callbacks \cup {NoCallback} : ClientCall(op, cb)
    BY <1>1, <2>1 DEF CallFromCallback
  <2>3. /\ QueueOK(queue') /\ calls' \in 0 .. MaxCalls
        /\ reportCb' \in Callbacks \cup {NoCallback}
        /\ proxyCb' \in Callbacks \cup {NoCallback}
        /\ closed' \subseteq Callbacks /\ registerStatus' \in BOOLEAN
    BY <2>2, ClientCallTypes DEF QueueOK
  <2>4. QED
    BY <1>1, <2>3 DEF CallFromCallback, QueueOK
<1>2. ASSUME NEW c \in Clients, ClientStep(c) PROVE TypeOK'
  <2>1. CASE ClientInit(c) \/ ClientInitDone(c) \/ ClientUnInit(c)
             \/ ClientUnInitDone(c)
    <3>1. /\ cpc' \in [Clients -> {"idle", "init", "post", "wait", "fini"}]
          /\ cop' \in [Clients -> {"plain", "register", "close"}]
          /\ isInit' \in BOOLEAN /\ initStatus' \in BOOLEAN
      BY <2>1 DEF ClientInit, ClientInitDone, ClientUnInit, ClientUnInitDone
    <3>2. UNCHANGED <<loopVars, serviceVars, connectionVars, callbackVars,
                      stackVars, missed, ccb, opc>>
      BY <2>1 DEF ClientInit, ClientInitDone, ClientUnInit, ClientUnInitDone
    <3>3. QED
      BY <3>1, <3>2
  <2>2. CASE BeginCall(c)
    BY <2>2 DEF BeginCall, Free
  <2>3. CASE PostCall(c)
    <3>1. QueueOK(queue')
      <4>1. ASSUME NEW op \in IF cop[c] = "plain" THEN PlainOp ELSE {cop[c]}
            PROVE  Task(op, ccb[c], c) \in Tasks
        BY DEF Task, Tasks, PlainOp, ClientOp, SyncOp
      <4>2. CASE CanPostSync
        <5>1. PICK op \in IF cop[c] = "plain" THEN PlainOp ELSE {cop[c]} :
                   queue' = Append(queue, Task(op, ccb[c], c))
          BY <2>3, <4>2 DEF PostCall
        <5>2. QED
          BY <4>1, <4>2, <5>1, RoomToPost, QueueAppend DEF QueueOK
      <4>3. CASE ~CanPostSync
        BY <2>3, <4>3 DEF PostCall, QueueOK
      <4>4. QED
        BY <4>2, <4>3
    <3>2. QED
      BY <2>3, <3>1 DEF PostCall, QueueOK
  <2>4. CASE TimeOut(c)
    BY <2>4, AbandonTypes DEF TimeOut, QueueOK
  <2>5. QED
    BY <1>2, <2>1, <2>2, <2>3, <2>4 DEF ClientStep
<1>3. ASSUME StackStep PROVE TypeOK'
  <2>1. QueueOK(queue')
    <3>1. queue' \in {queue, PostAsync(queue, "uplink", NoCallback),
                      PostAsync(queue, "report", NoCallback)}
      BY <1>3 DEF StackStep, StackRegister, StackSnapshot, StackNotify,
         StackWithdraw, StackReport
    <3>2. QED
      <4>1. QueueOK(queue)
        BY DEF QueueOK
      <4>2. QueueOK(PostAsync(queue, "uplink", NoCallback))
        BY <4>1, PostAsyncOK DEF AsyncOp
      <4>3. QueueOK(PostAsync(queue, "report", NoCallback))
        BY <4>1, PostAsyncOK DEF AsyncOp
      <4>4. QED
        BY <3>1, <4>1, <4>2, <4>3
  <2>2. /\ stack' \in Stacks \cup {NoStack}
        /\ uplink' \subseteq Stacks /\ strays' \subseteq Stacks
        /\ spc' \in {"idle", "snapshot", "notify"} /\ missed' \in BOOLEAN
    BY <1>3 DEF StackStep, StackRegister, SameInstance, NewInstance,
       StackSnapshot, StackNotify, StackWithdraw, StackReport
  <2>3. UNCHANGED <<loopState, lpc, hand, last, got, nested, serviceVars,
                    connectionVars, callbackVars, initVars, listening,
                    clientVars, opc>>
    BY <1>3 DEF StackStep, StackRegister, StackSnapshot, StackNotify,
       StackWithdraw, StackReport
  <2>4. {last, nested, ready, control, handler, initialized,
         callbackRegistered, isInit, initStatus, registerStatus, listening,
         missed}' \subseteq BOOLEAN
    BY <2>2, <2>3
  <2>5. QED
    BY <2>1, <2>2, <2>3, <2>4 DEF QueueOK
<1>4. ASSUME OwnerStep PROVE TypeOK'
  <2>1. CASE PostInit \/ MiniStop
    <3>1. PICK op \in {"init", "uninit"}, wait \in {"starting", "stopping"} :
               PostLifecycle(op, wait)
      BY <2>1 DEF PostInit, MiniStop
    <3>2. QueueOK(queue)
      BY DEF QueueOK
    <3>3. QueueOK(queue')
      BY <3>1, <3>2, LifecyclePosted
    <3>4. /\ opc' \in {"starting", "stopping", "stop"}
          /\ UNCHANGED <<loopState, lpc, hand, last, got, nested, serviceVars,
                         connectionVars, callbackVars, initVars, stackVars,
                         missed, clientVars>>
      BY <3>1 DEF PostLifecycle
    <3>5. {last, nested, ready, control, handler, initialized,
           callbackRegistered, isInit, initStatus, registerStatus, listening,
           missed}' \subseteq BOOLEAN
      BY <3>4
    <3>6. QED
      BY <3>3, <3>4, <3>5 DEF QueueOK
  <2>2. CASE OwnerTimesOut
    BY <2>2, AbandonTypes DEF OwnerTimesOut, QueueOK
  <2>3. CASE MiniStart \/ StopLoop \/ JoinLoop
    BY <2>3 DEF MiniStart, StopLoop, JoinLoop
  <2>4. QED
    BY <1>4, <2>1, <2>2, <2>3 DEF OwnerStep
<1>5. QED
  BY <1>1, <1>2, <1>3, <1>4

LEMMA TypesStep ==
    ASSUME TypeOK, CleanInv, [Next]_vars
    PROVE  TypeOK'
<1>1. CASE UNCHANGED vars
  BY <1>1 DEF vars, TypeOK, loopVars, serviceVars, connectionVars,
     callbackVars, initVars, stackVars, clientVars
<1>2. QED
  BY <1>1, TypesLoop, TypesOthers DEF Next

\* It holds before the loop is started.
LEMMA TypesInit == Init => TypeOK
<1> SUFFICES ASSUME Init PROVE TypeOK
  OBVIOUS
<1>1. queue \in Seq(Tasks) /\ Len(queue) <= QueueSize
  BY ServiceAssumption DEF Init
<1>2. 0 \in 0 .. MaxCalls
  BY ServiceAssumption
<1>3. QED
  BY <1>1, <1>2 DEF Init, TypeOK

-----------------------------------------------------------------------------
(***************************************************************************)
(* What a step adds to the queue.  The loop and the stack post behind what *)
(* is there: notices, reports of the stack, requests, and reports for the  *)
(* callback that is registered with the service.                           *)
(***************************************************************************)
Told(r) ==
    /\ r \in Seq(Tasks)
    /\ \A i \in DOMAIN r :
          \/ r[i].op \in {"uplink", "report", "request"}
          \/ r[i].op = "deliver" /\ r[i].cb = reportCb /\ reportCb # NoCallback

Extends(q) == \E r : Told(r) /\ q = queue \o r

\* Nothing is posted.
LEMMA ExtendsNone ==
    ASSUME QueueOK(queue)
    PROVE  Extends(queue)
<1>1. queue = queue \o <<>> /\ Told(<<>>)
  BY DEF QueueOK, Told
<1>2. QED
  BY <1>1 DEF Extends

\* PostAsyncTask posts at the end, unless the queue is full or stopped.
LEMMA ExtendsPostAsync ==
    ASSUME QueueOK(queue), NEW q, Extends(q),
           NEW op \in {"uplink", "report", "request"}
    PROVE  Extends(PostAsync(q, op, NoCallback))
<1> DEFINE t == Task(op, NoCallback, Nobody)
<1>1. t \in Tasks /\ t.op = op
  BY DEF Task, Tasks, AsyncOp
<1>2. PostAsync(q, op, NoCallback) \in {q, Append(q, t)}
  BY DEF PostAsync
<1> HIDE DEF t
<1>3. PICK r : Told(r) /\ q = queue \o r
  BY DEF Extends
<1>4. r \in Seq(Tasks) /\ queue \in Seq(Tasks)
  BY <1>3 DEF Told, QueueOK
<1>5. Append(q, t) = queue \o Append(r, t)
  BY <1>1, <1>3, <1>4
<1>6. Told(Append(r, t))
  <2>1. Append(r, t) \in Seq(Tasks)
    BY <1>1, <1>4
  <2>2. ASSUME NEW i \in DOMAIN Append(r, t)
        PROVE  Append(r, t)[i] = t \/ (i \in DOMAIN r /\ Append(r, t)[i] = r[i])
    BY <1>1, <1>4
  <2>3. QED
    BY <1>1, <1>3, <2>1, <2>2 DEF Told
<1>7. QED
  BY <1>2, <1>3, <1>5, <1>6 DEF Extends

\* A notice is in the queue when it could be posted.
LEMMA NoticePosted ==
    ASSUME QueueOK(queue), PostAsync(queue, "uplink", NoCallback) # queue
    PROVE  \E i \in DOMAIN PostAsync(queue, "uplink", NoCallback) :
              PostAsync(queue, "uplink", NoCallback)[i].op = "uplink"
<1> DEFINE t == Task("uplink", NoCallback, Nobody)
<1>1. t \in Tasks /\ t.op = "uplink"
  BY DEF Task, Tasks, AsyncOp
<1>2. PostAsync(queue, "uplink", NoCallback) = Append(queue, t)
  BY DEF PostAsync
<1> HIDE DEF t
<1>3. /\ Len(queue) + 1 \in DOMAIN Append(queue, t)
      /\ Append(queue, t)[Len(queue) + 1] = t
  BY <1>1 DEF QueueOK
<1>4. QED
  BY <1>1, <1>2, <1>3

\* Reports for the application are posted at the end, for the callback that
\* is registered with the service.
LEMMA ExtendsReports ==
    ASSUME QueueOK(queue), reportCb \in Callbacks \cup {NoCallback},
           NEW n \in Nat
    PROVE  Extends(Reports(n))
<1> DEFINE k == Least(n, QueueSize - Len(queue))
           t == Task("deliver", reportCb, Nobody)
           more == [i \in 1 .. k |-> t]
<1>1. k \in Nat
  BY ServiceAssumption DEF Least, QueueOK
<1>2. t \in Tasks /\ t.op = "deliver" /\ t.cb = reportCb
  BY DEF Task, Tasks, AsyncOp
<1>3. more \in Seq(Tasks) /\ \A i \in DOMAIN more : more[i] = t
  BY <1>1, <1>2
<1>4. CASE reportCb # NoCallback /\ loopState = "RUNNING"
  <2>1. Reports(n) = queue \o more
    BY <1>4 DEF Reports
  <2> HIDE DEF more, t
  <2>2. Told(more)
    BY <1>2, <1>3, <1>4 DEF Told
  <2>3. QED
    BY <2>1, <2>2 DEF Extends
<1>5. CASE ~(reportCb # NoCallback /\ loopState = "RUNNING")
  <2>1. Reports(n) = queue
    BY <1>5 DEF Reports
  <2>2. QED
    BY <2>1, ExtendsNone
<1>6. QED
  BY <1>4, <1>5

LEMMA ExtendsBroadcast ==
    ASSUME QueueOK(queue), reportCb \in Callbacks \cup {NoCallback},
           NEW q \in Broadcast
    PROVE  Extends(q)
  BY ExtendsReports, ExtendsNone, ServiceAssumption DEF Broadcast

\* A client's call posts nothing else.
LEMMA ExtendsClientCall ==
    ASSUME TypeOK, NEW op, NEW cb, ClientCall(op, cb)
    PROVE  Extends(queue')
<1>1. /\ QueueOK(queue) /\ calls \in Nat
      /\ reportCb \in Callbacks \cup {NoCallback}
  BY ServiceAssumption DEF TypeOK, QueueOK
<1>2. CASE RegisterCallBack(cb) \/ UnRegisterCallBack \/ CloseCallBack
  BY <1>1, <1>2, ExtendsNone DEF RegisterCallBack, UnRegisterCallBack,
     CloseCallBack
<1>3. CASE ObserverOnCallDetailsChange
  BY <1>1, <1>3, ExtendsReports, ExtendsNone DEF ObserverOnCallDetailsChange
<1>4. CASE DialCall
  BY <1>1, <1>4, ExtendsBroadcast, ExtendsNone DEF DialCall
<1>5. CASE ControlCall
  <2>1. CASE queue' = queue
    BY <1>1, <2>1, ExtendsNone
  <2>2. CASE \E q \in Broadcast :
                queue' \in {q, PostAsync(q, "request", NoCallback)}
    BY <1>1, <2>2, ExtendsBroadcast, ExtendsPostAsync
  <2>3. QED
    BY <1>5, <2>1, <2>2 DEF ControlCall
<1>6. QED
  BY <1>2, <1>3, <1>4, <1>5 DEF ClientCall

\* The steps of the loop and of the stack: one takes the first task, one
\* empties the queue, the others add to it.
LEMMA QueueSteps ==
    ASSUME TypeOK,
           \/ LoopStep
           \/ \E op \in ClientOp : CallFromCallback(op)
           \/ StackStep
    PROVE  \/ Take \/ Drain
           \/ Extends(queue') /\ hand' \in {hand, NoTask}
<1>1. /\ QueueOK(queue) /\ Extends(queue)
      /\ reportCb \in Callbacks \cup {NoCallback}
  BY ExtendsNone DEF TypeOK, QueueOK
<1>2. CASE ServiceInit \/ ServiceUnInit \/ ServiceDetach
           \/ RegisterCallbackOnLoop \/ AttachUplink \/ HandleRequest
           \/ Deliver \/ ReturnFromCallback
  BY <1>1, <1>2 DEF ServiceInit, ServiceUnInit, ServiceDetach,
     RegisterCallbackOnLoop, AttachUplink, HandleRequest, Deliver,
     ReturnFromCallback, Finish, LoopDone
<1>3. CASE ServiceReady
  BY <1>1, <1>3, ExtendsPostAsync DEF ServiceReady, Finish, LoopDone
<1>4. CASE HandleReport
  <2>1. hand' = NoTask /\ (queue' = queue \/ queue' \in Broadcast)
    BY <1>4 DEF HandleReport, UpdateReportInfo, LoopDone
  <2>2. QED
    BY <1>1, <2>1, ExtendsBroadcast
<1>5. CASE RunClientCall
  BY <1>5, ExtendsClientCall DEF RunClientCall, Finish, LoopDone
<1>6. ASSUME NEW op \in ClientOp, CallFromCallback(op)
      PROVE  Extends(queue') /\ hand' = hand
  BY <1>1, <1>6, ExtendsClientCall DEF CallFromCallback
<1>7. CASE StackStep
  <2>1. hand' = hand /\ queue' \in {queue, PostAsync(queue, "uplink", NoCallback),
                                    PostAsync(queue, "report", NoCallback)}
    BY <1>7 DEF StackStep, StackRegister, StackSnapshot, StackNotify,
       StackWithdraw, StackReport, loopVars
  <2>2. /\ Extends(PostAsync(queue, "uplink", NoCallback))
        /\ Extends(PostAsync(queue, "report", NoCallback))
    BY <1>1, ExtendsPostAsync
  <2>3. QED
    BY <1>1, <2>1, <2>2
<1>8. QED
  BY <1>2, <1>3, <1>4, <1>5, <1>6, <1>7 DEF LoopStep

-----------------------------------------------------------------------------
(***************************************************************************)
(* The uplink.  The registry's listener is in place as long as the         *)
(* connection is initialised, so a stack that comes finds it; and a notice *)
(* in the queue stays until the loop takes it.                             *)
(***************************************************************************)
Noticed == \E i \in DOMAIN queue : queue[i].op = "uplink"

Watching ==
    /\ initialized => listening
    /\ ready \/ lpc = "watch" => initialized
    /\ lpc = "idle" => hand = NoTask
    /\ lpc = "app" => hand.op = "deliver"

UplinkInv == Watching /\ UplinkNotMissed

\* What is posted behind a notice leaves it where it is.
LEMMA NoticeStays ==
    ASSUME TypeOK, Noticed, Extends(queue')
    PROVE  Noticed'
<1>1. PICK r : Told(r) /\ queue' = queue \o r
  BY DEF Extends
<1>2. PICK i \in DOMAIN queue : queue[i].op = "uplink"
  BY DEF Noticed
<1>3. i \in DOMAIN queue' /\ queue'[i] = queue[i]
  BY <1>1, <1>2 DEF Told, TypeOK
<1>4. QED
  BY <1>2, <1>3 DEF Noticed

\* The loop takes the first task and no other.
LEMMA NoticeTaken ==
    ASSUME TypeOK, Noticed, Take
    PROVE  Noticed' \/ hand'.op = "uplink"
<1>1. PICK i \in DOMAIN queue : queue[i].op = "uplink"
  BY DEF Noticed
<1>2. /\ queue \in Seq(Tasks) /\ queue # <<>> /\ i \in 1 .. Len(queue)
      /\ hand' = queue[1] /\ queue' = Tail(queue)
  BY <1>1 DEF Take, TypeOK
<1>3. CASE i = 1
  BY <1>1, <1>2, <1>3
<1>4. CASE i # 1
  <2>1. i - 1 \in DOMAIN queue' /\ queue'[i - 1] = queue[i]
    BY <1>2, <1>4
  <2>2. QED
    BY <1>1, <2>1 DEF Noticed
<1>5. QED
  BY <1>3, <1>4

\* The client tasks and the owner leave notices as they are.
LEMMA NoticeOutside ==
    ASSUME TypeOK, Outside
    PROVE  /\ Noticed => Noticed'
           /\ hand'.op = hand.op
           /\ missed' = missed
<1>1. QueueOK(queue)
  BY DEF TypeOK, QueueOK
<1>2. ASSUME NEW w, Abandon(w)
      PROVE  (Noticed => Noticed') /\ hand'.op = hand.op
  BY <1>1, <1>2, AbandonTypes DEF Noticed, TypeOK
<1>3. ASSUME NEW t \in Tasks, queue' = Append(queue, t)
      PROVE  Noticed => Noticed'
  <2>1. \A i \in DOMAIN queue : i \in DOMAIN queue' /\ queue'[i] = queue[i]
    BY <1>1, <1>3 DEF QueueOK
  <2>2. QED
    BY <2>1 DEF Noticed
<1>4. ASSUME NEW c \in Clients, ClientStep(c)
      PROVE  (Noticed => Noticed') /\ hand'.op = hand.op /\ missed' = missed
  <2>1. CASE TimeOut(c)
    BY <1>2, <2>1 DEF TimeOut
  <2>2. CASE PostCall(c)
    <3>1. \/ queue' = queue
          \/ \E op \in IF cop[c] = "plain" THEN PlainOp ELSE {cop[c]} :
                queue' = Append(queue, Task(op, ccb[c], c))
      BY <2>2 DEF PostCall
    <3>2. ASSUME NEW op \in IF cop[c] = "plain" THEN PlainOp ELSE {cop[c]}
          PROVE  Task(op, ccb[c], c) \in Tasks
      BY DEF TypeOK, Task, Tasks, PlainOp, ClientOp, SyncOp
    <3>3. Noticed => Noticed'
      BY <1>3, <3>1, <3>2 DEF Noticed
    <3>4. QED
      BY <2>2, <3>3 DEF PostCall
  <2>3. CASE ~TimeOut(c) /\ ~PostCall(c)
    BY <1>4, <2>3 DEF ClientStep, ClientInit, ClientInitDone, ClientUnInit,
       ClientUnInitDone, BeginCall, loopVars, Noticed
  <2>4. QED
    BY <2>1, <2>2, <2>3
<1>5. ASSUME OwnerStep
      PROVE  (Noticed => Noticed') /\ hand'.op = hand.op /\ missed' = missed
  <2>1. CASE OwnerTimesOut
    BY <1>2, <2>1 DEF OwnerTimesOut
  <2>2. ASSUME NEW op \in {"init", "uninit"}, NEW wait, PostLifecycle(op, wait)
        PROVE  (Noticed => Noticed') /\ hand' = hand /\ missed' = missed
    <3>1. Task(op, NoCallback, Owner) \in Tasks
      BY DEF Task, Tasks, SyncOp
    <3>2. QED
      BY <1>3, <2>2, <3>1 DEF PostLifecycle, Noticed
  <2>3. CASE PostInit \/ MiniStop
    BY <2>2, <2>3 DEF PostInit, MiniStop
  <2>4. CASE MiniStart \/ StopLoop \/ JoinLoop
    BY <2>4 DEF MiniStart, StopLoop, JoinLoop, Noticed
  <2>5. QED
    BY <1>5, <2>1, <2>3, <2>4 DEF OwnerStep
<1>6. QED
  BY <1>4, <1>5 DEF Outside

\* The listener is in place while the service is ready, and the loop holds no
\* task between two.
LEMMA WatchingStep ==
    ASSUME TypeOK, CleanInv, Watching, [Next]_vars
    PROVE  Watching'
<1> USE DEF Watching, Finish, LoopDone, loopVars, serviceVars, connectionVars,
        stackVars, callbackVars
<1>1. CASE Take
  BY <1>1 DEF Take
<1>2. CASE Drain
  BY <1>2 DEF Drain
<1>3. CASE ServiceInit
  <2>1. CASE ready
    BY <1>3, <2>1 DEF ServiceInit
  <2>2. CASE ~ready
    <3>1. /\ ready' = ready /\ lpc' # "app"
          /\ lpc' = "watch" => initialized'
          /\ lpc' = "idle" => hand' = NoTask
          /\ initialized' => initialized \/ listening'
          /\ listening => listening'
      BY <1>3, <2>2, ServiceAssumption DEF ServiceInit, InitSteps
    <3>2. initialized => initialized'
      BY <1>3, <2>2 DEF ServiceInit, InitSteps
    <3>3. QED
      BY <2>2, <3>1, <3>2
  <2>3. QED
    BY <2>1, <2>2
<1>4. CASE ServiceReady
  BY <1>4 DEF ServiceReady
<1>5. CASE ServiceUnInit
  BY <1>5 DEF ServiceUnInit
<1>6. CASE ServiceDetach
  BY <1>6 DEF ServiceDetach, CleanInv, Midway
<1>7. CASE RegisterCallbackOnLoop \/ AttachUplink \/ HandleReport
           \/ RunClientCall \/ HandleRequest \/ Deliver \/ ReturnFromCallback
  <2>1. UNCHANGED <<ready, initialized, listening>>
    BY <1>7 DEF RegisterCallbackOnLoop, AttachUplink, HandleReport,
       RunClientCall, HandleRequest, Deliver, ReturnFromCallback
  <2>2. \/ lpc' = "idle" /\ hand' = NoTask
        \/ lpc' = "attach"
        \/ lpc' = "app" /\ hand'.op = "deliver"
    BY <1>7 DEF RegisterCallbackOnLoop, AttachUplink, HandleReport, Running,
       RunClientCall, HandleRequest, Deliver, ReturnFromCallback
  <2>3. QED
    BY <2>1, <2>2
<1>8. CASE \E op \in ClientOp : CallFromCallback(op)
  BY <1>8 DEF CallFromCallback
<1>9. CASE StackStep
  BY <1>9 DEF StackStep, StackRegister, StackSnapshot, StackNotify,
     StackWithdraw, StackReport
<1>10. CASE Outside
  <2>1. UNCHANGED insideVars /\ (hand = NoTask => hand' = NoTask)
        /\ hand'.op = hand.op
    <3>1. hand = NoTask => hand' = NoTask
      BY <1>10, ServiceAssumption DEF Outside, ClientStep, ClientInit,
         ClientInitDone, ClientUnInit, ClientUnInitDone, BeginCall, PostCall,
         TimeOut, Abandon, OwnerStep, MiniStart, PostInit, MiniStop,
         PostLifecycle, OwnerTimesOut, StopLoop, JoinLoop, NoTask, Task
    <3>2. QED
      BY <1>10, <3>1, OutsideSteps, NoticeOutside
  <2>2. QED
    BY <2>1 DEF insideVars
<1>11. CASE UNCHANGED vars
  BY <1>11 DEF vars
<1>12. QED
  BY <1>1, <1>2, <1>3, <1>4, <1>5, <1>6, <1>7, <1>8, <1>9, <1>10, <1>11
     DEF Next, LoopStep, Outside

\* A notice goes from the registry into the queue, from there to the loop and
\* ends in a registration, or its loss is noted.
LEMMA UplinkStep ==
    ASSUME TypeOK, CleanInv, UplinkInv, [Next]_vars
    PROVE  UplinkNotMissed'
<1>1. QueueOK(queue) /\ Watching /\ UplinkNotMissed
  BY DEF TypeOK, QueueOK, UplinkInv
<1> USE DEF UplinkNotMissed, NoticePending, Noticed, Running, Finish, LoopDone
<1>2. CASE Take
  BY <1>1, <1>2, NoticeTaken DEF Take, serviceVars, connectionVars, stackVars,
     Watching, NoTask, Task
<1>3. CASE Drain
  BY <1>1, <1>3 DEF Drain, serviceVars, connectionVars, stackVars
<1>4. ASSUME Extends(queue')
      PROVE  Noticed => Noticed'
  BY <1>4, NoticeStays
<1>5. CASE ServiceInit
  BY <1>1, <1>5 DEF ServiceInit
<1>6. CASE ServiceReady
  BY <1>1, <1>6, NoticePosted DEF ServiceReady, stackVars, connectionVars
<1>7. CASE ServiceUnInit
  BY <1>1, <1>7 DEF ServiceUnInit
<1>8. CASE ServiceDetach
  BY <1>8 DEF ServiceDetach, CleanInv, Midway
<1>9. CASE RegisterCallbackOnLoop
  BY <1>1, <1>9 DEF RegisterCallbackOnLoop, WantsUplink, Watching,
     serviceVars, connectionVars, stackVars
<1>10. CASE AttachUplink
  BY <1>1, <1>10 DEF AttachUplink, serviceVars
<1>11. CASE HandleReport \/ RunClientCall \/ HandleRequest \/ Deliver
            \/ ReturnFromCallback
  <2>1. Extends(queue')
    BY <1>11, QueueSteps DEF LoopStep, HandleReport, RunClientCall,
       HandleRequest, Deliver, ReturnFromCallback, Take, Drain
  <2>2. UNCHANGED <<ready, connectionVars, stackVars, missed>>
    BY <1>11 DEF HandleReport, RunClientCall, HandleRequest, Deliver,
       ReturnFromCallback, serviceVars
  <2>3. lpc # "attach" /\ hand.op # "uplink"
    <3>1. CASE HandleReport \/ HandleRequest \/ Deliver
      BY <3>1 DEF HandleReport, HandleRequest, Deliver
    <3>2. CASE RunClientCall
      BY <3>2 DEF RunClientCall, ClientOp, PlainOp
    <3>3. CASE ReturnFromCallback
      BY <3>3 DEF ReturnFromCallback, UplinkInv, Watching
    <3>4. QED
      BY <1>11, <3>1, <3>2, <3>3
  <2>4. QED
    BY <1>1, <1>4, <2>1, <2>2, <2>3 DEF stackVars, connectionVars
<1>12. ASSUME NEW op \in ClientOp, CallFromCallback(op)
       PROVE  UplinkNotMissed'
  <2>1. Extends(queue')
    BY <1>12, QueueSteps DEF CallFromCallback, Take, Drain
  <2>2. UNCHANGED <<lpc, hand, ready, connectionVars, stackVars, missed>>
    BY <1>12 DEF CallFromCallback
  <2>3. QED
    BY <1>1, <1>4, <2>1, <2>2 DEF stackVars, connectionVars
<1>13. CASE StackRegister
  BY <1>13 DEF StackRegister
<1>14. CASE StackSnapshot
  BY <1>1, <1>14 DEF StackSnapshot, Watching, loopVars, serviceVars,
     connectionVars
<1>15. CASE StackNotify
  BY <1>1, <1>15, NoticePosted DEF StackNotify, serviceVars, connectionVars
<1>16. CASE StackWithdraw
  BY <1>16 DEF StackWithdraw
<1>17. CASE StackReport
  <2>1. Extends(queue')
    BY <1>1, <1>17, ExtendsPostAsync, ExtendsNone DEF StackReport
  <2>2. QED
    BY <1>1, <1>4, <1>17, <2>1 DEF StackReport, serviceVars, connectionVars,
       stackVars
<1>18. CASE Outside
  BY <1>1, <1>18, OutsideSteps, NoticeOutside DEF insideVars, serviceVars,
     connectionVars, stackVars
<1>19. CASE UNCHANGED vars
  BY <1>1, <1>19 DEF vars, loopVars, serviceVars, connectionVars, stackVars
<1>20. QED
  BY <1>2, <1>3, <1>5, <1>6, <1>7, <1>8, <1>9, <1>10, <1>11, <1>12, <1>13,
     <1>14, <1>15, <1>16, <1>17, <1>18, <1>19
     DEF Next, LoopStep, StackStep, Outside

\* A stack and a service that come up at the same time do not miss each other,
\* however the snapshot of the listeners, the listener's registration and the
\* look at the registry interleave: an unregistered stack of a ready service
\* has a notice on its way, or its loss is known.
THEOREM UplinkIsNotMissed == Spec => []UplinkSound
<1>1. Init => TypeOK /\ CleanInv /\ UplinkInv
  BY CleanInit, TypesInit DEF Init, UplinkInv, Watching, UplinkNotMissed
<1>2. TypeOK /\ CleanInv /\ UplinkInv /\ [Next]_vars
        => (TypeOK /\ CleanInv /\ UplinkInv)'
  BY TypesStep, CleanStep, WatchingStep, UplinkStep DEF UplinkInv
<1>3. TypeOK /\ UplinkInv => UplinkSound
  BY DEF UplinkSound, UplinkInv
<1>4. QED
  BY <1>1, <1>2, <1>3, PTL DEF Spec

-----------------------------------------------------------------------------
(***************************************************************************)
(* Whom the loop calls.  A queued report is for the callback that is       *)
(* registered now, or for one that was closed; and a callback that comes   *)
(* to be registered is not the addressee of any queued report, so opening  *)
(* it revives none.  The latter needs that a callback on its way to the    *)
(* service is in one place only.                                           *)
(***************************************************************************)
Queued(op, cb) == \E i \in DOMAIN queue : queue[i].op = op /\ queue[i].cb = cb
Held(op, cb) == hand.op = op /\ hand.cb = cb

Delivering(cb) == Held("deliver", cb) \/ Queued("deliver", cb)
Asking(cb) == Held("register", cb) \/ Queued("register", cb)
Fresh(cb) == cb # NoCallback /\ cb # proxyCb /\ ~Delivering(cb)

AskedOnce ==
    /\ \A i, j \in DOMAIN queue :
          queue[i].op = "register" /\ queue[j].op = "register"
              /\ queue[i].cb = queue[j].cb => i = j
    /\ hand.op = "register" => ~Queued("register", hand.cb)

Addressed ==
    \A cb \in Callbacks \cup {NoCallback} :
        /\ Delivering(cb) => cb # NoCallback
                             /\ (cb \in closed \/ (registerStatus /\ proxyCb = cb))
        /\ Asking(cb) => Fresh(cb)

\* A client's callback before it is posted.
Coming ==
    \A c \in Clients :
        /\ ccb[c] # NoCallback => Fresh(ccb[c]) /\ ~Asking(ccb[c])
        /\ \A d \in Clients : ccb[c] = ccb[d] /\ ccb[c] # NoCallback => c = d
        /\ cpc[c] = "post" /\ cop[c] = "register" => ccb[c] # NoCallback

CallbackInv == AskedOnce /\ Addressed /\ Coming

\* Tasks that move along or are posted by the loop: no report for another
\* callback than the registered one appears, and no registration.
Moved ==
    /\ \A cb : Delivering(cb)' =>
          Delivering(cb) \/ (cb = reportCb /\ reportCb # NoCallback)
    /\ \A cb : Asking(cb)' => Asking(cb)
    /\ AskedOnce'

\* No client begins a registration.
ClientsKept ==
    /\ ccb' = ccb
    /\ \A c \in Clients :
          cpc'[c] = "post" /\ cop'[c] = "register"
              => cpc[c] = "post" /\ cop[c] = "register"

\* The loop and the stack post behind what is there.
LEMMA MovedExtends ==
    ASSUME TypeOK, CallbackInv, Extends(queue'), hand' \in {hand, NoTask}
    PROVE  Moved
<1>1. PICK r : Told(r) /\ queue' = queue \o r
  BY DEF Extends
<1>2. /\ queue \in Seq(Tasks) /\ r \in Seq(Tasks) /\ queue' \in Seq(Tasks)
      /\ Len(queue') = Len(queue) + Len(r)
  BY <1>1 DEF TypeOK, Told
<1>3. ASSUME NEW i \in DOMAIN queue'
      PROVE  \/ i \in DOMAIN queue /\ queue'[i] = queue[i]
             \/ queue'[i].op \in {"uplink", "report", "request"}
             \/ /\ queue'[i].op = "deliver" /\ queue'[i].cb = reportCb
                /\ reportCb # NoCallback
  <2>1. CASE i \in 1 .. Len(queue)
    BY <1>1, <1>2, <2>1
  <2>2. CASE i \notin 1 .. Len(queue)
    <3>1. i - Len(queue) \in DOMAIN r /\ queue'[i] = r[i - Len(queue)]
      BY <1>1, <1>2, <2>2
    <3>2. QED
      BY <1>1, <3>1 DEF Told
  <2>3. QED
    BY <2>1, <2>2
<1>4. ASSUME NEW cb
      PROVE  /\ Held("deliver", cb)' => Held("deliver", cb)
             /\ Held("register", cb)' => Held("register", cb)
  BY DEF Held, NoTask, Task
<1>5. ASSUME NEW cb, Queued("deliver", cb)'
      PROVE  Queued("deliver", cb) \/ (cb = reportCb /\ reportCb # NoCallback)
  BY <1>3, <1>5 DEF Queued
<1>6. ASSUME NEW cb, Queued("register", cb)'
      PROVE  Queued("register", cb)
  BY <1>3, <1>6 DEF Queued
<1>7. AskedOnce'
  <2>1. ASSUME NEW i \in DOMAIN queue', NEW j \in DOMAIN queue',
               queue'[i].op = "register", queue'[j].op = "register",
               queue'[i].cb = queue'[j].cb
        PROVE  i = j
    BY <1>3, <2>1 DEF CallbackInv, AskedOnce
  <2>2. hand'.op = "register" => ~Queued("register", hand.cb)' /\ hand' = hand
    BY <1>6 DEF NoTask, Task, CallbackInv, AskedOnce
  <2>3. QED
    BY <2>1, <2>2 DEF AskedOnce, Queued
<1>8. QED
  BY <1>4, <1>5, <1>6, <1>7 DEF Moved, Delivering, Asking

\* The loop takes the first task.
LEMMA MovedTake ==
    ASSUME TypeOK, Watching, CallbackInv, Take
    PROVE  Moved
<1>1. /\ queue \in Seq(Tasks) /\ queue # <<>> /\ hand = NoTask
      /\ hand' = queue[1] /\ queue' = Tail(queue)
  BY DEF Take, TypeOK, Watching
<1>2. /\ Len(queue) \in Nat /\ Len(queue) > 0 /\ 1 \in DOMAIN queue
      /\ \A i \in DOMAIN queue' : /\ i + 1 \in DOMAIN queue /\ i + 1 # 1
                                  /\ queue'[i] = queue[i + 1]
      /\ DOMAIN queue' \subseteq Nat
  BY <1>1
<1>3. ASSUME NEW op, NEW cb, Held(op, cb)' \/ Queued(op, cb)'
      PROVE  Queued(op, cb)
  BY <1>1, <1>2, <1>3 DEF Held, Queued
<1>4. AskedOnce'
  <2>1. ASSUME NEW i \in DOMAIN queue', NEW j \in DOMAIN queue',
               queue'[i].op = "register", queue'[j].op = "register",
               queue'[i].cb = queue'[j].cb
        PROVE  i = j
    <3>1. i + 1 = j + 1
      BY <1>2, <2>1 DEF CallbackInv, AskedOnce
    <3>2. QED
      BY <1>2, <3>1
  <2>2. ASSUME hand'.op = "register", NEW i \in DOMAIN queue',
               queue'[i].op = "register", queue'[i].cb = hand'.cb
        PROVE  FALSE
    <3>1. i + 1 = 1
      BY <1>1, <1>2, <2>2 DEF CallbackInv, AskedOnce
    <3>2. QED
      BY <1>2, <3>1
  <2>3. QED
    BY <2>1, <2>2 DEF AskedOnce, Queued
<1>5. QED
  BY <1>3, <1>4 DEF Moved, Delivering, Asking

\* The queue is emptied, or a caller gives up waiting.
LEMMA MovedOthers ==
    ASSUME TypeOK, CallbackInv,
           \/ queue' = <<>> /\ hand' = hand
           \/ \E w : Abandon(w)
    PROVE  Moved
<1>1. /\ DOMAIN queue' \subseteq DOMAIN queue
      /\ \A i \in DOMAIN queue' : /\ queue'[i].op = queue[i].op
                                  /\ queue'[i].cb = queue[i].cb
      /\ hand'.op = hand.op /\ hand'.cb = hand.cb
  <2>1. CASE queue' = <<>> /\ hand' = hand
    BY <2>1
  <2>2. CASE \E w : Abandon(w)
    <3>1. QueueOK(queue) /\ hand \in Tasks \cup {NoTask}
      BY DEF TypeOK, QueueOK
    <3>2. QED
      BY <2>2, <3>1, AbandonTypes
  <2>3. QED
    BY <2>1, <2>2
<1>2. ASSUME NEW op, NEW cb
      PROVE  /\ Queued(op, cb)' => Queued(op, cb)
             /\ Held(op, cb)' <=> Held(op, cb)
  BY <1>1 DEF Queued, Held
<1>3. AskedOnce'
  <2>1. ASSUME NEW i \in DOMAIN queue', NEW j \in DOMAIN queue',
               queue'[i].op = "register", queue'[j].op = "register",
               queue'[i].cb = queue'[j].cb
        PROVE  i = j
    BY <1>1, <2>1 DEF CallbackInv, AskedOnce
  <2>2. hand'.op = "register" => ~Queued("register", hand.cb)'
    BY <1>1 DEF Queued, CallbackInv, AskedOnce
  <2>3. QED
    BY <2>1, <2>2 DEF AskedOnce, Queued
<1>4. QED
  BY <1>2, <1>3 DEF Moved, Delivering, Asking

\* As long as the registrations stay, so does what the tasks are addressed to.
LEMMA RegistrationKept ==
    ASSUME ReportsAgree, CallbackInv, Moved, UNCHANGED callbackVars
    PROVE  /\ Addressed'
           /\ ClientsKept => Coming'
<1>1. \A cb : Fresh(cb) => Fresh(cb)'
  BY DEF Fresh, Moved, callbackVars, ReportsAgree
<1>2. Addressed'
  BY <1>1 DEF CallbackInv, Addressed, Moved, callbackVars, ReportsAgree
<1>3. ASSUME ClientsKept PROVE Coming'
  BY <1>1, <1>3 DEF CallbackInv, Coming, Moved, ClientsKept
<1>4. QED
  BY <1>2, <1>3

\* The calls of a client: a registration opens a callback no report is queued
\* for, at a moment when every report in the queue is void; the end of one
\* closes what the queued reports are for.
LEMMA RegistrationChanges ==
    ASSUME TypeOK, ReportsAgree, CallbackInv, Moved, ClientsKept,
           NEW op, NEW cb, ClientCall(op, cb),
           op = "register" => /\ Fresh(cb) /\ cb \in Callbacks
                              /\ ~Asking(cb)'
                              /\ \A c \in Clients : ccb[c] # cb
    PROVE  CallbackInv'
<1>1. AskedOnce'
  BY DEF Moved
<1>2. CASE UNCHANGED callbackVars
  BY <1>1, <1>2, RegistrationKept DEF CallbackInv
<1>3. CASE op = "register" /\ RegisterCallBack(cb) /\ ~UNCHANGED callbackVars
  <2>1. /\ ~registerStatus /\ reportCb = NoCallback
        /\ proxyCb' = cb /\ registerStatus' = TRUE /\ closed' = closed \ {cb}
    BY <1>3 DEF RegisterCallBack
  <2>2. \A x : Delivering(x)' => Delivering(x)
    BY <2>1 DEF Moved
  <2>3. \A x \in Callbacks \cup {NoCallback} :
           Delivering(x) => x \in closed /\ x # NoCallback
    BY <2>1 DEF CallbackInv, Addressed
  <2>4. ASSUME NEW x, Fresh(x), x # cb
        PROVE  Fresh(x)'
    BY <2>1, <2>2, <2>4 DEF Fresh
  <2>5. ~Delivering(cb) /\ cb # NoCallback
    BY <1>3 DEF Fresh
  <2>6. Addressed'
    <3>1. ASSUME NEW x \in Callbacks \cup {NoCallback}, Delivering(x)'
          PROVE  x # NoCallback /\ x \in closed'
      BY <2>1, <2>2, <2>3, <2>5, <3>1
    <3>2. ASSUME NEW x \in Callbacks \cup {NoCallback}, Asking(x)'
          PROVE  Fresh(x)'
      <4>1. Asking(x) /\ x # cb
        BY <1>3, <3>2 DEF Moved
      <4>2. QED
        BY <2>4, <4>1 DEF CallbackInv, Addressed
    <3>3. QED
      BY <3>1, <3>2 DEF Addressed
  <2>7. Coming'
    BY <1>3, <2>4 DEF CallbackInv, Coming, Moved, ClientsKept
  <2>8. QED
    BY <1>1, <2>6, <2>7 DEF CallbackInv
<1>4. CASE (UnRegisterCallBack \/ CloseCallBack) /\ ~UNCHANGED callbackVars
  <2>1. proxyCb' = NoCallback /\ closed' = Close(proxyCb)
    BY <1>4 DEF UnRegisterCallBack, CloseCallBack
  <2>2. \A x : Delivering(x)' => Delivering(x) \/ (x = proxyCb /\ x # NoCallback)
    BY DEF Moved, ReportsAgree
  <2>3. \A x : Fresh(x) => Fresh(x)'
    BY <2>1, <2>2 DEF Fresh
  <2>4. ASSUME NEW x \in Callbacks \cup {NoCallback}, Delivering(x)'
        PROVE  x # NoCallback /\ x \in closed'
    <3>1. CASE x = proxyCb /\ x # NoCallback
      BY <2>1, <3>1 DEF Close
    <3>2. CASE Delivering(x)
      BY <2>1, <3>2 DEF Close, CallbackInv, Addressed
    <3>3. QED
      BY <2>2, <2>4, <3>1, <3>2
  <2>5. Addressed'
    BY <2>3, <2>4 DEF Moved, CallbackInv, Addressed
  <2>6. Coming'
    BY <2>3 DEF CallbackInv, Coming, Moved, ClientsKept
  <2>7. QED
    BY <1>1, <2>5, <2>6 DEF CallbackInv
<1>5. QED
  BY <1>2, <1>3, <1>4 DEF ClientCall, ObserverOnCallDetailsChange, DialCall,
     ControlCall

\* A client reserves a callback that nothing refers to, and posts it.
LEMMA CallbackPosted ==
    ASSUME TypeOK, ReportsAgree, CallbackInv, NEW c \in Clients, PostCall(c)
    PROVE  CallbackInv'
<1>1. /\ UNCHANGED <<hand, cop, reportCb, registerStatus, proxyCb, closed>>
      /\ ccb' = [ccb EXCEPT ![c] = NoCallback]
      /\ \A d \in Clients : cpc'[d] = "post" => d # c /\ cpc[d] = "post"
  BY DEF PostCall, Goto, callbackVars, TypeOK
<1>2. ccb \in [Clients -> Callbacks \cup {NoCallback}]
  BY DEF TypeOK
<1>3. CASE queue' = queue
  <2>1. Moved
    BY <1>1, <1>3 DEF Moved, Delivering, Asking, Held, Queued, CallbackInv,
       AskedOnce
  <2>2. Addressed'
    BY <1>1, <2>1, RegistrationKept DEF callbackVars
  <2>3. \A cb : (Fresh(cb) => Fresh(cb)') /\ (Asking(cb)' => Asking(cb))
    BY <1>1, <1>3 DEF Fresh, Delivering, Asking, Held, Queued
  <2>4. Coming'
    BY <1>1, <1>2, <2>3 DEF CallbackInv, Coming
  <2>5. QED
    BY <2>1, <2>2, <2>4 DEF Moved, CallbackInv
<1>4. ASSUME NEW op, cop[c] # "plain" => op = cop[c],
             cop[c] = "plain" => op \in PlainOp, cpc[c] = "post",
             queue' = Append(queue, Task(op, ccb[c], c))
      PROVE  CallbackInv'
  <2>1. /\ op \notin {"deliver", "register"} \/ (op = "register" /\ cop[c] = "register")
    BY <1>4 DEF PlainOp, TypeOK
  <2> DEFINE t == Task(op, ccb[c], c)
  <2>2. t.op = op /\ t.cb = ccb[c]
    BY DEF Task
  <2>3. queue \in Seq(Tasks)
    BY DEF TypeOK
  <2> HIDE DEF t
  <2>4. /\ queue' = Append(queue, t) /\ Len(queue) + 1 \in DOMAIN queue'
        /\ \A i \in DOMAIN queue' :
              \/ i \in DOMAIN queue /\ queue'[i] = queue[i]
              \/ i = Len(queue) + 1 /\ queue'[i] = t
    BY <1>4, <2>3 DEF t
  <2>5. \A cb : Delivering(cb)' => Delivering(cb)
    BY <1>1, <2>1, <2>2, <2>4 DEF Delivering, Held, Queued
  <2>6. \A cb : Asking(cb)' => Asking(cb) \/ (op = "register" /\ cb = ccb[c])
    BY <1>1, <2>2, <2>4 DEF Asking, Held, Queued
  <2>7. op = "register" => /\ ccb[c] # NoCallback /\ Fresh(ccb[c])
                           /\ ~Asking(ccb[c])
                           /\ \A d \in Clients : d # c => ccb[d] # ccb[c]
    BY <1>4, <2>1 DEF CallbackInv, Coming
  <2>8. \A cb : Fresh(cb) => Fresh(cb)'
    BY <1>1, <2>5 DEF Fresh
  <2>9. AskedOnce'
    <3>1. ASSUME NEW i \in DOMAIN queue', NEW j \in DOMAIN queue',
                 queue'[i].op = "register", queue'[j].op = "register",
                 queue'[i].cb = queue'[j].cb
          PROVE  i = j
      <4>1. ASSUME NEW k \in DOMAIN queue, queue[k].op = "register",
                   queue[k].cb = ccb[c], op = "register"
            PROVE  FALSE
        BY <2>7, <4>1 DEF Asking, Queued
      <4>2. QED
        BY <2>2, <2>4, <3>1, <4>1 DEF CallbackInv, AskedOnce
    <3>2. ASSUME hand'.op = "register", NEW i \in DOMAIN queue',
                 queue'[i].op = "register", queue'[i].cb = hand'.cb
          PROVE  FALSE
      <4>1. hand' = hand
        BY <1>1
      <4>2. CASE i \in DOMAIN queue /\ queue'[i] = queue[i]
        BY <3>2, <4>1, <4>2 DEF CallbackInv, AskedOnce, Queued
      <4>3. CASE queue'[i] = t
        BY <2>2, <2>7, <3>2, <4>1, <4>3 DEF Asking, Held
      <4>4. QED
        BY <2>4, <4>2, <4>3
    <3>3. QED
      BY <3>1, <3>2 DEF AskedOnce, Queued
  <2>10. Addressed'
    BY <1>1, <2>5, <2>6, <2>7, <2>8 DEF CallbackInv, Addressed
  <2>11. Coming'
    BY <1>1, <1>2, <2>6, <2>7, <2>8 DEF CallbackInv, Coming
  <2>12. QED
    BY <2>9, <2>10, <2>11 DEF CallbackInv
<1>5. QED
  BY <1>3, <1>4 DEF PostCall

LEMMA CallbackReserved ==
    ASSUME TypeOK, ReportsAgree, CallbackInv, NEW c \in Clients, BeginCall(c)
    PROVE  CallbackInv'
<1>1. /\ UNCHANGED <<queue, hand, reportCb, registerStatus, proxyCb, closed>>
      /\ ccb \in [Clients -> Callbacks \cup {NoCallback}]
      /\ cop \in [Clients -> {"plain", "register", "close"}]
  BY DEF BeginCall, loopVars, callbackVars, TypeOK
<1>2. /\ AskedOnce' /\ Addressed'
      /\ \A cb : (Fresh(cb) <=> Fresh(cb)') /\ (Asking(cb)' <=> Asking(cb))
  BY <1>1 DEF CallbackInv, AskedOnce, Addressed, Fresh, Delivering, Asking,
     Held, Queued
<1>3. /\ \A d \in Clients : d # c => /\ ccb'[d] = ccb[d] /\ cop'[d] = cop[d]
                                     /\ cpc'[d] = cpc[d]
      /\ \/ ccb'[c] = ccb[c] /\ cop'[c] = "plain"
         \/ ccb'[c] \in Free
  BY <1>1 DEF BeginCall, Goto, TypeOK
<1>4. ASSUME NEW cb \in Free
      PROVE  /\ Fresh(cb) /\ ~Asking(cb)
             /\ \A d \in Clients : ccb[d] # cb
  BY ServiceAssumption DEF Free, Fresh, Delivering, Asking, Held, Queued
<1>5. ASSUME NEW d \in Clients
      PROVE  /\ ccb'[d] # NoCallback => Fresh(ccb'[d]) /\ ~Asking(ccb'[d])
             /\ cpc'[d] = "post" /\ cop'[d] = "register" => ccb'[d] # NoCallback
  BY <1>3, <1>4 DEF CallbackInv, Coming, Fresh
<1>6. ASSUME NEW d \in Clients, NEW e \in Clients,
             ccb'[d] = ccb'[e], ccb'[d] # NoCallback
      PROVE  d = e
  BY <1>3, <1>4, <1>6 DEF CallbackInv, Coming
<1>7. QED
  BY <1>2, <1>5, <1>6 DEF CallbackInv, Coming

\* The invariant of the addressees is inductive.
LEMMA CallbackStep ==
    ASSUME TypeOK, ReportsAgree, Watching, CallbackInv, [Next]_vars
    PROVE  CallbackInv'
<1>1. ASSUME Moved, UNCHANGED callbackVars, ClientsKept
      PROVE  CallbackInv'
  BY <1>1, RegistrationKept DEF CallbackInv, Moved
<1>2. ASSUME NEW ws, NEW ok, Answer(ws, ok), UNCHANGED <<cop, ccb>>
      PROVE  ClientsKept
  BY <1>2 DEF Answer, ClientsKept
<1>3. ASSUME NEW op, NEW cb, op = hand.op, cb = hand.cb, RunClientCall
      PROVE  CallbackInv'
  <2>1. /\ op \in ClientOp /\ ClientCall(op, cb)
        /\ hand' = NoTask /\ Answer({hand.by}, TRUE) /\ UNCHANGED <<cop, ccb>>
    BY <1>3 DEF RunClientCall, Finish, LoopDone
  <2>2. Moved
    BY <2>1, ExtendsClientCall, MovedExtends
  <2>3. ClientsKept
    BY <2>1 DEF Answer, ClientsKept
  <2>4. ASSUME op = "register"
        PROVE  /\ Fresh(cb) /\ cb \in Callbacks /\ ~Asking(cb)'
               /\ \A c \in Clients : ccb[c] # cb
    <3>1. cb \in Callbacks \cup {NoCallback} /\ Asking(cb)
      BY <1>3, <2>4 DEF TypeOK, Asking, Held, Tasks, NoTask, Task
    <3>2. Fresh(cb)
      BY <3>1 DEF CallbackInv, Addressed
    <3>3. cb # NoCallback
      BY <3>2 DEF Fresh
    <3>4. ~Asking(cb)'
      <4>1. queue' = queue
        BY <2>1, <2>4 DEF ClientCall, RegisterCallBack
      <4>2. ~Queued("register", cb)
        BY <1>3, <2>4 DEF CallbackInv, AskedOnce
      <4>3. QED
        BY <2>1, <4>1, <4>2 DEF Asking, Held, Queued, NoTask, Task
    <3>5. QED
      BY <3>1, <3>2, <3>3, <3>4 DEF CallbackInv, Coming
  <2>5. QED
    BY <2>1, <2>2, <2>3, <2>4, RegistrationChanges
<1>4. ASSUME NEW op \in ClientOp, CallFromCallback(op)
      PROVE  CallbackInv'
  <2>1. hand' = hand /\ UNCHANGED clientVars
    BY <1>4 DEF CallFromCallback
  <2>2. ClientsKept
    BY <2>1 DEF ClientsKept, clientVars
  <2>3. CASE UNCHANGED <<callbackVars, queue, calls>>
    <3>1. Moved
      BY <2>1, <2>3 DEF Moved, Delivering, Asking, Held, Queued, CallbackInv,
         AskedOnce
    <3>2. QED
      BY <1>1, <2>2, <2>3, <3>1
  <2>4. ASSUME NEW cb \in IF op = "register" THEN Free ELSE {NoCallback},
               ClientCall(op, cb)
        PROVE  CallbackInv'
    <3>1. Moved
      BY <2>1, <2>4, ExtendsClientCall, MovedExtends
    <3>2. ASSUME op = "register"
          PROVE  /\ Fresh(cb) /\ cb \in Callbacks /\ ~Asking(cb)'
                 /\ \A c \in Clients : ccb[c] # cb
      <4>1. cb \in Free
        BY <2>4, <3>2
      <4>2. Fresh(cb) /\ ~Asking(cb) /\ cb \in Callbacks
        BY <4>1, ServiceAssumption DEF Free, Fresh, Delivering, Asking, Held,
           Queued
      <4>3. QED
        BY <3>1, <4>1, <4>2 DEF Free, Moved
    <3>3. QED
      BY <2>2, <2>4, <3>1, <3>2, RegistrationChanges
  <2>5. QED
    BY <1>4, <2>3, <2>4 DEF CallFromCallback
<1>5. CASE ServiceDetach
  <2>1. /\ UNCHANGED <<queue, proxyCb, registerStatus, closed, cop, ccb>>
        /\ hand' = NoTask /\ Answer({hand.by}, TRUE)
    BY <1>5 DEF ServiceDetach, Finish, LoopDone
  <2>2. ClientsKept
    BY <1>2, <2>1
  <2>3. Extends(queue')
    BY <2>1, ExtendsNone DEF TypeOK, QueueOK
  <2>4. Moved
    BY <2>1, <2>3, MovedExtends
  <2>5. \A cb : (Delivering(cb)' => Delivering(cb)) /\ (Fresh(cb) => Fresh(cb)')
    BY <2>1 DEF Delivering, Held, Queued, NoTask, Task, Fresh
  <2>6. Addressed' /\ Coming'
    BY <2>1, <2>2, <2>4, <2>5 DEF CallbackInv, Addressed, Coming, Moved,
       ClientsKept
  <2>7. QED
    BY <2>4, <2>6 DEF Moved, CallbackInv
<1>6. CASE (LoopStep \/ StackStep) /\ ~RunClientCall /\ ~ServiceDetach
  <2>1. UNCHANGED callbackVars
    BY <1>6, CallbackSteps DEF LoopStep, Take, Drain, ServiceInit,
       ServiceReady, ServiceUnInit, RegisterCallbackOnLoop, AttachUplink,
       HandleReport, HandleRequest, Deliver, ReturnFromCallback, StackStep,
       StackRegister, StackSnapshot, StackNotify, StackWithdraw, StackReport
  <2>2. ClientsKept
    <3>1. \/ UNCHANGED clientVars
          \/ \E ws, ok : Answer(ws, ok) /\ UNCHANGED <<cop, ccb>>
      BY <1>6 DEF LoopStep, Take, Drain, ServiceInit, ServiceReady,
         ServiceUnInit, RegisterCallbackOnLoop, AttachUplink, HandleReport,
         HandleRequest, Deliver, ReturnFromCallback, StackStep, StackRegister,
         StackSnapshot, StackNotify, StackWithdraw, StackReport, Finish,
         clientVars
    <3>2. QED
      BY <1>2, <3>1 DEF ClientsKept, clientVars
  <2>3. Moved
    BY <1>6, QueueSteps, MovedTake, MovedExtends, MovedOthers DEF Drain
  <2>4. QED
    BY <1>1, <2>1, <2>2, <2>3
<1>7. ASSUME UNCHANGED <<queue, hand>>
      PROVE  Moved
  BY <1>7 DEF Moved, Delivering, Asking, Held, Queued, CallbackInv, AskedOnce
<1>8. ASSUME NEW c \in Clients, ClientStep(c), ~PostCall(c), ~BeginCall(c)
      PROVE  CallbackInv'
  <2>1. UNCHANGED callbackVars
    BY <1>8, OutsideSteps DEF Outside, insideVars
  <2>2. ClientsKept
    BY <1>8 DEF ClientStep, ClientInit, ClientInitDone, ClientUnInit,
       ClientUnInitDone, TimeOut, Goto, ClientsKept, TypeOK
  <2>3. Moved
    BY <1>7, <1>8, MovedOthers DEF ClientStep, ClientInit, ClientInitDone,
       ClientUnInit, ClientUnInitDone, TimeOut, loopVars
  <2>4. QED
    BY <1>1, <2>1, <2>2, <2>3
<1>9. CASE OwnerStep
  <2>1. UNCHANGED callbackVars
    BY <1>9, OutsideSteps DEF Outside, insideVars
  <2>2. ClientsKept
    BY <1>9 DEF OwnerStep, MiniStart, PostInit, MiniStop, PostLifecycle,
       OwnerTimesOut, StopLoop, JoinLoop, ClientsKept, clientVars
  <2>3. CASE OwnerTimesOut
    BY <1>1, <2>1, <2>2, <2>3, MovedOthers DEF OwnerTimesOut
  <2>4. CASE UNCHANGED <<queue, hand>>
    BY <1>1, <1>7, <2>1, <2>2, <2>4
  <2>5. ASSUME NEW op \in {"init", "uninit"}, hand' = hand,
               queue' = Append(queue, Task(op, NoCallback, Owner))
        PROVE  Moved
    <3> DEFINE t == Task(op, NoCallback, Owner)
    <3>1. t.op \notin {"deliver", "register"}
      BY DEF Task
    <3> HIDE DEF t
    <3>2. \A i \in DOMAIN queue' : \/ i \in DOMAIN queue /\ queue'[i] = queue[i]
                                   \/ queue'[i] = t
      BY <2>5 DEF t, TypeOK
    <3>3. \A x, cb : x \in {"deliver", "register"} /\ Queued(x, cb)'
                       => Queued(x, cb)
      BY <3>1, <3>2 DEF Queued
    <3>4. AskedOnce'
      <4>1. ASSUME NEW i \in DOMAIN queue', NEW j \in DOMAIN queue',
                   queue'[i].op = "register", queue'[j].op = "register",
                   queue'[i].cb = queue'[j].cb
            PROVE  i = j
        BY <3>1, <3>2, <4>1 DEF CallbackInv, AskedOnce
      <4>2. hand'.op = "register" => ~Queued("register", hand.cb)'
        BY <2>5, <3>1, <3>2 DEF Queued, CallbackInv, AskedOnce
      <4>3. QED
        BY <4>1, <4>2 DEF AskedOnce, Queued
    <3>5. QED
      BY <2>5, <3>3, <3>4 DEF Moved, Delivering, Asking, Held
  <2>6. QED
    BY <1>1, <1>9, <2>1, <2>2, <2>3, <2>4, <2>5 DEF OwnerStep, MiniStart,
       PostInit, MiniStop, PostLifecycle, StopLoop, JoinLoop
<1>10. CASE UNCHANGED vars
  <2>1. Moved /\ UNCHANGED callbackVars /\ ClientsKept
    BY <1>7, <1>10 DEF vars, loopVars, clientVars, ClientsKept
  <2>2. QED
    BY <1>1, <2>1
<1>11. QED
  BY <1>3, <1>4, <1>5, <1>6, <1>8, <1>9, <1>10, CallbackPosted,
     CallbackReserved
     DEF Next

\* It holds before the loop is started.
LEMMA CallbackInit == Init => CallbackInv
  BY DEF Init, CallbackInv, AskedOnce, Addressed, Coming, Delivering, Asking,
     Held, Queued, NoTask, Task

\* The application's code is entered only for the callback that is registered
\* at that moment: a report queued before the callback was unregistered is
\* dropped, also when another callback, or the same block anew, was
\* registered meanwhile (RegisterCallBack, UnRegisterCallBack, Close,
\* CallAbilityReportProxy).
THEOREM RegisteredIsCalled == Spec => OnlyRegisteredIsCalled
<1>1. Init => TypeOK /\ CleanInv /\ ReportsAgree /\ UplinkInv /\ CallbackInv
  BY CleanInit, TypesInit, CallbackInit DEF Init, UplinkInv, Watching,
     UplinkNotMissed, NoticePending, ReportsAgree
<1>2. TypeOK /\ CleanInv /\ ReportsAgree /\ UplinkInv /\ CallbackInv
        /\ [Next]_vars
        => (TypeOK /\ CleanInv /\ ReportsAgree /\ UplinkInv /\ CallbackInv)'
  BY TypesStep, CleanStep, AgreeStep, WatchingStep, UplinkStep, CallbackStep
     DEF UplinkInv
<1>3. TypeOK /\ CallbackInv /\ [Next]_vars
        => [lpc # "app" /\ lpc' = "app"
              => registerStatus /\ proxyCb = hand.cb]_vars
  <2> SUFFICES ASSUME TypeOK, CallbackInv, Next, lpc # "app", lpc' = "app"
               PROVE  registerStatus /\ proxyCb = hand.cb
    BY DEF vars
  <2>1. Deliver
    BY OutsideSteps DEF Next, LoopStep, Take, Drain, ServiceInit,
       ServiceReady, ServiceUnInit, ServiceDetach, RegisterCallbackOnLoop,
       AttachUplink, HandleReport, RunClientCall, HandleRequest,
       ReturnFromCallback, Finish, LoopDone, CallFromCallback, StackStep,
       StackRegister, StackSnapshot, StackNotify, StackWithdraw, StackReport,
       Outside, insideVars, loopVars
  <2>2. hand.op = "deliver" /\ hand.cb \notin closed
    BY <2>1 DEF Deliver, Running, LoopDone
  <2>3. hand.cb \in Callbacks \cup {NoCallback} /\ Delivering(hand.cb)
    BY <2>2 DEF TypeOK, Tasks, NoTask, Task, Delivering, Held
  <2>4. QED
    BY <2>2, <2>3 DEF CallbackInv, Addressed
<1>4. QED
  BY <1>1, <1>2, <1>3, PTL DEF Spec, OnlyRegisteredIsCalled
=============================================================================
