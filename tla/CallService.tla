----------------------------- MODULE CallService -----------------------------
(***************************************************************************)
(* The call manager service around its core: start and stop of the service *)
(* on the main loop (CallManagerServiceMiniStart / MiniStop), the client   *)
(* proxy that applications call from their own tasks, the registration of  *)
(* the application's callback and the reports sent to it, and the          *)
(* registration of the uplink with a protocol stack that comes and goes.   *)
(*                                                                         *)
(* The main loop is the abstraction of LosEventHandler a client relies on: *)
(* a bounded queue served in order by one task, posts refused when it is   *)
(* full or not running, synchronous posts that may be given up while their *)
(* task stays queued.  (The gap between a post's check of the state and    *)
(* its entry into the queue is explored there.)  A task on the loop is one *)
(* step, cut where another task can see or change what it works on: at the *)
(* registry's locks, at calls to the stack, and while the application's    *)
(* callback runs.  The call table is a count of calls; CallManager has the *)
(* calls themselves.                                                       *)
(***************************************************************************)
EXTENDS Naturals, Sequences, FiniteSets

CONSTANTS
    Clients,            \* application tasks that use CallManagerClient
    Owner,              \* the task that starts and stops the service
    Nobody,             \* no task waits for the result
    Callbacks,          \* heap blocks for CallAbilityCallback objects
    NoCallback,         \* a null callback
    Stacks,             \* protocol stack instances
    NoStack,            \* a null stack
    QueueSize,          \* MINI_QUEUE_SIZE
    MaxSyncWaiters,     \* MINI_MAX_SYNC_WAITERS
    MaxCalls,           \* bound of the call table
    FailingSteps,       \* steps of CallManagerService::Init that can fail
    Granted,            \* the permissions of in-image callers
    IsSystemApp         \* are in-image callers system applications

ASSUME ServiceAssumption ==
    /\ Owner \notin Clients
    /\ Nobody \notin Clients \cup {Owner}
    /\ NoCallback \notin Callbacks
    /\ NoStack \notin Stacks
    /\ QueueSize \in Nat \ {0}
    /\ MaxSyncWaiters \in Nat \ {0}
    /\ MaxCalls \in Nat
    /\ FailingSteps \subseteq 1 .. 3
    /\ IsSystemApp \in BOOLEAN

VARIABLES
    loopState,      \* LosEventHandler::state_
    queue,          \* tasks posted to the loop, oldest first
    lpc, hand,      \* the loop task: program point and task in hand
    last,           \* local variable "stopping" of RunLoop
    got,            \* local variable "stack" of RegisterCallbackOnLoop
    nested,         \* the running callback has made its call to the client
    ready,          \* CallManagerService::ready_
    control,        \* callStateListenerPtr_ exists, with its observers
    handler,        \* ReportCallInfoHandler::callStatusManagerPtr_ exists
    initialized,    \* CellularCallConnection::initialized_
    callbackRegistered, \* CellularCallConnection::callbackRegistered_
    calls,          \* number of calls in the table
    reportCb,       \* CallAbilityReportProxy::callbackPtr_
    isInit,         \* CallManagerClient::isInit_
    initStatus,     \* CallManagerProxy::initStatus_
    registerStatus, \* CallManagerProxy::registerStatus_
    proxyCb,        \* CallManagerProxy::callAbilityCallbackPtr_
    closed,         \* callbacks whose application object was given up
    stack,          \* g_cellularCall
    listening,      \* OnStackReady is in g_readyListeners
    uplink,         \* stacks that hold the uplink callback
    strays,         \* those of them that a stop of the service did not reach
    spc,            \* the stack task inside CellularCallLiteRegistry::Register
    missed,         \* an OnStackReady could not be posted, or was not served
    cpc, cop, ccb,  \* clients: program point, call and callback
    opc             \* program point of the owner

loopVars == <<loopState, queue, lpc, hand, last, got, nested>>
serviceVars == <<ready, control, handler, calls>>
connectionVars == <<initialized, callbackRegistered>>
callbackVars == <<reportCb, registerStatus, proxyCb, closed>>
initVars == <<isInit, initStatus>>
stackVars == <<stack, listening, uplink, strays, spc>>
clientVars == <<cpc, cop, ccb>>
vars == <<loopVars, serviceVars, connectionVars, callbackVars, initVars,
          stackVars, missed, clientVars, opc>>

PlainOp == {"unregister", "observe", "dial", "control"}
ClientOp == PlainOp \cup {"register", "close"}
SyncOp == ClientOp \cup {"init", "uninit"}
AsyncOp == {"uplink", "report", "request", "deliver"}
Task(op, cb, by) == [op |-> op, cb |-> cb, by |-> by]
Tasks == [op : SyncOp \cup AsyncOp, cb : Callbacks \cup {NoCallback},
          by : Clients \cup {Owner, Nobody}]
NoTask == Task("none", NoCallback, Nobody)

Init ==
    /\ loopState = "UNINIT" /\ queue = <<>> /\ lpc = "idle" /\ hand = NoTask
    /\ last = FALSE /\ got = NoStack /\ nested = FALSE
    /\ ready = FALSE /\ control = FALSE /\ handler = FALSE /\ calls = 0
    /\ initialized = FALSE /\ callbackRegistered = FALSE
    /\ reportCb = NoCallback /\ registerStatus = FALSE
    /\ proxyCb = NoCallback /\ closed = {}
    /\ isInit = FALSE /\ initStatus = FALSE
    /\ stack = NoStack /\ listening = FALSE /\ uplink = {} /\ strays = {}
    /\ spc = "idle"
    /\ missed = FALSE
    /\ cpc = [c \in Clients |-> "idle"]
    /\ cop = [c \in Clients |-> "plain"]
    /\ ccb = [c \in Clients |-> NoCallback]
    /\ opc = "idle"

-----------------------------------------------------------------------------
(***************************************************************************)
(* The main loop as its users see it.                                      *)
(***************************************************************************)
\* A synchronous post needs a waiter slot until its task has left the loop.
SyncInFlight ==
    Len(SelectSeq(queue, LAMBDA t : t.op \in SyncOp))
        + (IF hand.op \in SyncOp THEN 1 ELSE 0)

CanPost == loopState = "RUNNING" /\ Len(queue) < QueueSize
CanPostSync == CanPost /\ SyncInFlight < MaxSyncWaiters

Least(m, n) == IF m <= n THEN m ELSE n

\* PostAsyncTask without a delay, whose failure is only logged.
PostAsync(q, op, cb) ==
    IF loopState = "RUNNING" /\ Len(q) < QueueSize
    THEN Append(q, Task(op, cb, Nobody)) ELSE q

\* What the tasks in ws see when the loop is done with the call they wait for.
Answer(ws, ok) ==
    /\ cpc' = [c \in Clients |->
                 IF c \in ws
                 THEN IF cop[c] = "close" THEN "fini" ELSE "idle"
                 ELSE cpc[c]]
    /\ opc' = IF Owner \in ws
              THEN IF opc = "starting" /\ ok THEN "idle" ELSE "stop"
              ELSE opc

LoopDone == lpc' = "idle" /\ hand' = NoTask
Finish(ok) == LoopDone /\ Answer({hand.by}, ok)

\* The bounded wait runs out: the task stays where it is, without a reader.
Abandon(w) ==
    /\ queue' = [i \in DOMAIN queue |->
                   IF queue[i].by = w THEN [queue[i] EXCEPT !.by = Nobody]
                   ELSE queue[i]]
    /\ hand' = IF hand.by = w THEN [hand EXCEPT !.by = Nobody] ELSE hand

\* The first task taken after Stop was called still runs.
Take ==
    /\ lpc = "idle"
    /\ ~last
    /\ queue # <<>>
    /\ last' = (loopState # "RUNNING")
    /\ hand' = Head(queue)
    /\ queue' = Tail(queue)
    /\ lpc' = "run"
    /\ UNCHANGED <<loopState, got, nested, serviceVars, connectionVars,
                   callbackVars, initVars, stackVars, missed, clientVars, opc>>

\* Then what is left is recycled, and its callers are told.
Drain ==
    /\ lpc = "idle"
    /\ last
    /\ queue # <<>>
    /\ queue' = <<>>
    /\ Answer({queue[i].by : i \in DOMAIN queue}, FALSE)
    /\ missed' = (missed \/ \E i \in DOMAIN queue : queue[i].op = "uplink")
    /\ UNCHANGED <<loopState, lpc, hand, last, got, nested, serviceVars,
                   connectionVars, callbackVars, initVars, stackVars, cop, ccb>>

Running(op) == lpc = "run" /\ hand.op = op

-----------------------------------------------------------------------------
(***************************************************************************)
(* CallManagerService::Init and UnInit on the loop.                        *)
(***************************************************************************)
\* n reports for the application, as far as the queue reaches.
Reports(n) ==
    IF reportCb # NoCallback /\ loopState = "RUNNING"
    THEN queue \o [i \in 1 .. Least(n, QueueSize - Len(queue)) |->
                      Task("deliver", reportCb, Nobody)]
    ELSE queue

\* What the core tells its observers, the report proxy among them: any number
\* of states, events and causes in one task.
Broadcast == IF control THEN {Reports(n) : n \in 0 .. QueueSize} ELSE {queue}

\* Mutant: the listener is not kept when there is a stack to tell at once.
InitStepsListenOnce(failed) ==
    /\ control' = (failed = 0)
    /\ handler' = (failed = 0)
    /\ initialized' = (initialized \/ failed = 0)
    /\ listening' = (listening \/ (failed = 0 /\ ~initialized /\ stack = NoStack))

\* The steps up to the one that watches the registry; a step that fails
\* rolls back the ones before it.
InitSteps(failed) ==
    /\ control' = (failed = 0)
    /\ handler' = (failed = 0)
    /\ initialized' = (initialized \/ failed = 0)
    /\ listening' = (listening \/ (failed = 0 /\ ~initialized))

ServiceInit ==
    /\ Running("init")
    /\ \/ /\ ready
          /\ Finish(TRUE)
          /\ UNCHANGED <<serviceVars, initialized, listening>>
       \/ \E failed \in FailingSteps :
             /\ ~ready
             /\ InitSteps(failed)
             /\ Finish(FALSE)
             /\ UNCHANGED <<ready, calls>>
       \/ /\ ~ready
          /\ InitSteps(0)
          /\ lpc' = "watch"
          /\ UNCHANGED <<hand, cpc, opc, ready, calls>>
    /\ UNCHANGED <<loopState, queue, last, got, nested, callbackRegistered,
                   callbackVars, initVars, stack, uplink, strays, spc, missed,
                   cop, ccb>>

\* AddReadyListener looks for a stack only after the listener is in the
\* table; then the service is ready, and what it missed is counted anew.
ServiceReady ==
    /\ lpc = "watch"
    /\ queue' = IF stack # NoStack THEN PostAsync(queue, "uplink", NoCallback)
                                  ELSE queue
    /\ missed' = (stack # NoStack /\ queue' = queue)
    /\ ready' = TRUE
    /\ Finish(TRUE)
    /\ UNCHANGED <<loopState, last, got, nested, control, handler, calls,
                   connectionVars, callbackVars, initVars, stackVars, cop, ccb>>

ServiceUnInit ==
    /\ Running("uninit")
    /\ IF ready
       THEN /\ ready' = FALSE
            /\ listening' = FALSE
            /\ initialized' = FALSE
            /\ lpc' = "detach"
            /\ UNCHANGED <<hand, cpc, opc>>
       ELSE Finish(TRUE) /\ UNCHANGED <<ready, listening, initialized>>
    /\ UNCHANGED <<loopState, queue, last, got, nested, control, handler, calls,
                   callbackRegistered, callbackVars, initVars, stack, uplink,
                   strays, spc, missed, cop, ccb>>

\* The uplink is taken back from the stack that is registered now, and from no
\* other that holds it; the calls left are deleted without a report.
ServiceDetach ==
    /\ lpc = "detach"
    /\ uplink' = IF callbackRegistered THEN uplink \ {stack} ELSE uplink
    /\ strays' = uplink'
    /\ callbackRegistered' = FALSE
    /\ handler' = FALSE
    /\ control' = FALSE
    /\ calls' = 0
    /\ reportCb' = NoCallback
    /\ Finish(TRUE)
    /\ UNCHANGED <<loopState, queue, last, got, nested, ready, initialized,
                   registerStatus, proxyCb, closed, initVars, stack, listening,
                   spc, missed, cop, ccb>>

-----------------------------------------------------------------------------
(***************************************************************************)
(* The uplink: registration with the stack, and its reports.               *)
(***************************************************************************)
\* Mutants: registration does not look whether the connection still is
\* initialised, or whether it has been made.
WantsUplinkLate == ~callbackRegistered /\ stack # NoStack
WantsUplinkAgain == initialized /\ stack # NoStack

WantsUplink == initialized /\ ~callbackRegistered /\ stack # NoStack

RegisterCallbackOnLoop ==
    /\ Running("uplink")
    /\ IF WantsUplink
       THEN /\ got' = stack
            /\ lpc' = "attach"
            /\ UNCHANGED hand
       ELSE LoopDone /\ UNCHANGED got
    /\ UNCHANGED <<loopState, queue, last, nested, serviceVars, connectionVars,
                   callbackVars, initVars, stackVars, missed, clientVars, opc>>

\* The stack the loop has seen may have been replaced, and it may refuse.
AttachUplink ==
    /\ lpc = "attach"
    /\ \/ /\ uplink' = uplink \cup {got}
          /\ strays' = strays \ {got}
          /\ callbackRegistered' = TRUE
          /\ missed' = FALSE
       \/ /\ missed' = TRUE
          /\ UNCHANGED <<uplink, strays, callbackRegistered>>
    /\ LoopDone
    /\ got' = NoStack
    /\ UNCHANGED <<loopState, queue, last, nested, serviceVars, initialized,
                   callbackVars, initVars, stack, listening, spc, clientVars, opc>>

\* ReportCallInfoHandler: without a status manager a report is dropped.  A
\* report may begin and end calls.
UpdateReportInfo ==
    IF handler THEN calls' \in 0 .. MaxCalls /\ queue' \in Broadcast
               ELSE UNCHANGED <<calls, queue>>

\* CallStatusCallback, on the loop.
HandleReport ==
    /\ Running("report")
    /\ UpdateReportInfo
    /\ LoopDone
    /\ UNCHANGED <<loopState, last, got, nested, ready, control, handler,
                   connectionVars, callbackVars, initVars, stackVars, missed,
                   clientVars, opc>>

\* The stack comes under the name of an instance: the same one again, which
\* keeps what it holds, or a new one in its place.
SameInstance == UNCHANGED <<uplink, strays>>
NewInstance(s) == uplink' = uplink \ {s} /\ strays' = strays \ {s}

\* CellularCallLiteRegistry::Register with an instance, which replaces any
\* earlier one and is in place before the listeners are read; they are called
\* without a lock.
StackRegister ==
    /\ spc = "idle"
    /\ \E s \in Stacks :
          /\ stack' = s
          /\ SameInstance \/ NewInstance(s)
    /\ spc' = "snapshot"
    /\ UNCHANGED <<loopVars, serviceVars, connectionVars, callbackVars,
                   initVars, listening, missed, clientVars, opc>>

StackSnapshot ==
    /\ spc = "snapshot"
    /\ spc' = IF listening THEN "notify" ELSE "idle"
    /\ UNCHANGED <<loopVars, serviceVars, connectionVars, callbackVars,
                   initVars, stack, listening, uplink, strays, missed,
                   clientVars, opc>>

StackNotify ==
    /\ spc = "notify"
    /\ queue' = PostAsync(queue, "uplink", NoCallback)
    /\ missed' = (missed \/ queue' = queue)
    /\ spc' = "idle"
    /\ UNCHANGED <<loopState, lpc, hand, last, got, nested, serviceVars,
                   connectionVars, callbackVars, initVars, stack, listening,
                   uplink, strays, clientVars, opc>>

StackWithdraw ==
    /\ spc = "idle"
    /\ stack # NoStack
    /\ stack' = NoStack
    /\ UNCHANGED <<loopVars, serviceVars, connectionVars, callbackVars,
                   initVars, listening, uplink, strays, spc, missed,
                   clientVars, opc>>

\* CallStatusCallbackGuard checks a report and posts it to the loop.
StackReport ==
    /\ uplink # {}
    /\ CanPost
    /\ queue' = PostAsync(queue, "report", NoCallback)
    /\ UNCHANGED <<loopState, lpc, hand, last, got, nested, serviceVars,
                   connectionVars, callbackVars, initVars, stackVars, missed,
                   clientVars, opc>>

-----------------------------------------------------------------------------
(***************************************************************************)
(* The client's calls on the loop, behind the permission checks of the     *)
(* service.                                                                *)
(***************************************************************************)
Has(permissions) == Granted \cap permissions # {}

Permitted ==
    [register |-> Has({"SET_TELEPHONY_STATE", "GET_TELEPHONY_STATE",
                       "GET_CALL_TRANSFER_INFO"}),
     unregister |-> IsSystemApp /\ Has({"SET_TELEPHONY_STATE"}),
     observe |-> IsSystemApp /\ Has({"SET_TELEPHONY_STATE", "GET_TELEPHONY_STATE"}),
     dial |-> IsSystemApp /\ Has({"PLACE_CALL"}),
     control |-> IsSystemApp /\ Has({"ANSWER_CALL", "SET_TELEPHONY_STATE"})]

\* Mutant: the callback may still be called.
CloseNothing(cb) == closed

\* CallAbilityCallback::Close gives up the application's object.
Close(cb) == closed \cup ({cb} \ {NoCallback})

RegisterCallBack(cb) ==
    /\ IF ready /\ ~registerStatus /\ Permitted.register /\ reportCb = NoCallback
       THEN /\ reportCb' = cb
            /\ proxyCb' = cb
            /\ registerStatus' = TRUE
            /\ closed' = closed \ {cb}
       ELSE UNCHANGED callbackVars
    /\ UNCHANGED <<queue, calls>>

\* Reports for the callback may still be queued: closing it makes them void.
UnRegisterCallBack ==
    /\ IF ready /\ registerStatus /\ Permitted.unregister /\ reportCb # NoCallback
       THEN /\ reportCb' = NoCallback
            /\ closed' = Close(proxyCb)
            /\ proxyCb' = NoCallback
            /\ registerStatus' = FALSE
       ELSE UNCHANGED callbackVars
    /\ UNCHANGED <<queue, calls>>

\* Mutant: the service keeps the callback of a client that has ended.
CloseCallBackLocally ==
    /\ closed' = Close(proxyCb)
    /\ proxyCb' = NoCallback
    /\ registerStatus' = FALSE
    /\ UNCHANGED <<queue, calls, reportCb>>

\* UnInit of the client needs no permission and removes only its own callback.
CloseCallBack ==
    /\ closed' = Close(proxyCb)
    /\ reportCb' = IF reportCb = proxyCb THEN NoCallback ELSE reportCb
    /\ proxyCb' = NoCallback
    /\ registerStatus' = FALSE
    /\ UNCHANGED <<queue, calls>>

\* Every call in the table is reported again.
ObserverOnCallDetailsChange ==
    /\ queue' = IF ready /\ Permitted.observe THEN Reports(calls) ELSE queue
    /\ UNCHANGED <<callbackVars, calls>>

\* A dial adds a call, which a stack that is there may refuse again.
DialCall ==
    /\ \/ /\ ready /\ Permitted.dial
          /\ \/ calls' = calls
             \/ stack # NoStack /\ calls < MaxCalls /\ calls' = calls + 1
          /\ queue' \in Broadcast
       \/ ~(ready /\ Permitted.dial) /\ UNCHANGED <<calls, queue>>
    /\ UNCHANGED callbackVars

\* AnswerCall, RejectCall, HangUpCall, HoldCall, UnHoldCall and SwitchCall:
\* observers may hear of the intent, and a task is posted for the request.
ControlCall ==
    /\ IF ready /\ Permitted.control /\ calls > 0
       THEN \E q \in Broadcast : queue' \in {q, PostAsync(q, "request", NoCallback)}
       ELSE UNCHANGED queue
    /\ UNCHANGED <<callbackVars, calls>>

ClientCall(op, cb) ==
    \/ op = "register" /\ RegisterCallBack(cb)
    \/ op = "unregister" /\ UnRegisterCallBack
    \/ op = "observe" /\ ObserverOnCallDetailsChange
    \/ op = "dial" /\ DialCall
    \/ op = "control" /\ ControlCall
    \/ op = "close" /\ CloseCallBack

RunClientCall ==
    /\ lpc = "run"
    /\ hand.op \in ClientOp
    /\ ClientCall(hand.op, hand.cb)
    /\ Finish(TRUE)
    /\ UNCHANGED <<loopState, last, got, nested, ready, control, handler,
                   connectionVars, initVars, stackVars, missed, cop, ccb>>

\* What the request does to its call, if the call is still there, goes to the
\* stack; the table changes when the stack reports.
HandleRequest ==
    /\ Running("request")
    /\ LoopDone
    /\ UNCHANGED <<loopState, queue, last, got, nested, serviceVars,
                   connectionVars, callbackVars, initVars, stackVars, missed,
                   clientVars, opc>>

\* A queued report reaches the application unless its callback was closed.
Deliver ==
    /\ Running("deliver")
    /\ IF hand.cb \in closed
       THEN LoopDone
       ELSE lpc' = "app" /\ UNCHANGED hand
    /\ nested' = FALSE
    /\ UNCHANGED <<loopState, queue, last, got, serviceVars, connectionVars,
                   callbackVars, initVars, stackVars, missed, clientVars, opc>>

\* A block is free again when nothing refers to the callback.
Free == {cb \in Callbacks :
           /\ cb \notin {hand.cb, proxyCb, reportCb}
           /\ \A i \in DOMAIN queue : queue[i].cb # cb
           /\ \A c \in Clients : ccb[c] # cb}

\* The application calls its client inside the callback: while the loop is
\* not being stopped the call runs at once, in the callback's own task.
CallFromCallback(op) ==
    /\ lpc = "app"
    /\ ~nested
    /\ initStatus
    /\ op = "close" => isInit
    /\ nested' = TRUE
    /\ IF loopState = "RUNNING"
       THEN \E cb \in IF op = "register" THEN Free ELSE {NoCallback} :
               ClientCall(op, cb)
       ELSE UNCHANGED <<callbackVars, queue, calls>>
    /\ initStatus' = (op # "close")
    /\ isInit' = (isInit /\ op # "close")
    /\ UNCHANGED <<loopState, lpc, hand, last, got, ready, control, handler,
                   connectionVars, stackVars, missed, clientVars, opc>>

ReturnFromCallback ==
    /\ lpc = "app"
    /\ LoopDone
    /\ nested' = FALSE
    /\ UNCHANGED <<loopState, queue, last, got, serviceVars, connectionVars,
                   callbackVars, initVars, stackVars, missed, clientVars, opc>>

-----------------------------------------------------------------------------
(***************************************************************************)
(* The client: CallManagerClient and CallManagerProxy on the tasks of the  *)
(* applications.                                                           *)
(***************************************************************************)
Goto(c, p) == cpc' = [cpc EXCEPT ![c] = p]

\* CallManagerClient::Init tests isInit_ and stores it after the proxy's.
ClientInit(c) ==
    /\ cpc[c] = "idle"
    /\ ~isInit
    /\ Goto(c, "init")
    /\ UNCHANGED <<loopVars, serviceVars, connectionVars, callbackVars,
                   initVars, stackVars, missed, cop, ccb, opc>>

ClientInitDone(c) ==
    /\ cpc[c] = "init"
    /\ initStatus' = TRUE
    /\ isInit' = TRUE
    /\ Goto(c, "idle")
    /\ UNCHANGED <<loopVars, serviceVars, connectionVars, callbackVars,
                   stackVars, missed, cop, ccb, opc>>

\* CallManagerClient::UnInit; the proxy has nothing to do the second time.
ClientUnInit(c) ==
    /\ cpc[c] = "idle"
    /\ isInit
    /\ cop' = [cop EXCEPT ![c] = "close"]
    /\ Goto(c, IF initStatus THEN "post" ELSE "fini")
    /\ initStatus' = FALSE
    /\ UNCHANGED <<loopVars, serviceVars, connectionVars, callbackVars, isInit,
                   stackVars, missed, ccb, opc>>

ClientUnInitDone(c) ==
    /\ cpc[c] = "fini"
    /\ isInit' = FALSE
    /\ Goto(c, "idle")
    /\ UNCHANGED <<loopVars, serviceVars, connectionVars, callbackVars,
                   initStatus, stackVars, missed, cop, ccb, opc>>

\* RunOnService, on the caller's task: without Init nothing is posted.
BeginCall(c) ==
    /\ cpc[c] = "idle"
    /\ initStatus
    /\ \/ /\ cop' = [cop EXCEPT ![c] = "plain"]
          /\ UNCHANGED ccb
       \/ \E cb \in Free :
             /\ cop' = [cop EXCEPT ![c] = "register"]
             /\ ccb' = [ccb EXCEPT ![c] = cb]
    /\ Goto(c, "post")
    /\ UNCHANGED <<loopVars, serviceVars, connectionVars, callbackVars,
                   initVars, stackVars, missed, opc>>

\* PostSyncTask; refused, the call ends with an error.  Which of the plain
\* calls it is matters only now.
PostCall(c) ==
    /\ cpc[c] = "post"
    /\ IF CanPostSync
       THEN /\ \E op \in IF cop[c] = "plain" THEN PlainOp ELSE {cop[c]} :
                  queue' = Append(queue, Task(op, ccb[c], c))
            /\ Goto(c, "wait")
       ELSE /\ Goto(c, IF cop[c] = "close" THEN "fini" ELSE "idle")
            /\ UNCHANGED queue
    /\ ccb' = [ccb EXCEPT ![c] = NoCallback]
    /\ UNCHANGED <<loopState, lpc, hand, last, got, nested, serviceVars,
                   connectionVars, callbackVars, initVars, stackVars, missed,
                   cop, opc>>

TimeOut(c) ==
    /\ cpc[c] = "wait"
    /\ Abandon(c)
    /\ Goto(c, IF cop[c] = "close" THEN "fini" ELSE "idle")
    /\ UNCHANGED <<loopState, lpc, last, got, nested, serviceVars, connectionVars,
                   callbackVars, initVars, stackVars, missed, cop, ccb, opc>>

-----------------------------------------------------------------------------
(***************************************************************************)
(* The owner: CallManagerServiceMiniStart and CallManagerServiceMiniStop.  *)
(***************************************************************************)
\* The loop is started unless it runs; what an unfinished Stop has left in
\* STOPPING cannot be started again.
MiniStart ==
    /\ opc = "idle"
    /\ loopState = "UNINIT"
    /\ loopState' = "RUNNING"
    /\ opc' = "start"
    /\ UNCHANGED <<queue, lpc, hand, last, got, nested, serviceVars,
                   connectionVars, callbackVars, initVars, stackVars, missed,
                   clientVars>>

\* The synchronous post of Init or UnInit; refused, the owner stops the loop.
PostLifecycle(op, wait) ==
    /\ IF CanPostSync
       THEN /\ queue' = Append(queue, Task(op, NoCallback, Owner))
            /\ opc' = wait
       ELSE opc' = "stop" /\ UNCHANGED queue
    /\ UNCHANGED <<loopState, lpc, hand, last, got, nested, serviceVars,
                   connectionVars, callbackVars, initVars, stackVars, missed,
                   clientVars>>

PostInit ==
    /\ opc = "start" \/ (opc = "idle" /\ loopState = "RUNNING")
    /\ PostLifecycle("init", "starting")

MiniStop ==
    /\ opc = "idle"
    /\ loopState = "RUNNING"
    /\ PostLifecycle("uninit", "stopping")

OwnerTimesOut ==
    /\ opc \in {"starting", "stopping"}
    /\ Abandon(Owner)
    /\ opc' = "stop"
    /\ UNCHANGED <<loopState, lpc, last, got, nested, serviceVars, connectionVars,
                   callbackVars, initVars, stackVars, missed, clientVars>>

\* LosEventHandler::Stop: refuse posts, then wait for the loop to end.
StopLoop ==
    /\ opc = "stop"
    /\ loopState' = "STOPPING"
    /\ opc' = "join"
    /\ UNCHANGED <<queue, lpc, hand, last, got, nested, serviceVars,
                   connectionVars, callbackVars, initVars, stackVars, missed, clientVars>>

LoopEnded == lpc = "idle" /\ queue = <<>>

JoinLoop ==
    /\ opc = "join"
    /\ loopState' = IF LoopEnded THEN "UNINIT" ELSE loopState
    /\ last' = (last /\ ~LoopEnded)
    /\ opc' = "idle"
    /\ UNCHANGED <<queue, lpc, hand, got, nested, serviceVars, connectionVars,
                   callbackVars, initVars, stackVars, missed, clientVars>>

-----------------------------------------------------------------------------
LoopStep ==
    \/ Take \/ Drain
    \/ ServiceInit \/ ServiceReady \/ ServiceUnInit \/ ServiceDetach
    \/ RegisterCallbackOnLoop \/ AttachUplink \/ HandleReport
    \/ RunClientCall \/ HandleRequest \/ Deliver \/ ReturnFromCallback

ClientStep(c) ==
    \/ ClientInit(c) \/ ClientInitDone(c) \/ ClientUnInit(c) \/ ClientUnInitDone(c)
    \/ BeginCall(c) \/ PostCall(c) \/ TimeOut(c)

StackStep ==
    \/ StackRegister \/ StackSnapshot \/ StackNotify
    \/ StackWithdraw \/ StackReport

OwnerStep ==
    \/ MiniStart \/ PostInit \/ MiniStop \/ OwnerTimesOut
    \/ StopLoop \/ JoinLoop

Next ==
    \/ LoopStep
    \/ \E op \in ClientOp : CallFromCallback(op)
    \/ \E c \in Clients : ClientStep(c)
    \/ StackStep
    \/ OwnerStep

Spec == Init /\ [][Next]_vars

-----------------------------------------------------------------------------
(***************************************************************************)
(* Properties.                                                             *)
(***************************************************************************)
\* Every variable has a value of its type; the queue keeps its bound.
TypeOK ==
    /\ loopState \in {"UNINIT", "RUNNING", "STOPPING"}
    /\ queue \in Seq(Tasks) /\ Len(queue) <= QueueSize
    /\ lpc \in {"idle", "run", "watch", "detach", "attach", "app"}
    /\ hand \in Tasks \cup {NoTask}
    /\ got \in Stacks \cup {NoStack}
    /\ stack \in Stacks \cup {NoStack}
    /\ uplink \subseteq Stacks /\ strays \subseteq Stacks
    /\ {last, nested, ready, control, handler, initialized, callbackRegistered,
        isInit, initStatus, registerStatus, listening, missed} \subseteq BOOLEAN
    /\ calls \in 0 .. MaxCalls
    /\ {reportCb, proxyCb} \subseteq Callbacks \cup {NoCallback}
    /\ closed \subseteq Callbacks
    /\ spc \in {"idle", "snapshot", "notify"}
    /\ cpc \in [Clients -> {"idle", "init", "post", "wait", "fini"}]
    /\ cop \in [Clients -> {"plain", "register", "close"}]
    /\ ccb \in [Clients -> Callbacks \cup {NoCallback}]
    /\ opc \in {"idle", "start", "starting", "stopping", "stop", "join"}

\* The service reports to the callback the client holds, and to none that
\* was closed: the two registrations, one in CallManagerProxy and one in
\* CallAbilityReportProxy, agree across refused, late and repeated calls, a
\* stop of the service and a client that ends.
ReportsAgree ==
    reportCb # NoCallback =>
        registerStatus /\ proxyCb = reportCb /\ reportCb \notin closed

\* The stacks that hold the uplink and that the service has not lost sight
\* of: UnInit takes the uplink back from the stack registered at that moment.
Linked == uplink \ strays

\* A service that is not ready has, of what this module holds, left behind no
\* observer, status manager, call, listener and callback, and no uplink at the
\* stack, even if a report or a registration was still queued when it went
\* down: save at a stack that was not registered when it went down.
CleanWhenNotReady ==
    ~ready /\ lpc \notin {"watch", "detach"} =>
        /\ ~control /\ ~handler /\ calls = 0 /\ reportCb = NoCallback
        /\ ~initialized /\ ~callbackRegistered /\ ~listening
        /\ stack \notin Linked

\* A report queued before the callback was unregistered is not delivered
\* after it: the application's code is entered only for the callback that is
\* registered with the client at that moment.
OnlyRegisteredIsCalled ==
    [][lpc # "app" /\ lpc' = "app" => registerStatus /\ proxyCb = hand.cb]_vars

\* A stack that holds the uplink callback is not given another one, unless a
\* stop of the service in between did not reach it.
UplinkOnce == [][lpc = "attach" /\ callbackRegistered' => got \notin Linked]_vars

\* A notice of the stack is on its way to the registration, or one was lost
\* (a full queue, a stopped loop, a refusal).
NoticePending ==
    \/ missed
    \/ spc # "idle"
    \/ lpc = "attach"
    \/ hand.op = "uplink"
    \/ \E i \in DOMAIN queue : queue[i].op = "uplink"

\* A stack and a service that come up at the same time do not miss each
\* other.  It speaks of a service that holds no registration: what a stack
\* that replaces another one meets is said by ReplacementIsServed.
UplinkNotMissed ==
    ready /\ stack # NoStack /\ ~callbackRegistered => NoticePending

\* The types hold, and no notice gets lost on the way to a service that waits
\* for its stack.
UplinkSound == TypeOK /\ UplinkNotMissed

\* "The uplink is registered on the main loop once the stack is there"
\* (cellular_call_connection.h:38), also when the stack has replaced an
\* earlier one (cellular_call_lite_interface.h:60).
ReplacementIsServed ==
    ready /\ stack # NoStack /\ stack \notin uplink => NoticePending

\* A service that was stopped is no longer called by the stack: leaving takes
\* the uplink back (MiniStop posts UnInit to the loop and stops the loop).
StoppedHasNoUplink == loopState = "UNINIT" => stack \notin Linked

\* The application's callback is not destroyed while it runs, also when it
\* unregisters itself (UnRegisterCallBack runs at once on the loop).
DispatchOutlives == lpc = "app" => hand.cb \notin closed
=============================================================================
