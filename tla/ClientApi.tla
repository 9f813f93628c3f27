------------------------------ MODULE ClientApi ------------------------------
(***************************************************************************)
(* A call through CallManagerClient, from the application's task through   *)
(* the proxy to the service on the main loop and back, while other tasks   *)
(* initialise and close the same client and the service starts, stops and  *)
(* starts again.  CallMethods says what each layer makes of each method;   *)
(* here a call passes the layers in steps, so that what one of them has    *)
(* tested may be over when the next one acts.                              *)
(*                                                                         *)
(* The main loop is what a caller sees of LosEventHandler (see             *)
(* CallService): a bounded queue served in order, refused when full or not *)
(* running, emptied by a stop, and a wait that may be given up while its   *)
(* request stays.  What the call control answers to a request is left      *)
(* open: CallManager has the calls.                                        *)
(***************************************************************************)
EXTENDS CallMethods, Naturals, Sequences

CONSTANTS
    Clients,            \* tasks that share the client
    Nobody,             \* no task waits for the answer
    Called,             \* methods the tasks call
    Trusts,             \* trust models of builds
    QueueSize           \* MINI_QUEUE_SIZE

ASSUME ClientAssumption ==
    /\ Nobody \notin Clients
    /\ Called \subseteq Methods
    /\ \A t \in Trusts : t.granted \subseteq Permissions
                         /\ t.system \in BOOLEAN
    /\ QueueSize \in Nat \ {0}

VARIABLES
    trust,              \* g_trustModel
    proxyMade,          \* g_callManagerProxy is not null
    isInit,             \* CallManagerClient::isInit_
    initStatus,         \* CallManagerProxy::initStatus_
    registered,         \* CallManagerProxy::registerStatus_, with its callback
    running,            \* LosEventHandler::state_ is RUNNING
    queue,              \* requests posted to the loop, oldest first
    ready,              \* CallManagerService::ready_
    reported,           \* CallAbilityReportProxy::callbackPtr_ is not null
    pc,                 \* program point of each task
    call,               \* the method and argument each task last called
    answer,             \* what its last call returned
    acted,              \* that call reached the call control
    late                \* what the step of the loop did for nobody, or NoCall

clientVars == <<proxyMade, isInit, initStatus>>
serviceVars == <<running, ready>>
callbackVars == <<registered, reported>>
taskVars == <<pc, call, answer, acted>>
vars == <<trust, clientVars, serviceVars, callbackVars, queue, taskVars, late>>

Call(m, arg) == [method |-> m, arg |-> arg]
NoCall == Call("none", "plain")
\* The task of CallManagerProxy::UnInit on the loop.
Close == Call("close", "plain")
Request(what, task) == [call |-> what, by |-> task]

Init ==
    /\ trust \in Trusts
    /\ proxyMade = FALSE /\ isInit = FALSE /\ initStatus = FALSE
    /\ registered = FALSE
    /\ running = FALSE /\ queue = <<>> /\ ready = FALSE /\ reported = FALSE
    /\ pc = [c \in Clients |-> "idle"]
    /\ call = [c \in Clients |-> NoCall]
    /\ answer = [c \in Clients |-> "none"]
    /\ acted = [c \in Clients |-> FALSE]
    /\ late = NoCall

Goto(c, label) == pc' = [pc EXCEPT ![c] = label]
Return(c, reply) ==
    Goto(c, "idle") /\ answer' = [answer EXCEPT ![c] = reply]
Enter(c, what) ==
    /\ call' = [call EXCEPT ![c] = what]
    /\ acted' = [acted EXCEPT ![c] = FALSE]

-----------------------------------------------------------------------------
(***************************************************************************)
(* CallManagerClient::Init and UnInit.  Each tests isInit_ once and stores *)
(* it last.                                                                *)
(***************************************************************************)
MakeProxy(c) ==
    /\ pc[c] = "idle" /\ ~isInit
    /\ proxyMade' = TRUE
    /\ Enter(c, Call("Init", "plain")) /\ Goto(c, "proxy init")
    /\ UNCHANGED <<isInit, initStatus, answer>>

InitProxy(c) ==
    /\ pc[c] = "proxy init"
    /\ initStatus' = TRUE /\ Goto(c, "initialised")
    /\ UNCHANGED <<proxyMade, isInit, call, answer, acted>>

SetInit(c) ==
    /\ pc[c] = "initialised"
    /\ isInit' = TRUE /\ Return(c, "none")
    /\ UNCHANGED <<proxyMade, initStatus, call, acted>>

RefuseUnInit(c) ==
    /\ pc[c] = "idle" /\ ~isInit
    /\ Enter(c, Call("UnInit", "plain")) /\ Return(c, "refused")
    /\ UNCHANGED clientVars

BeginUnInit(c) ==
    /\ pc[c] = "idle" /\ isInit
    /\ Enter(c, Call("UnInit", "plain")) /\ Goto(c, "proxy uninit")
    /\ UNCHANGED <<clientVars, answer>>

Posts == running /\ Len(queue) < QueueSize
Post(what, c) == queue' = Append(queue, Request(what, c))

\* CallManagerProxy::UnInit.  Nobody looks at the result of its post.
UnInitProxy(c) ==
    /\ pc[c] = "proxy uninit"
    /\ initStatus' = FALSE
    /\ IF initStatus /\ Posts
       THEN Post(Close, c) /\ Goto(c, "closing")
       ELSE Goto(c, "closed") /\ UNCHANGED queue
    /\ UNCHANGED <<proxyMade, isInit, call, answer, acted>>

ClearInit(c) ==
    /\ pc[c] = "closed"
    /\ isInit' = FALSE /\ Return(c, "none")
    /\ UNCHANGED <<proxyMade, initStatus, call, acted>>

LifeCycle(c) ==
    /\ \/ /\ \/ MakeProxy(c) \/ InitProxy(c) \/ SetInit(c)
             \/ RefuseUnInit(c) \/ BeginUnInit(c) \/ ClearInit(c)
          /\ UNCHANGED queue
       \/ UnInitProxy(c)
    /\ late' = NoCall
    /\ UNCHANGED <<trust, serviceVars, callbackVars>>

-----------------------------------------------------------------------------
(***************************************************************************)
(* A call in the application's task.                                       *)
(***************************************************************************)
\* CallManagerClient: every method but a few tests the proxy first.
CallClient(c) ==
    /\ pc[c] = "idle"
    /\ \E m \in Called : \E arg \in Arguments(m) :
          /\ Enter(c, Call(m, arg))
          /\ \/ /\ m \in Answered
                /\ \E reply \in LocalReplies(m) : Return(c, reply)
             \/ /\ m \in Proxied /\ ~proxyMade
                /\ Return(c, Failure(m, "UNINIT"))
             \/ /\ m \in Proxied /\ proxyMade
                /\ Goto(c, "proxy") /\ UNCHANGED answer
    /\ UNCHANGED queue

\* CallManagerProxy: what it turns down, and initStatus_ before the rest.
CallProxy(c) ==
    LET m == call[c].method
    IN  /\ pc[c] = "proxy"
        /\ \/ m \in Refused /\ Return(c, NotSupported(m))
           \/ m \in Forwarded /\ ~initStatus /\ Return(c, ServiceNotReady(m))
           \/ /\ m \in Forwarded /\ initStatus /\ call[c].arg = "null"
              /\ Return(c, "LOCAL_PTR_NULL")
           \/ /\ m \in Forwarded /\ initStatus /\ call[c].arg # "null"
              /\ Goto(c, "post") /\ UNCHANGED answer
        /\ UNCHANGED <<queue, call, acted>>

\* PostSyncCall of RunOnService.
PostCall(c) ==
    LET m == call[c].method
    IN  /\ pc[c] = "post"
        /\ \/ Posts /\ Post(call[c], c) /\ Goto(c, "waiting")
              /\ UNCHANGED answer
           \/ /\ ~running /\ Return(c, Failure(m, "UNINIT"))
              /\ UNCHANGED queue
           \/ /\ running /\ ~Posts
              /\ Return(c, Failure(m, "IPC_CONNECT_STUB_FAIL"))
              /\ UNCHANGED queue
        /\ UNCHANGED <<call, acted>>

Waits(c) == pc[c] \in {"waiting", "closing"}
Abandoned(c) ==
    [i \in DOMAIN queue |->
       IF queue[i].by = c THEN [queue[i] EXCEPT !.by = Nobody] ELSE queue[i]]

\* Mutant: the result of a call that did not reach the service is kept.
TimeOutMutant(c) ==
    /\ Waits(c)
    /\ queue' = Abandoned(c)
    /\ IF pc[c] = "closing" THEN Goto(c, "closed") /\ UNCHANGED answer
       ELSE Return(c, "SUCCESS")
    /\ UNCHANGED <<call, acted>>

\* MINI_SYNC_WAIT_MS is over; the request stays in the queue.
TimeOut(c) ==
    /\ Waits(c)
    /\ queue' = Abandoned(c)
    /\ IF pc[c] = "closing" THEN Goto(c, "closed") /\ UNCHANGED answer
       ELSE Return(c, Failure(call[c].method, "IPC_CONNECT_STUB_FAIL"))
    /\ UNCHANGED <<call, acted>>

Application(c) ==
    /\ CallClient(c) \/ CallProxy(c) \/ PostCall(c) \/ TimeOut(c)
    /\ late' = NoCall
    /\ UNCHANGED <<trust, clientVars, serviceVars, callbackVars>>

-----------------------------------------------------------------------------
(***************************************************************************)
(* The request on the main loop.                                           *)
(***************************************************************************)
\* The answer of the request at the head of the queue, if anybody waits.  The
\* request of a caller that gave up is served like any other.
Answer(reply, done) ==
    LET c == Head(queue).by
    IN  /\ queue' = Tail(queue)
        /\ late' = IF c = Nobody /\ done THEN Head(queue).call ELSE NoCall
        /\ UNCHANGED call
        /\ IF c = Nobody THEN UNCHANGED <<pc, answer, acted>>
           ELSE /\ acted' = [acted EXCEPT ![c] = done]
                /\ IF pc[c] = "closing"
                   THEN Goto(c, "closed") /\ UNCHANGED answer
                   ELSE Return(c, reply)

\* The gate in the task of RunOnService.
ServiceReady == ready

FindNotReady ==
    /\ Head(queue).call # Close /\ ~ServiceReady
    /\ Answer(Failure(Head(queue).call.method, "UNINIT"), FALSE)
    /\ UNCHANGED callbackVars

\* Mutant: the service keeps the callback.
CloseCallBackMutant ==
    /\ Head(queue).call = Close
    /\ registered' = FALSE
    /\ Answer("none", FALSE)
    /\ UNCHANGED reported

CloseCallBack ==
    /\ Head(queue).call = Close
    /\ registered' = FALSE
    /\ reported' = (reported /\ ~registered)
    /\ Answer("none", FALSE)

RegisterCallBack ==
    LET m == "RegisterCallBack"
        verdict == Verdict(trust, m, "plain")
    IN  /\ Head(queue).call.method = m /\ ServiceReady
        /\ \/ /\ registered
              /\ Answer("REGISTER_CALLBACK_FAIL", FALSE)
              /\ UNCHANGED callbackVars
           \/ /\ ~registered /\ verdict # "pass"
              /\ Answer(verdict, FALSE) /\ UNCHANGED callbackVars
           \/ /\ ~registered /\ verdict = "pass" /\ reported
              /\ Answer("REGISTER_CALLBACK_FAIL", FALSE)
              /\ UNCHANGED callbackVars
           \/ /\ ~registered /\ verdict = "pass" /\ ~reported
              /\ Answer("SUCCESS", TRUE)
              /\ registered' = TRUE /\ reported' = TRUE

UnRegisterCallBack ==
    LET m == "UnRegisterCallBack"
        verdict == Verdict(trust, m, "plain")
    IN  /\ Head(queue).call.method = m /\ ServiceReady
        /\ \/ /\ ~registered
              /\ Answer("REGISTER_CALLBACK_FAIL", FALSE)
              /\ UNCHANGED callbackVars
           \/ /\ registered /\ verdict # "pass"
              /\ Answer(verdict, FALSE) /\ UNCHANGED callbackVars
           \/ /\ registered /\ verdict = "pass" /\ ~reported
              /\ Answer("UNREGISTER_CALLBACK_FAIL", FALSE)
              /\ UNCHANGED callbackVars
           \/ /\ registered /\ verdict = "pass" /\ reported
              /\ Answer("SUCCESS", TRUE)
              /\ registered' = FALSE /\ reported' = FALSE

\* Any other entry of the service.
Serve ==
    LET request == Head(queue).call
        m == request.method
        verdict == Verdict(trust, m, request.arg)
    IN  /\ m \in Forwarded \ ForwardedCallBack /\ ServiceReady
        /\ \/ verdict # "pass" /\ Answer(Failure(m, verdict), FALSE)
           \/ /\ verdict = "pass"
              /\ \E reply \in IF m \in Booleans THEN {"true", "false"}
                              ELSE {"SUCCESS", "call error"} :
                    Answer(reply, TRUE)
        /\ UNCHANGED callbackVars

LoopStep ==
    /\ running /\ queue # <<>>
    /\ FindNotReady \/ CloseCallBack \/ RegisterCallBack
       \/ UnRegisterCallBack \/ Serve
    /\ UNCHANGED <<trust, clientVars, serviceVars>>

-----------------------------------------------------------------------------
(***************************************************************************)
(* The service starts and stops.  A stop may reach the loop's end without  *)
(* the service's, whose task is dropped when the wait for it runs out.     *)
(***************************************************************************)
StartLoop ==
    /\ ~running /\ running' = TRUE
    /\ UNCHANGED <<queue, taskVars, ready, reported>>

StartService ==
    /\ running /\ ~ready /\ ready' = TRUE
    /\ UNCHANGED <<queue, taskVars, running, reported>>

StopService ==
    /\ running /\ ready /\ ready' = FALSE /\ reported' = FALSE
    /\ UNCHANGED <<queue, taskVars, running>>

\* The requests left in the queue are recycled.
StopLoop ==
    LET left == {queue[i].by : i \in DOMAIN queue}
    IN  /\ running /\ running' = FALSE /\ queue' = <<>>
        /\ pc' = [c \in Clients |->
                    IF c \in left
                    THEN IF pc[c] = "closing" THEN "closed" ELSE "idle"
                    ELSE pc[c]]
        /\ answer' = [c \in Clients |->
                        IF c \in left /\ pc[c] = "waiting"
                        THEN Failure(call[c].method, "UNINIT") ELSE answer[c]]
        /\ UNCHANGED <<call, acted, ready, reported>>

Service ==
    /\ StartLoop \/ StartService \/ StopService \/ StopLoop
    /\ late' = NoCall
    /\ UNCHANGED <<trust, clientVars, registered>>

Next ==
    \/ \E c \in Clients : LifeCycle(c) \/ Application(c)
    \/ LoopStep
    \/ Service

Spec == Init /\ [][Next]_vars

-----------------------------------------------------------------------------
(***************************************************************************)
(* Properties.                                                             *)
(***************************************************************************)
\* The type invariant.
TypeOK ==
    /\ trust \in Trusts
    /\ proxyMade \in BOOLEAN /\ isInit \in BOOLEAN /\ initStatus \in BOOLEAN
    /\ registered \in BOOLEAN /\ reported \in BOOLEAN
    /\ running \in BOOLEAN /\ ready \in BOOLEAN
    /\ Len(queue) <= QueueSize
    /\ \A i \in DOMAIN queue : queue[i].by \in Clients \cup {Nobody}
    /\ \A c \in Clients :
          /\ pc[c] \in {"idle", "proxy init", "initialised", "proxy uninit",
                        "closing", "closed", "proxy", "post", "waiting"}
          /\ answer[c] \in Replies

\* The methods the mini client connects to the call manager
\* (mini-call-client-api/spec.md:14).
InScope ==
    {"RegisterCallBack", "UnRegisterCallBack", "ObserverOnCallDetailsChange",
     "DialCall", "AnswerCall", "AnswerCall()", "RejectCall", "RejectCall()",
     "HangUpCall", "HangUpCall()", "HoldCall", "UnHoldCall", "SwitchCall",
     "GetCallState", "HasCall", "IsRinging", "IsNewCallAllowed",
     "IsEmergencyPhoneNumber", "HasVoiceCapability", "EndCall"}

\* No other method posts to the loop, whatever the state it is called in
\* (CallManagerProxy's placeholders).
OutOfScopeIsInert ==
    \A i \in DOMAIN queue : queue[i].call = Close
                            \/ queue[i].call.method \in InScope

\* A call that returned success or yes has reached the call control: neither
\* a placeholder nor a failure on the way, a time-out, a full queue, a stop
\* between two steps, reads as success (RunOnService).
SuccessMeansActed ==
    \A c \in Clients :
        pc[c] = "idle" /\ answer[c] \in Successes
            /\ call[c].method # "HasVoiceCapability" => acted[c]

\* A call that was told the client or the service is not there has had no
\* effect and will have none: it is not in the queue either.
UninitHasNoEffect ==
    \A c \in Clients :
        pc[c] = "idle" /\ answer[c] = "UNINIT" =>
            /\ ~acted[c]
            /\ \A i \in DOMAIN queue : queue[i].by # c

\* What a call returns says what became of it.
AnswersAreTrue == SuccessMeansActed /\ UninitHasNoEffect

\* Who may reach which entry, in the clauses of the table of design.md:214:
\* one permission of each clause, and a system application where it says so.
SystemOnly ==
    {"UnRegisterCallBack", "ObserverOnCallDetailsChange", "DialCall",
     "AnswerCall", "RejectCall", "HangUpCall", "HoldCall", "UnHoldCall",
     "SwitchCall", "EndCall", "IsRinging", "IsNewCallAllowed"}
Clauses(m) ==
    CASE m = "RegisterCallBack" ->
            {{"SET_TELEPHONY_STATE", "GET_TELEPHONY_STATE",
              "GET_CALL_TRANSFER_INFO"}}
      [] m \in {"UnRegisterCallBack", "IsRinging"} ->
            {{"SET_TELEPHONY_STATE"}}
      [] m = "ObserverOnCallDetailsChange" ->
            {{"SET_TELEPHONY_STATE", "GET_TELEPHONY_STATE"}}
      [] m = "DialCall" -> {{"PLACE_CALL"}}
      [] m \in {"AnswerCall", "HoldCall", "UnHoldCall", "SwitchCall"} ->
            {{"ANSWER_CALL"}}
      [] m = "AnswerCall()" -> {{"ANSWER_CALL", "MANAGE_CALL_FOR_DEVICES"}}
      [] m \in {"RejectCall", "HangUpCall", "EndCall"} ->
            {{"ANSWER_CALL", "SET_TELEPHONY_STATE"}}
      [] m \in {"RejectCall()", "HangUpCall()"} ->
            {{"ANSWER_CALL", "SET_TELEPHONY_STATE",
              "MANAGE_CALL_FOR_DEVICES"}}
      [] OTHER -> {}

Allowed(what) ==
    /\ what.method \in SystemOnly => trust.system
    /\ \A clause \in Clauses(what.method) : clause \cap trust.granted # {}
    /\ what.arg = "plain"

\* Whoever reached the call control was allowed to, under every trust model,
\* and did not ask for an option the mini system refuses: a caller that waits,
\* and one that gave up before its request was served.
ReachedAsAllowed ==
    /\ \A c \in Clients : acted[c] => Allowed(call[c])
    /\ late = NoCall \/ Allowed(late)

\* The service reports to nobody but the callback the proxy holds, so that
\* what the proxy closes or replaces is never called again.
NoOrphanCallBack == reported => registered

\* An UnInit called while no other task is inside Init or UnInit leaves the
\* client uninitialised: what is called after it returns UNINIT (mini-call-client-api/spec.md:24).
Between(c) ==
    pc[c] \in {"proxy init", "initialised", "proxy uninit", "closing",
               "closed"}
UnInitSticks ==
    [][\A c \in Clients :
          RefuseUnInit(c) /\ (\A d \in Clients : ~Between(d)) => ~initStatus]_vars

\* A registration refused as the second one leaves the first in force: the
\* service has its callback (mini-call-client-api/spec.md:94).
FirstStaysRegistered ==
    [][\A c \in Clients :
          /\ pc[c] = "waiting" /\ pc'[c] = "idle"
          /\ call[c].method = "RegisterCallBack"
          /\ answer'[c] = "REGISTER_CALLBACK_FAIL"
          => reported]_vars
=============================================================================
