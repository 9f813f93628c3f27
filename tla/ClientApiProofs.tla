--------------------------- MODULE ClientApiProofs ---------------------------
(***************************************************************************)
(* Theorems about the calls through CallManagerClient, for every set of    *)
(* tasks, every choice of the methods they call, every trust model and     *)
(* every size of the queue.                                                *)
(*                                                                         *)
(* The argument follows a request: only what the proxy forwards is posted, *)
(* a task owns at most one request of the queue and waits as long as it    *)
(* does, and what is done for a request is done for the call its owner     *)
(* still waits for.                                                        *)
(***************************************************************************)
EXTENDS ClientApi, SequenceTheorems, TLAPS

Points == {"idle", "proxy init", "initialised", "proxy uninit", "closing",
           "closed", "proxy", "post", "waiting"}
Forms == {"plain", "null", "long", "video", "rtt", "message"}
Calls == [method : Methods \cup {"none", "close", "Init", "UnInit"},
          arg : Forms]
Requests == [call : Calls, by : Clients \cup {Nobody}]

\* What the proxy posts for a task, and what may be in the queue.
Formed(k) == k.arg \in Arguments(k.method)
Forwardable(k) == k.method \in Forwarded /\ Formed(k) /\ k.arg # "null"
Postable(k) == k = Close \/ Forwardable(k)

\* What the loop did for a caller that gave up.
LateOK == late = NoCall \/ Allowed(late)

\* What holds of one task.
TaskOK(c) ==
    /\ pc[c] \in {"post", "waiting"} => Forwardable(call[c])
    /\ pc[c] = "proxy" => Formed(call[c])
    /\ pc[c] # "idle" => acted[c] = FALSE
    /\ pc[c] = "idle" =>
          /\ answer[c] \in Successes /\ call[c].method # "HasVoiceCapability"
                => acted[c] = TRUE
          /\ answer[c] = "UNINIT" => acted[c] = FALSE
    /\ acted[c] = TRUE => Allowed(call[c])

\* A task owns a request as long as it waits for it, and one at a time.
Owns(c, r) ==
    \/ pc[c] = "closing" /\ r.call = Close
    \/ pc[c] = "waiting" /\ r.call = call[c]
OwnedAt(i) ==
    /\ Postable(queue[i].call)
    /\ queue[i].by \in Clients => Owns(queue[i].by, queue[i])
Owned == \A i \in DOMAIN queue : OwnedAt(i)
OwnedOnce ==
    \A i, j \in DOMAIN queue :
       queue[i].by \in Clients /\ queue[i].by = queue[j].by => i = j

Flags ==
    /\ trust \in Trusts
    /\ proxyMade \in BOOLEAN /\ isInit \in BOOLEAN /\ initStatus \in BOOLEAN
    /\ registered \in BOOLEAN /\ reported \in BOOLEAN
    /\ running \in BOOLEAN /\ ready \in BOOLEAN
TasksTyped ==
    /\ pc \in [Clients -> Points]
    /\ call \in [Clients -> Calls]
    /\ answer \in [Clients -> Replies]
    /\ acted \in [Clients -> BOOLEAN]
QueueTyped == queue \in Seq(Requests) /\ Len(queue) <= QueueSize

\* The invariant of the tasks and the queue.
TaskInv ==
    /\ TasksTyped /\ QueueTyped
    /\ \A c \in Clients : TaskOK(c)
    /\ Owned /\ OwnedOnce

\* What a step leaves of the other tasks.
Alone(c) ==
    /\ \A d \in Clients \ {c} : /\ pc'[d] = pc[d] /\ call'[d] = call[d]
                                /\ answer'[d] = answer[d] /\ acted'[d] = acted[d]
    /\ trust' = trust

-----------------------------------------------------------------------------
(***************************************************************************)
(* The tables of CallMethods.                                              *)
(***************************************************************************)
LEMMA FormsOfArguments == ASSUME NEW m PROVE Arguments(m) \subseteq Forms
BY DEF Arguments, Forms

LEMMA CloseIsNotForwarded == "close" \notin Forwarded
BY DEF Forwarded, ForwardedCallBack, ForwardedControl, ForwardedQueries,
       ForwardedEnd, ForwardedBare

LEMMA FailureIsNoSuccess ==
    ASSUME NEW m, NEW code \in Replies \ Successes
    PROVE  Failure(m, code) \in Replies \ Successes
BY DEF Failure, Replies, Successes

\* The proxy forwards what is in scope (and "close" is no method).
LEMMA ForwardedInScope == Forwarded \subseteq InScope
BY DEF Forwarded, ForwardedCallBack, ForwardedControl, ForwardedQueries,
       ForwardedEnd, ForwardedBare, InScope

\* Every entry that is forwarded has its check.
AllChecks == RegistrationChecks \cup ControlChecks \cup HoldChecks
                 \cup QueryChecks \cup BareChecks

LEMMA EveryEntryIsChecked ==
    ASSUME NEW m \in Forwarded
    PROVE  CheckOf(m) \in AllChecks /\ CheckOf(m).method = m
<1>1. \E check \in AllChecks : check.method = m
  <2> USE DEF Check
  <2>1. CASE m \in ForwardedCallBack \/ m = "ObserverOnCallDetailsChange"
    <3>1. \E check \in RegistrationChecks : check.method = m
      BY <2>1 DEF RegistrationChecks, ForwardedCallBack
    <3> QED BY <3>1 DEF AllChecks
  <2>2. CASE m \in {"DialCall", "AnswerCall", "RejectCall", "HangUpCall",
                    "GetCallState"}
    <3>1. \E check \in ControlChecks : check.method = m
      BY <2>2 DEF ControlChecks
    <3> QED BY <3>1 DEF AllChecks
  <2>3. CASE m \in {"HoldCall", "UnHoldCall", "SwitchCall"}
    <3>1. Check(m, TRUE, {"ANSWER_CALL"}) \in HoldChecks
      BY <2>3 DEF HoldChecks
    <3> QED BY <3>1 DEF AllChecks
  <2>4. CASE m \in ForwardedQueries
    <3>1. \E check \in QueryChecks : check.method = m
      BY <2>4 DEF QueryChecks, ForwardedQueries
    <3> QED BY <3>1 DEF AllChecks
  <2>5. CASE m \in ForwardedEnd \cup {"AnswerCall()"}
    <3>1. /\ Check("EndCall", TRUE, {"ANSWER_CALL", "SET_TELEPHONY_STATE"})
                \in BareChecks
          /\ Check("AnswerCall()", FALSE,
                   {"ANSWER_CALL", "MANAGE_CALL_FOR_DEVICES"}) \in BareChecks
      BY DEF BareChecks
    <3>2. m = "EndCall" \/ m = "AnswerCall()"
      BY <2>5 DEF ForwardedEnd
    <3> QED BY <3>1, <3>2 DEF AllChecks
  <2>6. CASE m \in {"RejectCall()", "HangUpCall()"}
    <3>1. Check(m, FALSE, {"ANSWER_CALL", "SET_TELEPHONY_STATE",
                           "MANAGE_CALL_FOR_DEVICES"}) \in BareChecks
      BY <2>6 DEF BareChecks
    <3> QED BY <3>1 DEF AllChecks
  <2> QED BY <2>1, <2>2, <2>3, <2>4, <2>5, <2>6
          DEF Forwarded, ForwardedControl, ForwardedBare
<1> QED BY <1>1 DEF CheckOf, AllChecks

\* A check asks for what the table of the design asks for.
LEMMA ChecksAreTheTable ==
    ASSUME NEW check \in AllChecks
    PROVE  /\ check.method \in SystemOnly => check.system = TRUE
           /\ \A clause \in Clauses(check.method) :
                 clause = check.anyOf /\ clause # {}
<1> USE DEF Check, SystemOnly, Clauses
<1>1. CASE check \in RegistrationChecks
  BY <1>1 DEF RegistrationChecks
<1>2. CASE check \in ControlChecks
  BY <1>2 DEF ControlChecks
<1>3. CASE check \in HoldChecks
  BY <1>3 DEF HoldChecks
<1>4. CASE check \in QueryChecks
  BY <1>4 DEF QueryChecks
<1>5. CASE check \in BareChecks
  BY <1>5 DEF BareChecks
<1> QED BY <1>1, <1>2, <1>3, <1>4, <1>5 DEF AllChecks

LEMMA VerdictType ==
    ASSUME NEW t, NEW m, NEW arg
    PROVE  Verdict(t, m, arg) = "pass"
           \/ Verdict(t, m, arg) \in Replies \ Successes
BY DEF Verdict, RefuseOption, Replies, Successes

\* What passes the tests of an entry may use it.
LEMMA PassedIsAllowed ==
    ASSUME trust \in Trusts, NEW k \in Calls, Forwardable(k),
           Verdict(trust, k.method, k.arg) = "pass"
    PROVE  Allowed(k)
<1> DEFINE check == CheckOf(k.method)
<1>1. check \in AllChecks /\ check.method = k.method
  BY EveryEntryIsChecked DEF Forwardable
<1>2. trust.system \in BOOLEAN
  BY ClientAssumption
<1>3. /\ k.method \in SystemOnly => check.system = TRUE
      /\ \A clause \in Clauses(k.method) :
            clause = check.anyOf /\ clause # {}
  BY <1>1, ChecksAreTheTable
<1>4. /\ ~(check.system /\ ~IsSystemCaller(trust))
      /\ ~(check.anyOf # {} /\ \A p \in check.anyOf : ~CheckPermission(trust, p))
      /\ ~(k.method = "DialCall" /\ k.arg = "long")
      /\ RefuseOption(k.method, k.arg) = "pass"
  BY DEF Verdict
<1> HIDE DEF check
<1>5. k.method \in SystemOnly => trust.system
  BY <1>2, <1>3, <1>4 DEF IsSystemCaller
<1>6. ASSUME NEW clause \in Clauses(k.method)
      PROVE  clause \cap trust.granted # {}
  BY <1>3, <1>4 DEF CheckPermission
<1>7. k.arg = "plain"
  BY <1>4 DEF RefuseOption, Forwardable, Formed, Arguments
<1> QED BY <1>5, <1>6, <1>7 DEF Allowed

-----------------------------------------------------------------------------
(***************************************************************************)
(* Steps of one task.                                                      *)
(***************************************************************************)
\* A task that does not wait moves on, and no request changes.
LEMMA AloneStep ==
    ASSUME TaskInv, NEW c \in Clients, Alone(c), TasksTyped', TaskOK(c)',
           queue' = queue, ~Waits(c)
    PROVE  TaskInv'
<1>1. ASSUME NEW d \in Clients PROVE TaskOK(d)'
  BY <1>1 DEF TaskInv, Alone, TaskOK, Allowed
<1>2. Owned'
  <2>1. ASSUME NEW i \in DOMAIN queue, queue[i].by \in Clients
        PROVE  queue[i].by # c
    BY <2>1 DEF TaskInv, Owned, OwnedAt, Owns, Waits
  <2> QED BY <2>1 DEF TaskInv, Owned, OwnedAt, Owns, Alone
<1> QED BY <1>1, <1>2 DEF TaskInv, QueueTyped, OwnedOnce

\* A task that does not wait posts a request and waits for it.
LEMMA PostStep ==
    ASSUME TaskInv, NEW c \in Clients, Alone(c), TasksTyped', TaskOK(c)',
           ~Waits(c), Posts, NEW k \in Calls, Post(k, c), Postable(k),
           \/ pc'[c] = "closing" /\ k = Close
           \/ pc'[c] = "waiting" /\ k = call'[c]
    PROVE  TaskInv'
<1> DEFINE r == Request(k, c)
<1>1. ASSUME NEW d \in Clients PROVE TaskOK(d)'
  BY <1>1 DEF TaskInv, Alone, TaskOK, Allowed
<1>2. r \in Requests /\ r.by = c /\ r.call = k
  BY DEF Request, Requests
<1>3. queue \in Seq(Requests) /\ queue' = Append(queue, r)
  BY DEF TaskInv, QueueTyped, Post
<1> HIDE DEF r
<1>4. /\ queue' \in Seq(Requests) /\ Len(queue') = Len(queue) + 1
      /\ \A i \in 1 .. Len(queue) : queue'[i] = queue[i]
      /\ queue'[Len(queue) + 1] = r
  BY <1>2, <1>3
<1>5. DOMAIN queue = 1 .. Len(queue) /\ DOMAIN queue' = 1 .. Len(queue) + 1
      /\ Len(queue) \in Nat
  BY <1>3, <1>4
<1>6. QueueTyped'
  BY <1>4, <1>5, ClientAssumption DEF Posts, QueueTyped
<1>7. ASSUME NEW i \in DOMAIN queue, queue[i].by \in Clients
      PROVE  queue[i].by # c
  BY <1>7 DEF TaskInv, Owned, OwnedAt, Owns, Waits
<1>8. Owned'
  <2> SUFFICES ASSUME NEW i \in DOMAIN queue' PROVE OwnedAt(i)'
    BY DEF Owned
  <2>1. CASE i \in DOMAIN queue
    <3>1. queue'[i] = queue[i]
      BY <2>1, <1>4, <1>5
    <3>2. OwnedAt(i)
      BY <2>1 DEF TaskInv, Owned
    <3>3. queue[i].by \in Clients => queue[i].by \in Clients \ {c}
      BY <2>1, <1>7
    <3> QED BY <3>1, <3>2, <3>3 DEF OwnedAt, Owns, Alone
  <2>2. CASE i = Len(queue) + 1
    BY <2>2, <1>2, <1>4 DEF OwnedAt, Owns
  <2> QED BY <2>1, <2>2, <1>5
<1>9. OwnedOnce'
  <2> SUFFICES ASSUME NEW i \in DOMAIN queue', NEW j \in DOMAIN queue',
                      queue'[i].by \in Clients, queue'[i].by = queue'[j].by
               PROVE  i = j
    BY DEF OwnedOnce
  <2> QED BY <1>2, <1>4, <1>5, <1>7 DEF TaskInv, OwnedOnce
<1> QED BY <1>1, <1>6, <1>8, <1>9 DEF TaskInv

\* A task gives up waiting: what it owned is nobody's.
LEMMA AbandonStep ==
    ASSUME TaskInv, NEW c \in Clients, Alone(c), TasksTyped', TaskOK(c)',
           queue' = Abandoned(c)
    PROVE  TaskInv'
<1>1. ASSUME NEW d \in Clients PROVE TaskOK(d)'
  BY <1>1 DEF TaskInv, Alone, TaskOK, Allowed
<1>2. queue \in Seq(Requests) /\ Nobody \notin Clients
  BY ClientAssumption DEF TaskInv, QueueTyped
<1>3. /\ DOMAIN queue' = DOMAIN queue
      /\ \A i \in DOMAIN queue : queue'[i] =
            IF queue[i].by = c THEN [queue[i] EXCEPT !.by = Nobody]
            ELSE queue[i]
  BY DEF Abandoned
<1>4. \A i \in DOMAIN queue :
         /\ queue'[i] \in Requests /\ queue'[i].call = queue[i].call
         /\ queue'[i].by = IF queue[i].by = c THEN Nobody ELSE queue[i].by
  <2>1. \A i \in DOMAIN queue : queue[i] \in Requests
    BY <1>2
  <2> QED BY <2>1, <1>3 DEF Requests
<1>5. QueueTyped'
  <2>1. queue' = [i \in 1 .. Len(queue) |->
                    IF queue[i].by = c THEN [queue[i] EXCEPT !.by = Nobody]
                    ELSE queue[i]]
    BY <1>2 DEF Abandoned
  <2>2. Len(queue) \in Nat /\ DOMAIN queue = 1 .. Len(queue)
    BY <1>2
  <2>3. queue' \in [1 .. Len(queue) -> Requests]
    BY <2>1, <2>2, <1>3, <1>4
  <2>4. queue' \in Seq(Requests) /\ Len(queue') = Len(queue)
    BY <2>2, <2>3
  <2> QED BY <2>4 DEF TaskInv, QueueTyped
<1>6. Owned'
  BY <1>2, <1>3, <1>4 DEF TaskInv, Owned, OwnedAt, Owns, Alone
<1>7. OwnedOnce'
  BY <1>2, <1>3, <1>4 DEF TaskInv, OwnedOnce
<1> QED BY <1>1, <1>5, <1>6, <1>7 DEF TaskInv

\* The queue loses its head, and its owner, if any, moves on.
LEMMA ServedStep ==
    ASSUME TaskInv, queue # <<>>, NEW c \in Clients \cup {Nobody}, Alone(c),
           c = Head(queue).by, TasksTyped', c \in Clients => TaskOK(c)',
           queue' = Tail(queue)
    PROVE  TaskInv'
<1>0. Nobody \notin Clients
  BY ClientAssumption
<1>1. ASSUME NEW d \in Clients PROVE TaskOK(d)'
  BY <1>1, <1>0 DEF TaskInv, Alone, TaskOK, Allowed
<1>2. queue \in Seq(Requests) /\ Len(queue) \in Nat \ {0}
      /\ DOMAIN queue = 1 .. Len(queue) /\ Head(queue) = queue[1]
  BY DEF TaskInv, QueueTyped
<1>3. /\ queue' \in Seq(Requests) /\ Len(queue') = Len(queue) - 1
      /\ DOMAIN queue' = 1 .. Len(queue) - 1
      /\ \A i \in 1 .. Len(queue) - 1 : queue'[i] = queue[i + 1]
  BY <1>2, HeadTailProperties
<1>4. \A i \in DOMAIN queue' : i + 1 \in DOMAIN queue /\ i + 1 # 1
  BY <1>2, <1>3
<1>5. ASSUME NEW i \in DOMAIN queue', queue'[i].by \in Clients
      PROVE  queue'[i].by # c
  BY <1>2, <1>3, <1>4, <1>5, <1>0 DEF TaskInv, OwnedOnce
<1>6. QueueTyped'
  BY <1>2, <1>3, ClientAssumption DEF TaskInv, QueueTyped
<1>7. Owned'
  BY <1>3, <1>4, <1>5 DEF TaskInv, Owned, OwnedAt, Owns, Alone
<1>8. OwnedOnce'
  BY <1>3, <1>4, <1>2 DEF TaskInv, OwnedOnce
<1> QED BY <1>1, <1>6, <1>7, <1>8 DEF TaskInv

-----------------------------------------------------------------------------
(***************************************************************************)
(* The actions of a task.                                                  *)
(***************************************************************************)
LEMMA LifeCycleSound ==
    ASSUME TaskInv, NEW c \in Clients, LifeCycle(c)
    PROVE  TaskInv'
<1> USE DEF Goto, Return, Enter
<1>1. /\ \A k \in {"Init", "UnInit", "close"} : Call(k, "plain") \in Calls
      /\ Close \in Calls /\ {"none", "refused"} \subseteq Replies \ Successes
  BY DEF Call, Close, Calls, Forms, Replies, Successes
<1>2. TasksTyped /\ TaskOK(c) /\ pc[c] \in Points
  BY DEF TaskInv, TasksTyped
<1>3. CASE MakeProxy(c) \/ InitProxy(c) \/ SetInit(c) \/ RefuseUnInit(c)
           \/ BeginUnInit(c) \/ ClearInit(c)
  <2>1. Alone(c) /\ queue' = queue /\ ~Waits(c)
    BY <1>2, <1>3 DEF LifeCycle, MakeProxy, InitProxy, SetInit, RefuseUnInit,
         BeginUnInit, UnInitProxy, ClearInit, Alone, Waits, clientVars,
         TasksTyped
  <2>2. TasksTyped'
    <3> USE <1>1, <1>2 DEF TasksTyped, Points
    <3>1. CASE MakeProxy(c)
      BY <3>1 DEF MakeProxy
    <3>2. CASE RefuseUnInit(c)
      BY <3>2 DEF RefuseUnInit
    <3>3. CASE BeginUnInit(c)
      BY <3>3 DEF BeginUnInit
    <3>4. CASE InitProxy(c) \/ SetInit(c) \/ ClearInit(c)
      BY <3>4 DEF InitProxy, SetInit, ClearInit
    <3> QED BY <1>3, <3>1, <3>2, <3>3, <3>4
  <2>3. TaskOK(c)'
    BY <1>1, <1>2, <1>3 DEF MakeProxy, InitProxy, SetInit, RefuseUnInit,
         BeginUnInit, ClearInit, TasksTyped, TaskOK
  <2> QED BY <2>1, <2>2, <2>3, AloneStep
<1>4. CASE UnInitProxy(c)
  <2>1. Alone(c) /\ ~Waits(c)
    BY <1>2, <1>4 DEF LifeCycle, UnInitProxy, Alone, Waits, TasksTyped
  <2>2. TasksTyped'
    BY <1>2, <1>4 DEF UnInitProxy, TasksTyped, Points
  <2>3. TaskOK(c)'
    BY <1>2, <1>4 DEF UnInitProxy, TasksTyped, TaskOK
  <2>4. CASE initStatus /\ Posts
    <3>1. Post(Close, c) /\ Posts /\ pc'[c] = "closing" /\ Postable(Close)
      BY <1>2, <1>4, <2>4 DEF UnInitProxy, TasksTyped, Postable
    <3> QED BY <2>1, <2>2, <2>3, <3>1, <1>1, PostStep
  <2>5. CASE ~(initStatus /\ Posts)
    <3>1. queue' = queue
      BY <1>4, <2>5 DEF UnInitProxy
    <3> QED BY <2>1, <2>2, <2>3, <3>1, AloneStep
  <2> QED BY <2>4, <2>5
<1> QED BY <1>3, <1>4 DEF LifeCycle

\* A call passes the client and the proxy, or fails there.
LEMMA CallPasses ==
    ASSUME TaskInv, NEW c \in Clients, CallClient(c) \/ CallProxy(c),
           UNCHANGED trust
    PROVE  TaskInv'
<1> USE DEF Goto, Return, Enter
<1>1. TasksTyped /\ TaskOK(c) /\ pc[c] \in Points
  BY DEF TaskInv, TasksTyped
<1>2. CASE CallClient(c)
  <2>0. PICK m \in Called : \E arg \in Arguments(m) :
          /\ Enter(c, Call(m, arg))
          /\ \/ /\ m \in Answered
                /\ \E reply \in LocalReplies(m) : Return(c, reply)
             \/ /\ m \in Proxied /\ ~proxyMade
                /\ Return(c, Failure(m, "UNINIT"))
             \/ /\ m \in Proxied /\ proxyMade
                /\ Goto(c, "proxy") /\ UNCHANGED answer
    BY <1>2 DEF CallClient
  <2>1. PICK arg \in Arguments(m) :
          /\ Enter(c, Call(m, arg))
          /\ \/ /\ m \in Answered
                /\ \E reply \in LocalReplies(m) : Return(c, reply)
             \/ /\ m \in Proxied /\ ~proxyMade
                /\ Return(c, Failure(m, "UNINIT"))
             \/ /\ m \in Proxied /\ proxyMade
                /\ Goto(c, "proxy") /\ UNCHANGED answer
    BY <2>0
  <2>2. Call(m, arg) \in Calls /\ Formed(Call(m, arg))
    BY ClientAssumption, FormsOfArguments DEF Call, Calls, Formed
  <2>3. Failure(m, "UNINIT") \in Replies \ Successes
    BY FailureIsNoSuccess DEF Replies, Successes
  <2>4. /\ LocalReplies(m) \subseteq Replies
        /\ m \in Answered /\ m # "HasVoiceCapability" => LocalReplies(m) = {"UNINIT"}
    BY DEF LocalReplies, Replies, Successes, Answered
  <2>5. "UNINIT" \notin Successes
    BY DEF Successes
  <2>6. Alone(c) /\ queue' = queue /\ ~Waits(c)
    BY <1>1, <1>2, <2>1 DEF CallClient, Alone, Waits, TasksTyped
  <2>7. TasksTyped'
    BY <1>1, <2>1, <2>2, <2>3, <2>4 DEF TasksTyped, Points
  <2>8. Call(m, arg).method = m
    BY DEF Call
  <2>9. TaskOK(c)'
    BY <1>1, <2>1, <2>2, <2>3, <2>4, <2>5, <2>8 DEF TasksTyped, TaskOK
  <2> QED BY <2>6, <2>7, <2>9, AloneStep
<1>3. CASE CallProxy(c)
  <2> DEFINE m == call[c].method
  <2>1. /\ NotSupported(m) \in Replies \ Successes
        /\ ServiceNotReady(m) \in Replies \ Successes
        /\ "LOCAL_PTR_NULL" \in Replies \ Successes
    BY FailureIsNoSuccess DEF Replies, Successes, NotSupported,
         ServiceNotReady
  <2>2. Alone(c) /\ queue' = queue /\ ~Waits(c)
    BY <1>1, <1>3 DEF CallProxy, Alone, Waits, TasksTyped
  <2>3. TasksTyped'
    BY <1>1, <1>3, <2>1 DEF CallProxy, TasksTyped, Points
  <2>4. TaskOK(c)'
    BY <1>1, <1>3, <2>1 DEF CallProxy, TasksTyped, TaskOK, Forwardable
  <2> QED BY <2>2, <2>3, <2>4, AloneStep
<1> QED BY <1>2, <1>3

LEMMA ApplicationSound ==
    ASSUME TaskInv, NEW c \in Clients, Application(c)
    PROVE  TaskInv'
<1> USE DEF Goto, Return
<1>1. TasksTyped /\ TaskOK(c) /\ pc[c] \in Points /\ call[c] \in Calls
      /\ UNCHANGED trust
  BY DEF TaskInv, TasksTyped, Application
<1> DEFINE m == call[c].method
<1>2. /\ Failure(m, "UNINIT") \in Replies \ Successes
      /\ Failure(m, "IPC_CONNECT_STUB_FAIL") \in Replies \ Successes
  BY FailureIsNoSuccess DEF Replies, Successes
<1>3. CASE PostCall(c)
  <2>1. Alone(c) /\ ~Waits(c)
    BY <1>1, <1>3 DEF PostCall, Alone, Waits, TasksTyped
  <2>2. TasksTyped'
    BY <1>1, <1>2, <1>3 DEF PostCall, TasksTyped, Points
  <2>3. TaskOK(c)'
    BY <1>1, <1>2, <1>3 DEF PostCall, TasksTyped, TaskOK
  <2>4. CASE Posts /\ Post(call[c], c) /\ Goto(c, "waiting")
    <3>1. Postable(call[c]) /\ pc'[c] = "waiting" /\ call'[c] = call[c]
      BY <1>1, <1>3, <2>4 DEF PostCall, TaskOK, TasksTyped, Postable
    <3> QED BY <2>1, <2>2, <2>3, <2>4, <3>1, <1>1, PostStep
  <2>5. CASE queue' = queue
    BY <2>1, <2>2, <2>3, <2>5, AloneStep
  <2> QED BY <1>3, <2>4, <2>5 DEF PostCall
<1>4. CASE TimeOut(c)
  <2>1. Alone(c) /\ queue' = Abandoned(c)
    BY <1>1, <1>4 DEF TimeOut, Alone, TasksTyped
  <2>2. TasksTyped'
    BY <1>1, <1>2, <1>4 DEF TimeOut, TasksTyped, Points
  <2>3. TaskOK(c)'
    BY <1>1, <1>2, <1>4 DEF TimeOut, Waits, TasksTyped, TaskOK
  <2> QED BY <2>1, <2>2, <2>3, AbandonStep
<1> QED BY <1>1, <1>3, <1>4, CallPasses DEF Application

-----------------------------------------------------------------------------
(***************************************************************************)
(* The actions of the loop and of the service.                             *)
(***************************************************************************)
\* An answer reaches the task that waits for it.  It reads as success only if
\* something was done, and something is done only for a caller that may.
LEMMA AnswerSound ==
    ASSUME TaskInv, queue # <<>>, UNCHANGED trust, NEW reply \in Replies,
           NEW done \in BOOLEAN, Answer(reply, done),
           done => /\ Head(queue).call # Close /\ Allowed(Head(queue).call)
                   /\ reply # "UNINIT",
           reply \in Successes => done
    PROVE  TaskInv' /\ LateOK'
<1>1. queue' = Tail(queue) /\ call' = call
  BY DEF Answer
<1>2. Head(queue) \in Requests /\ Head(queue) = queue[1] /\ 1 \in DOMAIN queue
  BY DEF TaskInv, QueueTyped
<1>3. TasksTyped /\ Nobody \notin Clients
  BY ClientAssumption DEF TaskInv
<1>0. PICK c \in Clients \cup {Nobody} : c = Head(queue).by
  BY <1>2 DEF Requests
<1>6. LateOK'
  <2>1. (late' = Head(queue).call /\ done) \/ late' = NoCall
    BY DEF Answer
  <2> QED BY <2>1 DEF LateOK, Allowed
<1>4. CASE c = Nobody
  <2>1. Alone(c) /\ TasksTyped'
    BY <1>0, <1>1, <1>3, <1>4 DEF Answer, Alone, TasksTyped
  <2> QED BY <1>0, <1>1, <1>3, <1>4, <1>6, <2>1, ServedStep
<1>5. CASE c \in Clients
  <2>1. TaskOK(c) /\ Owns(c, Head(queue)) /\ c # Nobody
    BY <1>0, <1>2, <1>3, <1>5 DEF TaskInv, Owned, OwnedAt
  <2>2. /\ acted' = [acted EXCEPT ![c] = done]
        /\ IF pc[c] = "closing" THEN Goto(c, "closed") /\ UNCHANGED answer
           ELSE Return(c, reply)
    BY <1>0, <2>1 DEF Answer
  <2>3. Alone(c)
    BY <1>1, <1>3, <2>2 DEF Alone, Goto, Return, TasksTyped
  <2>4. TasksTyped'
    BY <1>1, <1>3, <1>5, <2>2 DEF Goto, Return, TasksTyped, Points
  <2>5. CASE pc[c] = "closing"
    <3>1. done = FALSE
      BY <2>1, <2>5 DEF Owns
    <3>2. pc'[c] = "closed" /\ acted'[c] = FALSE
      BY <1>3, <1>5, <2>2, <2>5, <3>1 DEF Goto, TasksTyped
    <3>3. TaskOK(c)'
      BY <3>2 DEF TaskOK
    <3> QED BY <1>0, <1>1, <1>3, <1>5, <1>6, <2>3, <2>4, <3>3,
             ServedStep
  <2>6. CASE pc[c] = "waiting"
    <3>1. done => Allowed(call[c]) /\ reply # "UNINIT"
      BY <2>1, <2>6 DEF Owns
    <3>2. /\ pc'[c] = "idle" /\ acted'[c] = done /\ answer'[c] = reply
          /\ call'[c] = call[c]
      BY <1>1, <1>3, <1>5, <2>2, <2>6 DEF Return, Goto, TasksTyped
    <3>3. TaskOK(c)'
      <4>1. CASE done = TRUE
        BY <3>1, <3>2, <4>1 DEF TaskOK, Allowed
      <4>2. CASE done = FALSE
        BY <3>2, <4>2 DEF TaskOK
      <4> QED BY <4>1, <4>2
    <3> QED BY <1>0, <1>1, <1>3, <1>5, <1>6, <2>3, <2>4, <3>3,
             ServedStep
  <2> QED BY <2>1, <2>5, <2>6 DEF Owns
<1> QED BY <1>0, <1>4, <1>5

LEMMA LoopStepSound ==
    ASSUME TaskInv, Flags, LoopStep
    PROVE  TaskInv' /\ LateOK'
<1> DEFINE k == Head(queue).call
           m == k.method
<1>1. queue # <<>> /\ UNCHANGED trust /\ trust \in Trusts
  BY DEF LoopStep, Flags
<1>2. k \in Calls /\ Postable(k)
  <2>1. Head(queue) \in Requests /\ Head(queue) = queue[1]
        /\ 1 \in DOMAIN queue
    BY <1>1 DEF TaskInv, QueueTyped
  <2> QED BY <2>1 DEF TaskInv, Owned, OwnedAt, Requests
<1> HIDE DEF k
<1>3. Close.method = "close"
  BY DEF Close, Call
<1>4. m \in Forwarded => k # Close /\ Forwardable(k)
  BY <1>2, <1>3, CloseIsNotForwarded DEF Postable
<1>5. m \in Forwarded /\ Verdict(trust, m, k.arg) = "pass" => Allowed(k)
  BY <1>1, <1>2, <1>4, PassedIsAllowed
<1>6. {"UNINIT", "none", "false", "call error", "REGISTER_CALLBACK_FAIL",
       "UNREGISTER_CALLBACK_FAIL"} \subseteq Replies \ Successes
      /\ {"SUCCESS", "true"} \subseteq Replies
  BY DEF Replies, Successes
<1>7. \A code \in Replies \ Successes : Answer(code, FALSE) => TaskInv' /\ LateOK'
  BY <1>1, AnswerSound
<1>8. CASE FindNotReady
  BY <1>6, <1>7, <1>8, FailureIsNoSuccess DEF FindNotReady, k
<1>9. CASE CloseCallBack
  BY <1>6, <1>7, <1>9 DEF CloseCallBack
<1>10. ASSUME m \in ForwardedCallBack, NEW code,
              \/ code \in Replies \ Successes /\ Answer(code, FALSE)
              \/ /\ code = "SUCCESS" /\ Answer(code, TRUE)
                 /\ Verdict(trust, m, "plain") = "pass"
       PROVE  TaskInv' /\ LateOK'
  <2>1. m \in Forwarded /\ k.arg = "plain"
    <3>1. m \in Forwarded
      BY <1>10 DEF Forwarded
    <3> QED BY <1>4, <1>10, <3>1 DEF Forwardable, Formed, Arguments,
             ForwardedCallBack
  <2>2. CASE code = "SUCCESS" /\ Answer(code, TRUE)
             /\ Verdict(trust, m, "plain") = "pass"
    BY <1>1, <1>4, <1>5, <1>6, <2>1, <2>2, AnswerSound DEF k
  <2> QED BY <1>7, <1>10, <2>2
<1>11. CASE RegisterCallBack
  <2>1. m = "RegisterCallBack"
    BY <1>11 DEF RegisterCallBack, k
  <2> QED BY <1>6, <1>10, <1>11, <2>1, VerdictType
          DEF RegisterCallBack, ForwardedCallBack
<1>12. CASE UnRegisterCallBack
  <2>1. m = "UnRegisterCallBack"
    BY <1>12 DEF UnRegisterCallBack, k
  <2> QED BY <1>6, <1>10, <1>12, <2>1, VerdictType
          DEF UnRegisterCallBack, ForwardedCallBack
<1>13. CASE Serve
  <2>1. m \in Forwarded
    BY <1>13 DEF Serve, k
  <2>2. CASE Verdict(trust, m, k.arg) # "pass"
    <3>1. Answer(Failure(m, Verdict(trust, m, k.arg)), FALSE)
      BY <1>13, <2>2 DEF Serve, k
    <3> QED BY <1>7, <2>2, <3>1, VerdictType, FailureIsNoSuccess
  <2>3. CASE Verdict(trust, m, k.arg) = "pass"
    <3>1. PICK reply \in {"true", "false", "SUCCESS", "call error"} :
             Answer(reply, TRUE)
      BY <1>13, <2>3 DEF Serve, k
    <3>2. reply \in Replies /\ reply # "UNINIT"
      BY <1>6
    <3> QED BY <1>1, <1>4, <1>5, <2>1, <2>3, <3>1, <3>2, AnswerSound DEF k
  <2> QED BY <2>2, <2>3
<1> QED BY <1>8, <1>9, <1>11, <1>12, <1>13 DEF LoopStep

\* What a stop of the loop recycles had done nothing.
LEMMA StopLoopSound ==
    ASSUME TaskInv, StopLoop, UNCHANGED trust
    PROVE  TaskInv'
<1> DEFINE left == {queue[i].by : i \in DOMAIN queue}
<1>1. /\ queue' = <<>>
      /\ pc' = [c \in Clients |->
                  IF c \in left
                  THEN IF pc[c] = "closing" THEN "closed" ELSE "idle"
                  ELSE pc[c]]
      /\ answer' = [c \in Clients |->
                      IF c \in left /\ pc[c] = "waiting"
                      THEN Failure(call[c].method, "UNINIT") ELSE answer[c]]
      /\ call' = call /\ acted' = acted
  BY DEF StopLoop
<1>2. QueueTyped' /\ Owned' /\ OwnedOnce'
  <2>1. queue' \in Seq(Requests) /\ Len(queue') = 0 /\ DOMAIN queue' = {}
    BY <1>1
  <2> QED BY <2>1, ClientAssumption DEF QueueTyped, Owned, OwnedOnce
<1>3. ASSUME NEW c \in Clients, c \in left
      PROVE  pc[c] = "closing" \/ pc[c] = "waiting"
  BY <1>3 DEF TaskInv, Owned, OwnedAt, Owns
<1> HIDE DEF left
<1>4. \A c \in Clients : Failure(call[c].method, "UNINIT") \in Replies \ Successes
  BY FailureIsNoSuccess DEF Replies, Successes
<1>5. TasksTyped'
  BY <1>1, <1>4 DEF TaskInv, TasksTyped, Points
<1>6. ASSUME NEW c \in Clients PROVE TaskOK(c)'
  <2>1. TaskOK(c)
    BY DEF TaskInv
  <2>2. CASE c \notin left
    <3>1. pc'[c] = pc[c] /\ answer'[c] = answer[c]
      BY <1>1, <2>2
    <3> QED BY <1>1, <2>1, <3>1 DEF TaskOK, Allowed
  <2>3. CASE c \in left
    <3>1. acted'[c] = FALSE
      BY <1>1, <1>3, <2>1, <2>3 DEF TaskOK
    <3>2. pc'[c] \in {"closed", "idle"}
      BY <1>1, <2>3
    <3>3. pc'[c] = "idle" => answer'[c] \in Replies \ Successes
      BY <1>1, <1>3, <1>4, <2>3
    <3> QED BY <3>1, <3>2, <3>3 DEF TaskOK
  <2> QED BY <2>2, <2>3
<1> QED BY <1>2, <1>5, <1>6 DEF TaskInv

\* The other steps of the service change nothing the tasks hold.
LEMMA UnchangedSound ==
    ASSUME TaskInv, UNCHANGED <<trust, queue, taskVars>>
    PROVE  TaskInv'
<1>1. \A c \in Clients : TaskOK(c)'
  BY DEF TaskInv, TaskOK, Allowed, taskVars
<1>2. Owned' /\ OwnedOnce'
  BY DEF TaskInv, Owned, OwnedAt, Owns, OwnedOnce, taskVars
<1> QED BY <1>1, <1>2 DEF TaskInv, TasksTyped, QueueTyped, taskVars

LEMMA ServiceSound ==
    ASSUME TaskInv, Service
    PROVE  TaskInv'
<1>1. CASE StopLoop
  BY <1>1, StopLoopSound DEF Service
<1>2. CASE StartLoop \/ StartService \/ StopService
  BY <1>2, UnchangedSound DEF Service, StartLoop, StartService, StopService,
       taskVars
<1> QED BY <1>1, <1>2 DEF Service

-----------------------------------------------------------------------------
(***************************************************************************)
(* The invariant.                                                          *)
(***************************************************************************)
IInv == TaskInv /\ LateOK /\ Flags /\ NoOrphanCallBack

LEMMA InitIInv == Init => IInv
<1> SUFFICES ASSUME Init PROVE IInv
  OBVIOUS
<1>1. Call("none", "plain") \in Calls /\ Call("none", "plain").method = "none"
      /\ "none" \in Replies \ Successes
  BY DEF Call, Calls, Forms, Replies, Successes
<1>2. TasksTyped
  BY <1>1 DEF Init, NoCall, TasksTyped, Points
<1>3. \A c \in Clients : TaskOK(c)
  BY <1>1 DEF Init, NoCall, TaskOK
<1>4. queue \in Seq(Requests) /\ Len(queue) = 0 /\ DOMAIN queue = {}
  BY DEF Init
<1>5. QueueTyped /\ Owned /\ OwnedOnce
  BY <1>4, ClientAssumption DEF QueueTyped, Owned, OwnedOnce
<1>6. Flags /\ NoOrphanCallBack
  BY DEF Init, Flags, NoOrphanCallBack
<1>7. LateOK
  BY DEF Init, LateOK
<1> QED BY <1>2, <1>3, <1>5, <1>6, <1>7 DEF IInv, TaskInv

\* Only the loop and a stop of the service touch the callback, and whatever
\* takes it from the proxy takes it from the service.
LEMMA CallBackStep ==
    ASSUME IInv, Next
    PROVE  Flags' /\ NoOrphanCallBack'
<1> USE DEF IInv, Flags, NoOrphanCallBack
<1>1. ASSUME NEW c \in Clients, LifeCycle(c)
      PROVE  Flags' /\ NoOrphanCallBack'
  BY <1>1 DEF LifeCycle, MakeProxy, InitProxy, SetInit, RefuseUnInit,
       BeginUnInit, UnInitProxy, ClearInit, clientVars, serviceVars,
       callbackVars
<1>2. ASSUME NEW c \in Clients, Application(c)
      PROVE  Flags' /\ NoOrphanCallBack'
  BY <1>2 DEF Application, clientVars, serviceVars, callbackVars
<1>3. CASE LoopStep
  <2>1. UNCHANGED <<trust, clientVars, serviceVars>>
    BY <1>3 DEF LoopStep
  <2>2. registered' \in BOOLEAN /\ reported' \in BOOLEAN
        /\ (reported' => registered')
    <3>0. ASSUME UNCHANGED callbackVars
          PROVE  registered' = registered /\ reported' = reported
      BY <3>0 DEF callbackVars
    <3>1. CASE FindNotReady \/ Serve
      <4>1. UNCHANGED callbackVars
        BY <3>1 DEF FindNotReady, Serve
      <4> QED BY <3>0, <4>1
    <3>2. CASE CloseCallBack
      <4>1. registered' = FALSE /\ reported' = (reported /\ ~registered)
        BY <3>2 DEF CloseCallBack
      <4> QED BY <4>1
    <3>3. CASE RegisterCallBack
      <4>1. \/ UNCHANGED callbackVars
            \/ registered' = TRUE /\ reported' = TRUE
        BY <3>3 DEF RegisterCallBack
      <4>2. CASE UNCHANGED callbackVars
        BY <3>0, <4>2
      <4>3. CASE registered' = TRUE /\ reported' = TRUE
        BY <4>3
      <4> QED BY <4>1, <4>2, <4>3
    <3>4. CASE UnRegisterCallBack
      <4>1. \/ UNCHANGED callbackVars
            \/ registered' = FALSE /\ reported' = FALSE
        BY <3>4 DEF UnRegisterCallBack
      <4>2. CASE UNCHANGED callbackVars
        BY <3>0, <4>2
      <4>3. CASE registered' = FALSE /\ reported' = FALSE
        BY <4>3
      <4> QED BY <4>1, <4>2, <4>3
    <3> QED BY <1>3, <3>1, <3>2, <3>3, <3>4 DEF LoopStep
  <2> QED BY <2>1, <2>2 DEF clientVars, serviceVars
<1>4. CASE Service
  <2>1. UNCHANGED <<trust, clientVars, registered>>
    BY <1>4 DEF Service
  <2>2. /\ running' \in BOOLEAN /\ ready' \in BOOLEAN
        /\ reported' = reported \/ reported' = FALSE
    BY <1>4 DEF Service, StartLoop, StartService, StopService, StopLoop
  <2>3. /\ proxyMade' = proxyMade /\ isInit' = isInit
        /\ initStatus' = initStatus /\ registered' = registered
        /\ trust' = trust
    BY <2>1 DEF clientVars
  <2>4. Flags'
    BY <2>2, <2>3
  <2>5. CASE reported' = reported
    BY <2>3, <2>4, <2>5
  <2>6. CASE reported' = FALSE
    BY <2>4, <2>6
  <2> QED BY <2>2, <2>5, <2>6
<1> QED BY <1>1, <1>2, <1>3, <1>4 DEF Next

LEMMA NextIInv == IInv /\ [Next]_vars => IInv'
<1> SUFFICES ASSUME IInv, [Next]_vars PROVE IInv'
  OBVIOUS
<1>1. CASE Next
  <2>1. TaskInv'
    BY <1>1, LifeCycleSound, ApplicationSound, LoopStepSound, ServiceSound
       DEF Next, IInv
  <2>2. LateOK'
    <3>1. CASE LoopStep
      BY <3>1, LoopStepSound DEF IInv
    <3>2. CASE ~LoopStep
      BY <1>1, <3>2 DEF Next, LifeCycle, Application, Service, LateOK
    <3> QED BY <3>1, <3>2
  <2> QED BY <1>1, <2>1, <2>2, CallBackStep DEF IInv
<1>2. CASE UNCHANGED vars
  <2>1. TaskInv'
    BY <1>2, UnchangedSound DEF vars, IInv
  <2>2. LateOK'
    BY <1>2 DEF vars, IInv, LateOK, Allowed
  <2> QED BY <1>2, <2>1, <2>2 DEF vars, IInv, Flags, NoOrphanCallBack, clientVars,
           serviceVars, callbackVars
<1> QED BY <1>1, <1>2

THEOREM IsIInv == Spec => []IInv
BY InitIInv, NextIInv, PTL DEF Spec

-----------------------------------------------------------------------------
(***************************************************************************)
(* The theorems.                                                           *)
(***************************************************************************)
\* Every variable has its type.
THEOREM ClientTypeCorrect == Spec => []TypeOK
<1>1. ASSUME IInv PROVE TypeOK
  <2>1. \A i \in DOMAIN queue : queue[i].by \in Clients \cup {Nobody}
    <3>1. queue \in Seq(Requests)
      BY <1>1 DEF IInv, TaskInv, QueueTyped
    <3>2. \A i \in DOMAIN queue : queue[i] \in Requests
      BY <3>1
    <3> QED BY <3>2 DEF Requests
  <2> QED BY <1>1, <2>1 DEF IInv, Flags, TaskInv, TasksTyped, QueueTyped,
           Points, TypeOK
<1> QED BY <1>1, IsIInv, PTL

\* No method out of scope posts to the loop.
THEOREM PlaceholdersAreInert == Spec => []OutOfScopeIsInert
<1>1. IInv => OutOfScopeIsInert
  BY ForwardedInScope DEF IInv, TaskInv, Owned, OwnedAt, Postable,
     Forwardable, OutOfScopeIsInert
<1> QED BY <1>1, IsIInv, PTL

\* What reads as success has reached the call control.
THEOREM SuccessIsReal == Spec => []SuccessMeansActed
<1>1. IInv => SuccessMeansActed
  BY DEF IInv, TaskInv, TaskOK, SuccessMeansActed
<1> QED BY <1>1, IsIInv, PTL

\* A caller that was told nobody is there left no request and no effect.
THEOREM UninitIsInert == Spec => []UninitHasNoEffect
<1>1. ASSUME IInv, NEW c \in Clients, pc[c] = "idle"
      PROVE  \A i \in DOMAIN queue : queue[i].by # c
  BY <1>1 DEF IInv, TaskInv, Owned, OwnedAt, Owns
<1>2. IInv => UninitHasNoEffect
  BY <1>1 DEF IInv, TaskInv, TaskOK, UninitHasNoEffect
<1> QED BY <1>2, IsIInv, PTL

\* The two together: what a call returns says what became of it.
THEOREM AnswersAreHonest == Spec => []AnswersAreTrue
<1> QED BY SuccessIsReal, UninitIsInert, PTL DEF AnswersAreTrue

\* Whoever reached the call control was allowed to, for every trust model,
\* whether it still waited or not.
THEOREM OnlyTheAllowedReach == Spec => []ReachedAsAllowed
<1>1. IInv => ReachedAsAllowed
  BY DEF IInv, TaskInv, TasksTyped, TaskOK, LateOK, ReachedAsAllowed
<1> QED BY <1>1, IsIInv, PTL

\* The service never holds a callback the proxy has given up.
THEOREM NoCallBackIsOrphaned == Spec => []NoOrphanCallBack
BY IsIInv, PTL DEF IInv
=============================================================================
