----------------------------- MODULE CallManager -----------------------------
(***************************************************************************)
(* The call core, which lives on the main loop: the call object table      *)
(* (CallObjectManager), the dial and control requests (CallControlManager, *)
(* CallPolicy, CallRequestHandler, CallRequestProcess), the uplink reports *)
(* of the protocol stack (CallStatusManager), the pending dial and hang-up *)
(* flags (CallRequestEventHandlerHelper) and the tones                     *)
(* (AudioControlManager).                                                  *)
(*                                                                         *)
(* A step is one task of the loop, except that the entries of a list the   *)
(* stack reports are handled one step each while "todo" keeps every other  *)
(* task waiting.                                                           *)
(* Handlers are functions on the manager's state m, composed in the order  *)
(* of the calls.                                                           *)
(***************************************************************************)
EXTENDS Naturals, SequencesExt, FiniteSetsExt

CONSTANTS
    Slots,              \* SIM slots
    Index,              \* call indexes of the stack, from 1
    CallTypes,          \* TYPE_CS, TYPE_IMS
    StackStates,        \* the states the stack reports
    ReportKinds,        \* "one": a call at a time, "list": all of a slot's calls
    MaxCallObjects,     \* MINI_MAX_CALL_OBJECTS
    EccReserved,        \* MINI_ECC_RESERVED_CALL_OBJECTS
    MaxRequests,        \* bound on the control requests in the loop's queue
    MaxCallId,          \* bound: no report or dial once this id is given out
    Dials,              \* the dials that are made, subset of {"normal", "ecc"}
    Controls            \* the control requests that are made

TelStates == {"DIALING", "ALERTING", "INCOMING", "WAITING", "ACTIVE",
              "HOLDING", "DISCONNECTING", "DISCONNECTED"}
ControlOps == {"answer", "reject", "hangup", "hold", "unhold", "switch", "end"}
FailedRequests == {"dial failed", "hold failed"}    \* RequestResultEventId

ASSUME CallManagerAssumption ==
    /\ Index \subseteq Nat \ {0} /\ IsFiniteSet(Index)
    /\ StackStates \subseteq TelStates
    /\ ReportKinds \subseteq {"one", "list"}
    /\ MaxCallObjects \in Nat \ {0} /\ EccReserved \in 0 .. MaxCallObjects
    /\ MaxRequests \in Nat /\ MaxCallId \in Nat
    /\ Dials \subseteq {"normal", "ecc"} /\ Controls \subseteq ControlOps

VARIABLES
    table,          \* callObjectPtrList_, oldest first
    lastCallId,     \* callId_
    dialEcc,        \* dialSrcInfo_.isEcc
    pendingMo,      \* pendingMoCallId_, NoId unless pendingMo_
    pendingHangup,  \* pendingHangupCallId_, NoId unless pendingHangup_
    protectTask,    \* the call id of the delayed protect task, NoId without one
    ringtone, waitingTone, callAudio,   \* the flags of AudioControlManager
    requests,       \* control requests posted to the loop
    details,        \* callDetailsInfo_: the last list each slot reported
    todo,           \* entries still to handle of the report being handled
    sent,           \* commands sent to the stack in this step
    told,           \* state changes broadcast in this step
    result          \* what the client call of this step returned, or the
                    \* failed request the stack reported in it

coreVars == <<table, lastCallId, dialEcc, pendingMo, pendingHangup, protectTask,
              ringtone, waitingTone, callAudio, sent, told>>
vars == <<coreVars, requests, details, todo, result>>

NoId == 0
InitIndex == 0          \* INIT_INDEX: the stack has not given an index yet

Call == [id : Nat \ {NoId}, index : Index \cup {InitIndex}, slot : Slots,
         type : CallTypes, tel : TelStates, isIn : BOOLEAN, ecc : BOOLEAN,
         canUnHold : BOOLEAN, hangUpActive : BOOLEAN]
NoCall == [id |-> NoId]
Entry == [state : StackStates, type : CallTypes]
Absent == [state |-> "NONE"]
Info == [index : Index, slot : Slots, state : StackStates \cup {"DISCONNECTED"},
         type : CallTypes]

-----------------------------------------------------------------------------
(***************************************************************************)
(* The call table.                                                         *)
(***************************************************************************)
\* SetTelCallState derives the running state from the reported one.
RunningState(tel) ==
    CASE tel \in {"DIALING", "ALERTING"} -> "DIALING"
      [] tel \in {"INCOMING", "WAITING"} -> "RINGING"
      [] tel = "ACTIVE" -> "ACTIVE"
      [] tel = "HOLDING" -> "HOLD"
      [] tel = "DISCONNECTING" -> "ENDING"
      [] tel = "DISCONNECTED" -> "ENDED"

\* The lookups and the removal stop at the first entry that matches;
\* GetOneCallObject(CallRunningState) searches from the end.
First(t, I) == IF I = {} THEN NoCall ELSE t[Min(I)]

CallById(t, id) == First(t, {i \in DOMAIN t : t[i].id = id})
CallByIndex(t, index) == First(t, {i \in DOMAIN t : t[i].index = index})
CallByKey(t, index, slot) ==
    First(t, {i \in DOMAIN t : t[i].index = index /\ t[i].slot = slot})
CallInState(t, run) ==
    LET I == {i \in DOMAIN t : RunningState(t[i].tel) = run}
    IN  IF I = {} THEN NoCall ELSE t[Max(I)]
Without(t, id) ==
    LET I == {i \in DOMAIN t : t[i].id = id}
    IN  IF I = {} THEN t ELSE RemoveAt(t, Min(I))
Exists(t, tels) == \E c \in Range(t) : c.tel \in tels
Ids(t) == {c.id : c \in Range(t)}

HasEmergencyCall(t) == \E c \in Range(t) : c.ecc
HasNewCall(t) == \E c \in Range(t) : RunningState(c.tel) = "DIALING"
IsNewCallAllowedCreate(t) ==
    /\ \A c \in Range(t) : RunningState(c.tel) \notin {"DIALING", "RINGING"}
    /\ Len(t) < 2
HasCellularCallExist(t) ==
    Exists(t, TelStates \ {"DISCONNECTED", "DISCONNECTING"})

\* AddOneCallObject: the reserved entries are for emergency calls. In the
\* mutant the reservation is forgotten.
AdmitsAnyCall(t, c) == Len(t) < MaxCallObjects
Admits(t, c) ==
    Len(t) < IF c.ecc THEN MaxCallObjects ELSE MaxCallObjects - EccReserved

Update(t, c) == [i \in DOMAIN t |-> IF t[i].id = c.id THEN c ELSE t[i]]

-----------------------------------------------------------------------------
(***************************************************************************)
(* What the handlers are made of. m is the state of the manager within a   *)
(* step, m.call the call object the handler holds, in the table or not.    *)
(***************************************************************************)
Now == [table |-> table, lastCallId |-> lastCallId, dialEcc |-> dialEcc,
        pendingMo |-> pendingMo, pendingHangup |-> pendingHangup,
        protectTask |-> protectTask, ringtone |-> ringtone,
        waitingTone |-> waitingTone, callAudio |-> callAudio,
        sent |-> {}, told |-> <<>>, call |-> NoCall]

Apply(m) ==
    /\ table' = m.table /\ lastCallId' = m.lastCallId /\ dialEcc' = m.dialEcc
    /\ pendingMo' = m.pendingMo /\ pendingHangup' = m.pendingHangup
    /\ protectTask' = m.protectTask /\ ringtone' = m.ringtone
    /\ waitingTone' = m.waitingTone /\ callAudio' = m.callAudio
    /\ sent' = m.sent /\ told' = m.told

Holding(m, c) == [m EXCEPT !.call = c]
Write(m, c) == [m EXCEPT !.call = c, !.table = Update(@, c)]
Delete(m) == [m EXCEPT !.table = Without(@, m.call.id)]
Append1(m, c) == [m EXCEPT !.table = Append(@, c), !.call = c]
Send(m, cmd, c) == [m EXCEPT !.sent = @ \cup {[cmd |-> cmd, id |-> c.id]}]

\* CarrierHangUpCall: the policy flag of the call selects the supplement.
HangUp(m, c) == Send(m, IF c.hangUpActive THEN "HangUpActive" ELSE "HangUp", c)

\* AudioControlManager::CallStateUpdated.
CallStateUpdated(m, prior, next) ==
    CASE next = "INCOMING" -> [m EXCEPT !.ringtone = TRUE]
      [] next = "WAITING" -> [m EXCEPT !.waitingTone = TRUE]
      [] next \in {"ANSWERED", "ACTIVE"} ->
            [m EXCEPT !.ringtone = FALSE, !.waitingTone = FALSE,
                      !.callAudio = TRUE]
      [] next = "DISCONNECTED" ->
            LET on == HasCellularCallExist(m.table)
            IN  [m EXCEPT !.ringtone = @ /\ on /\ prior # "INCOMING",
                          !.waitingTone = @ /\ on /\ prior # "WAITING",
                          !.callAudio = @ /\ on]
      [] OTHER -> m

\* NotifyCallStateUpdated: the application callback, then the audio.
Notify(m, prior, next) ==
    CallStateUpdated([m EXCEPT !.told = Append(@, [id |-> m.call.id,
                                                   state |-> next])],
                     prior, next)

\* In the mutant the application and the audio hear only of the states that
\* are not final.
UpdateCallStateSilent(m, next) ==
    LET w == Write(m, [m.call EXCEPT !.tel = next])
    IN  IF next = "DISCONNECTED" THEN w ELSE Notify(w, m.call.tel, next)
UpdateCallState(m, next) ==
    Notify(Write(m, [m.call EXCEPT !.tel = next]), m.call.tel, next)

\* A hang-up that waited for the stack's index goes out now. In the mutant it
\* is dropped with the mark.
ClearPendingSilent(m) ==
    [m EXCEPT !.pendingMo = IF @ = m.call.id THEN NoId ELSE @,
              !.pendingHangup = IF @ = m.call.id THEN NoId ELSE @]
ClearPendingNothing(m) == m
ClearPendingState(m) ==
    LET mo == [m EXCEPT !.pendingMo = IF @ = m.call.id THEN NoId ELSE @]
        hung == IF m.call.tel = "DISCONNECTED" THEN mo ELSE HangUp(mo, m.call)
    IN  IF m.pendingHangup = m.call.id
        THEN [hung EXCEPT !.pendingHangup = NoId, !.protectTask = NoId]
        ELSE mo

\* CreateNewCall: an outgoing call takes the emergency mark of the last dial.
CreateNewCall(m, info, isIn) ==
    [m EXCEPT !.lastCallId = @ + 1,
              !.call = [id |-> m.lastCallId + 1, index |-> info.index,
                        slot |-> info.slot, type |-> info.type,
                        tel |-> info.state, isIn |-> isIn,
                        ecc |-> ~isIn /\ m.dialEcc, canUnHold |-> TRUE,
                        hangUpActive |-> FALSE]]

AddOneCallObject(m, c) == IF Admits(m.table, c) THEN Append1(m, c) ELSE m

\* RefreshCall: a call whose type changed is replaced, under its own id, at
\* the end of the table; if the new object does not fit the old one returns.
RefreshCall(m, info) ==
    LET old == m.call
        n == CreateNewCall(Delete(m), info, old.isIn)
        new == [n.call EXCEPT !.id = old.id, !.tel = old.tel,
                              !.hangUpActive = old.hangUpActive]
    IN  IF Admits(n.table, new) THEN Append1(n, new)
        ELSE AddOneCallObject(Holding(n, old), old)
RefreshCallIfNecessary(m, info) ==
    IF m.call.type = info.type THEN m ELSE RefreshCall(m, info)

-----------------------------------------------------------------------------
(***************************************************************************)
(* CallStatusManager: one reported call. None of the handlers calls itself *)
(* again through DealFailDial, which always names a call of the table.     *)
(***************************************************************************)
Lookup(m, info) == Holding(m, CallByKey(m.table, info.index, info.slot))

\* UpdateDialingCallInfo: the stack's index reaches the dialled call, whichever
\* slot it was dialled on. In the mutant a known index is not looked up first.
BindIndex(m, info) ==
    LET r == RefreshCallIfNecessary(
                 Holding(m, CallByIndex(m.table, InitIndex)), info)
    IN  ClearPendingState(
            Write(r, [r.call EXCEPT !.index = info.index, !.slot = info.slot,
                                    !.type = info.type, !.tel = info.state]))
UpdateDialingBlind(m, info) ==
    IF CallByIndex(m.table, InitIndex) = NoCall THEN m ELSE BindIndex(m, info)
UpdateDialingCallInfo(m, info) ==
    LET known == Lookup(m, info)
    IN  IF known.call # NoCall THEN RefreshCallIfNecessary(known, info)
        ELSE IF CallByIndex(m.table, InitIndex) = NoCall THEN m
        ELSE BindIndex(m, info)

\* UpdateDialingHandle; in the mutant the slot of the dialled call is ignored.
UpdateDialingAnySlot(t, info) ==
    \/ CallByIndex(t, InitIndex) # NoCall
    \/ CallByKey(t, info.index, info.slot) # NoCall
UpdateDialingHandle(t, info) ==
    \/ CallByKey(t, InitIndex, info.slot) # NoCall
    \/ CallByKey(t, info.index, info.slot) # NoCall

DialingHandle(m, info) ==
    LET n == CreateNewCall(m, info, FALSE)
        added == AddOneCallObject(n, n.call)
        mo == [added EXCEPT !.pendingMo =
                  IF info.index = InitIndex THEN n.call.id ELSE @]
    IN  IF info.index > 0 /\ UpdateDialingHandle(m.table, info)
        THEN UpdateDialingCallInfo(m, info)
        ELSE IF ~Admits(n.table, n.call) THEN n
        ELSE UpdateCallState(mo, "DIALING")

\* RefreshDialingStateByOtherState: a state of an unknown index while a dialled
\* call waits for its index counts as that call's DIALING first.
Resolve(m, info) ==
    IF \/ Lookup(m, info).call # NoCall
       \/ CallByIndex(m.table, InitIndex) = NoCall
    THEN Lookup(m, info)
    ELSE Lookup(DialingHandle(m, [info EXCEPT !.state = "DIALING"]), info)

ActiveHandle(m, info) ==
    LET r == Resolve(m, info)
    IN  IF r.call = NoCall THEN r
        ELSE UpdateCallState(
                 RefreshCallIfNecessary(ClearPendingState(r), info), "ACTIVE")

AlertHandle(m, info) ==
    LET r == Resolve(m, info)
        p == ClearPendingState(r)
    IN  IF r.call = NoCall THEN r
        ELSE IF p.call.tel = "DISCONNECTING" THEN p
        ELSE UpdateCallState(RefreshCallIfNecessary(p, info), "ALERTING")

\* HoldingHandle and DisconnectingHandle
KnownHandle(m, info) ==
    LET r == Lookup(m, info)
    IN  IF r.call = NoCall THEN r
        ELSE UpdateCallState(RefreshCallIfNecessary(r, info), info.state)

\* HandleHoldCallOrAutoAnswerCall: the held call comes back when the call that
\* ends was being hung up and nothing else needs the line.
AutoUnHold(m, prior) ==
    LET held == CallInState(m.table, "HOLD")
    IN  IF /\ prior = "DISCONNECTING"
           /\ held # NoCall
           /\ held.canUnHold /\ held.slot = m.call.slot
           /\ ~Exists(m.table, {"ACTIVE", "WAITING", "INCOMING", "ALERTING"})
        THEN Send(m, "UnHold", held)
        ELSE m

DisconnectedHandle(m, info) ==
    LET r == Resolve(m, info)
        p == ClearPendingState(RefreshCallIfNecessary(r, info))
    IN  IF r.call = NoCall THEN r
        ELSE Delete(AutoUnHold(UpdateCallState(p, "DISCONNECTED"), p.call.tel))

\* DealFailDial reports the call disconnected by its index and slot.
DealFailDial(m, c) ==
    DisconnectedHandle(m, [index |-> c.index, slot |-> c.slot,
                           state |-> "DISCONNECTED", type |-> c.type])

\* IncomingHandle, WaitingHandle: a dialled call without an index gives way.
IncomingHandle(m, info) ==
    LET mo == CallByIndex(m.table, InitIndex)
        d == IF mo = NoCall THEN m ELSE DealFailDial(m, mo)
        old == Lookup(d, info)
        n == CreateNewCall(d, info, TRUE)
    IN  IF old.call # NoCall
        THEN IF old.call.type = info.type THEN d
             ELSE UpdateCallState(RefreshCall(old, info), info.state)
        ELSE IF Admits(n.table, n.call)
        THEN UpdateCallState(Append1(n, n.call), info.state)
        ELSE Send(n, "HangUp", n.call)

HandleCallReportInfo(m, info) ==
    CASE info.state = "ACTIVE" -> ActiveHandle(m, info)
      [] info.state = "ALERTING" -> AlertHandle(m, info)
      [] info.state = "DIALING" -> DialingHandle(m, info)
      [] info.state \in {"INCOMING", "WAITING"} -> IncomingHandle(m, info)
      [] info.state \in {"HOLDING", "DISCONNECTING"} -> KnownHandle(m, info)
      [] info.state = "DISCONNECTED" -> DisconnectedHandle(m, info)

-----------------------------------------------------------------------------
(***************************************************************************)
(* Uplink: the reports of the stack, tasks of the loop.                    *)
(***************************************************************************)
Idle == todo = <<>>
MayCreate == lastCallId < MaxCallId

\* UpdateCallReportInfo: one call, past the list comparison.
ReportCall(info) ==
    /\ Idle /\ MayCreate
    /\ Apply(HandleCallReportInfo(Now, info))
    /\ result' = "none"
    /\ UNCHANGED <<requests, details, todo>>

\* HandleCallsReportInfo: the calls of a slot that are new, changed or ALERTING
\* are handled in the order of the list, then the ones that are gone.
AsInfo(slot, index, entry) == [index |-> index, slot |-> slot,
                               state |-> entry.state, type |-> entry.type]
IsChanged(old, new) ==
    new # Absent /\ (new # old \/ new.state = "ALERTING")
Changed(slot, list) ==
    {AsInfo(slot, i, list[i]) :
        i \in {j \in Index : IsChanged(details[slot][j], list[j])}}
GoneNone(slot, list) == {}
Gone(slot, list) ==
    {[AsInfo(slot, i, details[slot][i]) EXCEPT !.state = "DISCONNECTED"] :
        i \in {j \in Index : details[slot][j] # Absent /\ list[j] = Absent}}

ReportCalls(slot, list) ==
    /\ Idle /\ MayCreate
    /\ \E first \in SetToSeqs(Changed(slot, list)),
          last \in SetToSeqs(Gone(slot, list)) : todo' = first \o last
    /\ details' = [details EXCEPT ![slot] =
          [i \in Index |-> IF list[i] # Absent /\ list[i].state = "DISCONNECTED"
                           THEN Absent ELSE list[i]]]
    /\ Apply(Now)
    /\ result' = "none"
    /\ UNCHANGED requests

HandleEntry ==
    /\ todo # <<>>
    /\ Apply(HandleCallReportInfo(Now, Head(todo)))
    /\ todo' = Tail(todo)
    /\ result' = "none"
    /\ UNCHANGED <<requests, details>>

\* HandleEventResultReportInfo: any failed request ends the dialling call.
EventResult(event) ==
    /\ Idle
    /\ LET c == CallInState(table, "DIALING")
       IN  c # NoCall /\ Apply(DealFailDial(Now, c))
    /\ result' = event
    /\ UNCHANGED <<requests, details, todo>>

-----------------------------------------------------------------------------
(***************************************************************************)
(* Downlink: the client calls, which run on the loop, and the requests     *)
(* they post to it.                                                        *)
(***************************************************************************)
Return(m, ret) ==
    /\ Apply(m) /\ result' = ret /\ UNCHANGED <<requests, details, todo>>

\* CheckCallLimit and HasNewCall.
DialPolicy(t, ecc) == ecc \/ (~HasEmergencyCall(t) /\ ~HasNewCall(t))

\* EccDialPolicy: an emergency call clears the line.
EccRefused(t) == \E c \in Range(t) : RunningState(c.tel) = "DIALING" /\ c.ecc
EccClears(t) ==
    {c \in Range(t) : RunningState(c.tel) \in {"DIALING", "ACTIVE", "HOLD"}}
EccDialPolicy(m) ==
    [m EXCEPT !.sent = @
        \cup (UNION {HangUp(Now, c).sent : c \in EccClears(m.table)})
        \cup {[cmd |-> "HangUp", id |-> c.id] :
                 c \in {d \in Range(m.table) : RunningState(d.tel) = "RINGING"}}]

\* The call made last is the newest in a dialling state. In the mutant a failed
\* dial is only logged.
HandleDialFailLogged(m) == m
HandleDialFail(m) == DealFailDial(m, CallInState(m.table, "DIALING"))

\* CarrierDialProcess, the rest of the dial; stackOk is what the stack answers to
\* the dial command.
CarrierDialProcess(dial, slot, type, ecc, stackOk) ==
    LET cleared == IF ecc THEN EccDialPolicy(dial) ELSE dial
        made == DialingHandle(cleared, [index |-> InitIndex, slot |-> slot,
                                        state |-> "DIALING", type |-> type])
        sentDial == Send(made, "Dial", made.call)
    IN  IF IF ecc THEN EccRefused(table) ELSE ~IsNewCallAllowedCreate(table)
        THEN Return(dial, "refused")
        ELSE IF made.call.id \notin Ids(made.table)
        THEN Return(made, "full")
        ELSE IF stackOk THEN Return(sentDial, "ok")
        ELSE Return(HandleDialFail(sentDial), "failed")

DialCall(slot, type, ecc, stackOk) ==
    /\ Idle /\ MayCreate
    /\ (IF ecc THEN "ecc" ELSE "normal") \in Dials
    /\ IF DialPolicy(table, ecc)
       THEN CarrierDialProcess([Now EXCEPT !.dialEcc = ecc],
                               slot, type, ecc, stackOk)
       ELSE Return(Now, "refused")

\* PostAsyncTask on the main loop
Post(m, op, id) ==
    /\ Apply(m)
    /\ IF Len(requests) < MaxRequests
       THEN requests' = Append(requests, [op |-> op, id |-> id])
            /\ result' = "ok"
       ELSE requests' = requests /\ result' = "refused"
    /\ UNCHANGED <<details, todo>>

\* The policies of CallPolicy
Policy(op, t, c) ==
    CASE op \in {"answer", "reject"} -> c.tel \in {"INCOMING", "WAITING"}
      [] op = "hangup" -> c.tel \notin {"DISCONNECTING", "DISCONNECTED"}
      [] op = "hold" -> RunningState(c.tel) = "ACTIVE"
      [] op = "unhold" -> RunningState(c.tel) = "HOLD"
      [] op = "switch" -> /\ Len(t) >= 2
                          /\ c.tel = "HOLDING"
                          /\ ~Exists(t, {"DIALING", "ALERTING"})

\* The subscribers hear of ANSWERED before the policy is asked.
AnswerCall(c) ==
    LET m == Notify(Holding(Now, c), "INCOMING", "ANSWERED")
    IN  IF CallInState(table, "RINGING") = NoCall THEN Return(Now, "refused")
        ELSE IF Policy("answer", table, c) THEN Post(m, "answer", c.id)
        ELSE Return(m, "refused")

\* A hang-up of a dialled call that has no index yet is kept until the stack
\* reports it or the protect task runs; only one protect task is kept.
HangUpUnprotected(c) ==
    IF ~Policy("hangup", table, c) THEN Return(Now, "refused")
    ELSE IF pendingMo = c.id
    THEN Return([Now EXCEPT !.pendingMo = NoId, !.pendingHangup = c.id], "ok")
    ELSE Post(Now, "hangup", c.id)
HangUpCall(c) ==
    IF ~Policy("hangup", table, c) THEN Return(Now, "refused")
    ELSE IF pendingMo = c.id
    THEN Return([Now EXCEPT !.pendingMo = NoId, !.pendingHangup = c.id,
                            !.protectTask = IF @ = NoId THEN c.id ELSE @], "ok")
    ELSE Post(Now, "hangup", c.id)

\* RejectCall, HoldCall, UnHoldCall, SwitchCall
PolicyThenPost(op, c) ==
    IF Policy(op, table, c) THEN Post(Now, op, c.id)
    ELSE Return(Now, "refused")

\* EndCall picks the call itself.
EndOrder == <<"ACTIVE", "RINGING", "DIALING", "HOLD">>
EndCall ==
    LET found == {i \in DOMAIN EndOrder :
                     CallInState(table, EndOrder[i]) # NoCall}
        c == CallInState(table, EndOrder[Min(found)])
    IN  IF found = {} THEN Return(Now, "ok")
        ELSE IF RunningState(c.tel) = "RINGING" THEN PolicyThenPost("reject", c)
        ELSE HangUpCall(c)

Control(op, c) ==
    /\ Idle /\ op \in Controls
    /\ CASE op = "answer" -> AnswerCall(c)
         [] op = "hangup" -> HangUpCall(c)
         [] op = "end" -> EndCall
         [] OTHER -> PolicyThenPost(op, c)

(***************************************************************************)
(* CallRequestProcess: the posted requests find their call by its id.      *)
(***************************************************************************)
\* In the mutant the state that the policy saw is trusted.
AnswerRequestMutant(m) == Send(m, "Answer", m.call)
AnswerRequest(m) ==
    IF RunningState(m.call.tel) = "RINGING" THEN Send(m, "Answer", m.call) ELSE m

RejectRequest(m, stackOk) ==
    LET s == Send(m, "HangUp", m.call)
        held == CallInState(m.table, "HOLD")
        h == IF held = NoCall THEN s
             ELSE Write(s, [held EXCEPT !.canUnHold = FALSE])
    IN  IF stackOk THEN [h EXCEPT !.ringtone = FALSE] ELSE s

HangUpRequest(m) ==
    LET flag == /\ m.call.tel = "ACTIVE"
                /\ \E c \in Range(m.table) :
                      c.type = m.call.type /\ c.tel = "HOLDING"
                /\ ~Exists(m.table, {"WAITING"})
        w == Write(m, [m.call EXCEPT !.hangUpActive = @ \/ flag])
    IN  HangUp(w, w.call)

UnHoldRequest(m) ==
    LET w == Write(m, [m.call EXCEPT !.canUnHold = TRUE])
    IN  IF \A c \in Range(w.table) : c.slot = w.call.slot
        THEN Send(w, "UnHold", w.call) ELSE w

HandleRequest(m, op, stackOk) ==
    CASE op = "answer" -> AnswerRequest(m)
      [] op = "reject" -> RejectRequest(m, stackOk)
      [] op = "hangup" -> HangUpRequest(m)
      [] op = "hold" -> Send(m, "Hold", m.call)
      [] op = "unhold" -> UnHoldRequest(m)
      [] op = "switch" -> Send(m, "Switch", m.call)

RunRequest(stackOk) ==
    /\ Idle /\ requests # <<>>
    /\ LET r == Head(requests)
           c == CallById(table, r.id)
       IN  Apply(IF c = NoCall THEN Now
                 ELSE HandleRequest(Holding(Now, c), r.op, stackOk))
    /\ requests' = Tail(requests)
    /\ result' = "none"
    /\ UNCHANGED <<details, todo>>

\* The protect task of a kept hang-up, PENDINGHANGUP_DELAY_TIME_MS after it.
ProtectTimeout ==
    /\ Idle /\ protectTask # NoId
    /\ LET m == [Now EXCEPT !.protectTask = NoId]
           c == CallById(table, protectTask)
           d == IF c = NoCall THEN m ELSE DealFailDial(m, c)
       IN  Apply(IF pendingHangup = protectTask
                 THEN [d EXCEPT !.pendingHangup = NoId] ELSE m)
    /\ result' = "none"
    /\ UNCHANGED <<requests, details, todo>>

-----------------------------------------------------------------------------
Init ==
    /\ table = <<>> /\ lastCallId = NoId /\ dialEcc = FALSE
    /\ pendingMo = NoId /\ pendingHangup = NoId /\ protectTask = NoId
    /\ ringtone = FALSE /\ waitingTone = FALSE /\ callAudio = FALSE
    /\ requests = <<>>
    /\ details = [s \in Slots |-> [i \in Index |-> Absent]]
    /\ todo = <<>> /\ sent = {} /\ told = <<>> /\ result = "none"

\* What the stack may report: single calls, or the list of a slot's calls.
Reports ==
    {info \in Info : "one" \in ReportKinds /\ info.state \in StackStates}
Lists == {list \in [Index -> Entry \cup {Absent}] : "list" \in ReportKinds}

\* The service runs: its stop, which deletes every call and removes the protect
\* task but leaves the pending dial and hang-up marked (CallManagerService::
\* UnInit, call_manager_service.cpp:140), is no step of this module.
Next ==
    \/ \E info \in Reports : ReportCall(info)
    \/ \E s \in Slots, list \in Lists : ReportCalls(s, list)
    \/ HandleEntry
    \/ \E event \in FailedRequests : EventResult(event)
    \/ \E s \in Slots, type \in CallTypes, ecc, ok \in BOOLEAN :
          DialCall(s, type, ecc, ok)
    \/ \E op \in ControlOps, c \in Range(table) : Control(op, c)
    \/ \E ok \in BOOLEAN : RunRequest(ok)
    \/ ProtectTimeout

Spec == Init /\ [][Next]_vars

\* The loop runs the tasks of its queue in order and serves every delayed task
\* that falls due, so a report is handled to its end and the protect task, once
\* posted and not removed, runs even while reports keep arriving. The fairness
\* of the two actions is written with their guards, which is when they can be
\* taken, in the place of ENABLED.
FairSpec ==
    /\ Spec
    /\ <>[](todo # <<>>) => []<><<HandleEntry>>_vars
    /\ []<>(Idle /\ protectTask # NoId) => []<><<ProtectTimeout>>_vars

-----------------------------------------------------------------------------
(***************************************************************************)
(* Properties.                                                             *)
(***************************************************************************)
\* Every variable has its type; the table keeps to its size.
TypeOK ==
    /\ table \in Seq(Call) /\ Len(table) <= MaxCallObjects
    /\ lastCallId \in Nat
    /\ {pendingMo, pendingHangup, protectTask} \subseteq Nat
    /\ {dialEcc, ringtone, waitingTone, callAudio} \subseteq BOOLEAN
    /\ requests \in Seq([op : ControlOps, id : Nat])
    /\ details \in [Slots -> [Index -> Entry \cup {Absent}]]
    /\ todo \in Seq(Info)
    /\ sent \subseteq [cmd : {"Dial", "Answer", "HangUp", "HangUpActive", "Hold",
                              "UnHold", "Switch"}, id : Nat]
    /\ told \in Seq([id : Nat, state : TelStates \cup {"ANSWERED"}])
    /\ result \in {"none", "ok", "refused", "full", "failed"} \cup FailedRequests

\* The reports find calls by index and slot, so no two calls of the table may
\* answer to the same index of the stack, however indexes are reused, and no
\* two calls share an id.
UniqueKey ==
    \A i, j \in DOMAIN table :
        i # j => /\ table[i].id # table[j].id
                 /\ \/ table[i].index = InitIndex
                    \/ table[i].index # table[j].index
                    \/ table[i].slot # table[j].slot

\* The pending flags of CallRequestEventHandlerHelper always name a dialled
\* call of the table that still waits for its index: no report, timeout or
\* failed dial leaves a flag behind for a later call.
PendingIsUnbound ==
    /\ \A id \in {pendingMo, pendingHangup} \ {NoId} :
          LET c == CallById(table, id)
          IN  c # NoCall /\ c.index = InitIndex /\ c.tel = "DIALING"
    /\ pendingMo = pendingHangup => pendingMo = NoId

\* After the last call nothing of it is left: the tones and the call audio are
\* off and no hang-up or dial is pending.  A service stop is not such an end: it
\* deletes the calls and leaves the two marks, which name calls that are gone.
QuietWhenEmpty ==
    table = <<>> => /\ ~ringtone /\ ~waitingTone /\ ~callAudio
                    /\ pendingMo = NoId /\ pendingHangup = NoId

\* The state holds together: types, pending flags, tones.
TableIsSound == TypeOK /\ PendingIsUnbound /\ QuietWhenEmpty

\* Outside a report, every call that has an index is in the last list its slot
\* reported, so the next list can end it: no call outlives the stack's.
NoZombieCall ==
    Idle => \A c \in Range(table) :
               c.index # InitIndex => details[c.slot][c.index] # Absent

\* What the subscribers are told of a call in a step: its new state, once, if
\* the step changes the state of the call or removes it.
Tellings(id) == {i \in DOMAIN told' : told'[i].id = id}
TransitionTold(id) ==
    LET before == CallById(table, id)
        after == CallById(table', id)
        state == IF after = NoCall THEN "DISCONNECTED" ELSE after.tel
    IN  before.tel # state =>
            \E i \in DOMAIN told' : Tellings(id) = {i} /\ told'[i].state = state
TransitionsBroadcast == [][\A id \in Ids(table) : TransitionTold(id)]_vars

\* A hang-up the client was promised while its call had no index is never
\* forgotten: the mark goes only in the step that sends the command.
PromiseKept ==
    pendingHangup # NoId /\ pendingHangup' # pendingHangup =>
        \E s \in sent' : s.id = pendingHangup /\ s.cmd \in {"HangUp", "HangUpActive"}

\* As long as the last dial was no emergency call, every change of a call's
\* state is told (SetTelCallState), no promised hang-up is forgotten
\* (ClearPendingState), and a dial the stack refuses leaves no call behind and
\* ends no other (HandleDialFail). After an emergency dial none of them holds;
\* the README says why.
TransitionsTold ==
    [][~dialEcc' => \A id \in Ids(table) : TransitionTold(id)]_vars
HangUpsKept == [][~dialEcc' => PromiseKept]_vars
DialFailsClean ==
    [][~dialEcc' /\ result' = "failed" => Ids(table') = Ids(table)]_vars

\* A dial the stack refuses leaves no call behind and ends no other call.
DialFailLeavesNothing ==
    [][result' = "failed" => Ids(table') = Ids(table)]_vars

\* A call stays on the slot it was dialled on or came in on, as long as the last
\* dial was no emergency call, and an emergency call keeps its mark as long as it
\* lives, through every report, every change of its type and every dial that
\* comes after it.
IdentityKept ==
    [][\A id \in Ids(table) \cap Ids(table') :
          LET before == CallById(table, id)
              after == CallById(table', id)
          IN  /\ ~dialEcc' => after.slot = before.slot
              /\ before.ecc => after.ecc]_vars

\* An emergency dial finds the table full only if emergency calls fill the
\* entries reserved for them.
EccHasRoom ==
    [][result' = "full" /\ dialEcc' =>
          Cardinality({c \in Range(table) : c.ecc}) >= EccReserved]_vars

\* However long an answer request waits in the queue, it reaches the stack only
\* while its call still rings.
AnswerOnlyRinging ==
    [][\A s \in sent' : s.cmd = "Answer" =>
          RunningState(CallById(table, s.id).tel) = "RINGING"]_vars

\* A kept hang-up is resolved in the end, with or without the stack's report, as
\* long as the service is not stopped, which removes the protect task
\* (call_control_manager.cpp:64).
PendingHangupResolved == pendingHangup # NoId ~> pendingHangup = NoId

(***************************************************************************)
(* What the sources say of the commands and events and the code does not   *)
(* keep.                                                                   *)
(***************************************************************************)
\* The command that releases the active call and recovers the held one is sent
\* for a call that is active: a flag set by an earlier hang-up of the call does
\* not choose the command after its state has changed.
HangUpActiveIsActive ==
    [][\A s \in sent' : s.cmd = "HangUpActive" =>
          CallById(table, s.id).tel = "ACTIVE"]_vars

\* The failure of a hold says nothing about a dial: the emergency call that is
\* being dialled stays in the table.
HoldFailureKeepsEcc ==
    [][result' = "hold failed" =>
          \A c \in Range(table) : c.ecc => c.id \in Ids(table')]_vars
=============================================================================
