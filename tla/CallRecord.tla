----------------------------- MODULE CallRecord -----------------------------
(***************************************************************************)
(* The record of one call: what CallBase keeps of it beside its place in   *)
(* the table (CallManager) and its conference (Conference), from the       *)
(* report or the dial that makes the object to the report that removes it. *)
(* Each step reads the clock as the code reads time(nullptr), and the      *)
(* clock moves on between steps.                                           *)
(***************************************************************************)
EXTENDS Naturals, Sequences

CONSTANTS
    CallTypes,      \* TYPE_CS, TYPE_IMS
    Ims,            \* the type that keeps its media mode up to date
    FirstTime,      \* the clock when the behaviour starts
    MaxTime,        \* bound on the clock
    MaxRequests     \* bound on the rejections in the loop's queue

ASSUME CallRecordAssumption ==
    /\ Ims \in CallTypes
    /\ FirstTime \in Nat \ {0} /\ MaxTime \in Nat /\ FirstTime <= MaxTime
    /\ MaxRequests \in Nat

VARIABLES
    call,       \* the call object; NoCall before it is made
    inTable,    \* the object is in the table
    bound,      \* the stack's index of the call is known
    clock,      \* time(nullptr)
    rejects,    \* rejections posted to the loop
    stack       \* the state the stack reported last

recordVars == <<call, inTable, bound, clock, rejects, stack>>

TelStates == {"DIALING", "ALERTING", "INCOMING", "WAITING", "ACTIVE",
              "HOLDING", "DISCONNECTING", "DISCONNECTED"}
Running == {"DIALING", "RINGING", "ACTIVE", "HOLD", "ENDING", "ENDED"}
Videos == {"VOICE", "VIDEO"}
Answers == {"MISSED", "ACTIVED", "REJECT", "ELSEWHERE"}
Times == 0 .. MaxTime       \* 0: not yet

NoCall == [tel |-> "NONE"]
Record == [tel : TelStates, run : Running, type : CallTypes, isIn : BOOLEAN,
           video : Videos, original : Videos, answer : Answers, create : Times,
           begin : Times, end : Times, ringBegin : Times, ringEnd : Times]
Info == [state : TelStates, type : CallTypes, video : Videos,
         original : Videos, elsewhere : BOOLEAN]

-----------------------------------------------------------------------------
(***************************************************************************)
(* CallBase.                                                               *)
(***************************************************************************)
RunningState(tel) ==
    CASE tel \in {"DIALING", "ALERTING"} -> "DIALING"
      [] tel \in {"INCOMING", "WAITING"} -> "RINGING"
      [] tel = "ACTIVE" -> "ACTIVE"
      [] tel = "HOLDING" -> "HOLD"
      [] tel = "DISCONNECTING" -> "ENDING"
      [] tel = "DISCONNECTED" -> "ENDED"

OrNow(time) == IF time = 0 THEN clock ELSE time

\* The first activation ends the ringing and begins the talk. In the mutant the
\* outcome of the call is left for the report that ends it.
StateChangesToActiveUnmarked(c) ==
    IF c.begin # 0 THEN c
    ELSE [c EXCEPT !.begin = clock, !.ringEnd = clock]
StateChangesToActive(c) ==
    IF c.begin # 0 THEN c
    ELSE [c EXCEPT !.begin = clock, !.ringEnd = clock, !.answer = "ACTIVED"]

StateChangesTo(c) ==
    CASE c.tel \in {"INCOMING", "WAITING", "ALERTING"} ->
            [c EXCEPT !.ringBegin = clock]
      [] c.tel = "ACTIVE" -> StateChangesToActive(c)
      [] c.tel = "DISCONNECTING" -> [c EXCEPT !.ringEnd = OrNow(@)]
      [] c.tel = "DISCONNECTED" -> [c EXCEPT !.end = clock, !.ringEnd = OrNow(@)]
      [] OTHER -> c

IsDuplicate(c, next) == c.run # "CREATE" /\ c.tel = next /\ next # "DIALING"
SetTelCallState(c, next) ==
    IF IsDuplicate(c, next) THEN c
    ELSE StateChangesTo([c EXCEPT !.tel = next, !.run = RunningState(next)])

\* RejectCallBase looks at no state; the type of the rejection stays
\* CALL_REJECT_NORMAL, which is never set to another.
RejectCallBase(c) == [c EXCEPT !.answer = "REJECT"]

-----------------------------------------------------------------------------
(***************************************************************************)
(* CallStatusManager: what the reports make of the record.                 *)
(***************************************************************************)
CreateNewCall(info, isIn) ==
    [tel |-> info.state, run |-> "CREATE", type |-> info.type, isIn |-> isIn,
     video |-> info.video, original |-> info.original, answer |-> "MISSED",
     create |-> clock, begin |-> 0, end |-> 0, ringBegin |-> 0, ringEnd |-> 0]

\* The call is replaced by one of the reported type, which takes over the
\* record and then the state. In the mutant the begin of the talk
\* is not taken over.
RefreshCallNoBegin(c, info) ==
    SetTelCallState([CreateNewCall(info, c.isIn) EXCEPT
        !.run = c.run, !.answer = c.answer, !.create = c.create,
        !.end = c.end, !.ringBegin = c.ringBegin, !.ringEnd = c.ringEnd], c.tel)
RefreshCall(c, info) ==
    SetTelCallState([CreateNewCall(info, c.isIn) EXCEPT
        !.run = c.run, !.answer = c.answer, !.create = c.create, !.begin = c.begin,
        !.end = c.end, !.ringBegin = c.ringBegin, !.ringEnd = c.ringEnd], c.tel)

RefreshCallIfNecessary(c, info) ==
    IF c.type # info.type THEN RefreshCall(c, info)
    ELSE IF c.type = Ims THEN [c EXCEPT !.video = info.video] ELSE c

\* SetOriginalCallTypeForActiveState: what the call is answered with, and then
\* every mode it is talked in.
OriginalWhenActive(c) ==
    IF c.tel \in {"ALERTING", "INCOMING", "WAITING"}
    THEN [c EXCEPT !.original = c.video]
    ELSE IF c.tel \in {"ACTIVE", "HOLDING"} /\ c.video = "VIDEO"
    THEN [c EXCEPT !.original = "VIDEO"]
    ELSE c

\* SetOriginalCallTypeForDisconnectState: a call that was cancelled or missed.
OriginalWhenOver(c) ==
    IF \/ c.tel \in {"DIALING", "ALERTING"}
       \/ c.tel \in {"INCOMING", "WAITING"} /\ c.answer # "REJECT"
    THEN [c EXCEPT !.original = "VOICE"] ELSE c

\* The index reaches the dialled call: UpdateDialingCallInfo.
BindIndex(c, info) ==
    [SetTelCallState(RefreshCallIfNecessary(c, info), "DIALING")
        EXCEPT !.video = info.video, !.type = info.type]

\* RefreshDialingStateByOtherState: any other state counts as DIALING first.
Resolve(info) ==
    IF bound THEN call ELSE BindIndex(call, [info EXCEPT !.state = "DIALING"])

ActiveHandle(info) ==
    SetTelCallState(
        OriginalWhenActive(RefreshCallIfNecessary(Resolve(info), info)), "ACTIVE")

\* In the mutant an ALERTING that crosses a hang-up is taken.
AlertHandleAlways(info) ==
    SetTelCallState(RefreshCallIfNecessary(Resolve(info), info), "ALERTING")
AlertHandle(info) ==
    IF call.tel = "DISCONNECTING" THEN Resolve(info)
    ELSE SetTelCallState(RefreshCallIfNecessary(Resolve(info), info), "ALERTING")

HoldingHandle(info) ==
    SetTelCallState(RefreshCallIfNecessary(call, info), "HOLDING")
DisconnectingHandle(info) ==
    SetTelCallState(OriginalWhenOver(RefreshCallIfNecessary(call, info)),
                    "DISCONNECTING")

RefreshCallDisconnectReason(c, info) ==
    IF info.elsewhere THEN [c EXCEPT !.answer = "ELSEWHERE"] ELSE c
DisconnectedHandle(info) ==
    LET refreshed == RefreshCallIfNecessary(Resolve(info), info)
    IN  SetTelCallState(
            OriginalWhenOver(RefreshCallDisconnectReason(refreshed, info)),
            "DISCONNECTED")

DialingHandle(info) ==
    IF bound THEN RefreshCallIfNecessary(call, info) ELSE BindIndex(call, info)

\* RefreshOldCall: a call that is there takes the reported state only with
\* another type or media mode.
IncomingHandle(info) ==
    LET refreshed == IF call.type = info.type /\ call.tel = info.state
                        /\ call.video = info.video
                     THEN call ELSE RefreshCallIfNecessary(call, info)
    IN  IF call.type = info.type /\ call.video = info.video THEN refreshed
        ELSE SetTelCallState(refreshed, info.state)

HandleCallReportInfo(info) ==
    CASE info.state = "ACTIVE" -> ActiveHandle(info)
      [] info.state = "ALERTING" -> AlertHandle(info)
      [] info.state = "DIALING" -> DialingHandle(info)
      [] info.state \in {"INCOMING", "WAITING"} -> IncomingHandle(info)
      [] info.state = "HOLDING" -> HoldingHandle(info)
      [] info.state = "DISCONNECTING" -> DisconnectingHandle(info)
      [] info.state = "DISCONNECTED" -> DisconnectedHandle(info)

-----------------------------------------------------------------------------
(***************************************************************************)
(* The steps.                                                              *)
(***************************************************************************)
\* The order in which the stack reports the states of one call; it repeats a
\* state when the type or the mode of the call changes, and an ALERTING may
\* still be under way when the call is being hung up.
MayFollow(next, last) ==
    \/ next = last
    \/ next = "DISCONNECTED"
    \/ next = "DISCONNECTING"
    \/ last = "DIALING" /\ next \in {"ALERTING", "ACTIVE"}
    \/ last = "WAITING" /\ next \in {"INCOMING", "ACTIVE"}
    \/ last \in {"ALERTING", "INCOMING", "HOLDING"} /\ next = "ACTIVE"
    \/ last = "ACTIVE" /\ next = "HOLDING"
    \/ last = "DISCONNECTING" /\ next = "ALERTING"

\* The DIALING that CarrierDialProcess reports itself: the object of a dial,
\* without an index.
DialedCall(type, video) ==
    LET new == CreateNewCall([state |-> "DIALING", type |-> type,
                              video |-> video, original |-> video], FALSE)
    IN  SetTelCallState([new EXCEPT !.run = "CONNECTING"], "DIALING")

Dial(type, video) ==
    /\ call = NoCall
    /\ call' = DialedCall(type, video)
    /\ inTable' = TRUE /\ bound' = FALSE /\ stack' = "DIALING"
    /\ UNCHANGED <<clock, rejects>>

\* A call the table does not know: only these reports make an object.
NewCall(info) ==
    SetTelCallState(CreateNewCall(info, info.state # "DIALING"), info.state)
ReportNew(info) ==
    /\ call = NoCall
    /\ info.state \in {"INCOMING", "WAITING", "DIALING"}
    /\ call' = NewCall(info)
    /\ inTable' = TRUE /\ bound' = TRUE /\ stack' = info.state
    /\ UNCHANGED <<clock, rejects>>

Report(info) ==
    /\ inTable /\ MayFollow(info.state, stack)
    /\ stack' = info.state
    /\ IF ~bound /\ info.state \in {"HOLDING", "DISCONNECTING"}
       THEN UNCHANGED <<call, inTable, bound>>
       ELSE /\ call' = HandleCallReportInfo(info)
            /\ inTable' = (info.state # "DISCONNECTED")
            /\ bound' = TRUE
    /\ UNCHANGED <<clock, rejects>>

\* DealFailDial of a failed dial, a failed request, an incoming call or the
\* protect task: the call is reported disconnected as it is.
DealFailDial ==
    /\ inTable /\ call.run = "DIALING"
    /\ call' = SetTelCallState(OriginalWhenOver(call), "DISCONNECTED")
    /\ inTable' = FALSE
    /\ UNCHANGED <<bound, clock, rejects, stack>>

\* RejectCall: the policy is asked now, the request runs later.
RejectCall ==
    /\ inTable /\ call.tel \in {"INCOMING", "WAITING"}
    /\ rejects < MaxRequests
    /\ rejects' = rejects + 1
    /\ UNCHANGED <<call, inTable, bound, clock, stack>>

\* RejectRequest: the record changes before the stack has answered.
RejectRequest ==
    /\ rejects > 0
    /\ rejects' = rejects - 1
    /\ call' = IF inTable THEN RejectCallBase(call) ELSE call
    /\ UNCHANGED <<inTable, bound, clock, stack>>

\* EccDialPolicy: an emergency dial rejects a call that rings.
EccDialPolicy ==
    /\ inTable /\ call.run = "RINGING"
    /\ call' = RejectCallBase(call)
    /\ UNCHANGED <<inTable, bound, clock, rejects, stack>>

Tick ==
    /\ clock < MaxTime
    /\ clock' = clock + 1
    /\ UNCHANGED <<call, inTable, bound, rejects, stack>>

RecordInit ==
    /\ call = NoCall /\ inTable = FALSE /\ bound = FALSE
    /\ clock = FirstTime /\ rejects = 0 /\ stack = "NONE"

RecordNext ==
    \/ \E type \in CallTypes, video \in Videos : Dial(type, video)
    \/ \E info \in Info : ReportNew(info) \/ Report(info)
    \/ DealFailDial
    \/ RejectCall \/ RejectRequest \/ EccDialPolicy
    \/ Tick

RecordSpec == RecordInit /\ [][RecordNext]_recordVars

-----------------------------------------------------------------------------
(***************************************************************************)
(* Properties.                                                             *)
(***************************************************************************)
\* Every variable has its type: after each step the object is past the states
\* CREATE and CONNECTING.
RecordTypeOK ==
    /\ call = NoCall \/ call \in Record
    /\ inTable \in BOOLEAN /\ bound \in BOOLEAN
    /\ clock \in FirstTime .. MaxTime
    /\ rejects \in 0 .. MaxRequests
    /\ stack \in TelStates \cup {"NONE"}
    /\ inTable => call # NoCall

\* The policies look at the running state or at the reported one; the two
\* agree, however often the object was replaced and the state repeated.
RunningMatchesReport == call # NoCall => call.run = RunningState(call.tel)

\* The times at which the call was made and the talk began stay what they
\* were, through every report and every change of type.
TalkBeginsOnce ==
    [][call # NoCall => /\ call'.create = call.create
                        /\ call.begin # 0 => call'.begin = call.begin]_recordVars

\* A call that was talked on is not recorded as missed, and one that was not is
\* not recorded as answered.
OutcomeMatchesTalk ==
    call # NoCall => /\ call.answer = "MISSED" => call.begin = 0
                     /\ call.answer = "ACTIVED" => call.begin # 0

\* In the record of a call that is over the ringing ends after it began, and
\* the talk between the end of the ringing and the end of the call.
TimesOrdered ==
    call # NoCall /\ call.tel = "DISCONNECTED" =>
        /\ call.create <= call.ringEnd /\ call.ringBegin <= call.ringEnd
        /\ call.ringEnd <= call.end
        /\ call.begin # 0 => call.begin <= call.end

(***************************************************************************)
(* What the sources say of the record and the code does not keep.          *)
(***************************************************************************)
\* A call that was active is not recorded as rejected.
TalkedIsNotRejected == call # NoCall /\ call.answer = "REJECT" => call.begin = 0

\* The report that answers, holds or ends a call does not move the time at
\* which it began to ring.
RingingStates == {"INCOMING", "WAITING", "ALERTING"}
RingingBeginKept ==
    [][call # NoCall /\ call.ringBegin # 0 /\ call'.tel \notin RingingStates =>
          call'.ringBegin = call.ringBegin]_recordVars
=============================================================================
