------------------------------ MODULE Conference ------------------------------
(***************************************************************************)
(* The conferences: CsConference and ImsConference, one of each for the    *)
(* whole device, the conference state of every call, and what the reports  *)
(* of the stack (CallStatusManager), a hang-up (CallRequestProcess) and a  *)
(* dial (CallObjectManager) make of them.                                  *)
(*                                                                         *)
(* A call answers to one index of the stack for life and the index is its  *)
(* id: how indexes are bound and reused is CallManager's.  The entries of  *)
(* a list are handled one step each while "todo" keeps other tasks         *)
(* waiting.  A stop of the service deletes the calls, and neither the      *)
(* conferences nor the numbering of the calls hear of it.                  *)
(***************************************************************************)
EXTENDS Naturals, SequencesExt, FiniteSetsExt

CONSTANTS
    Slots,          \* SIM slots
    MaxCallId,      \* bound: calls made in a behaviour
    Handovers,      \* pairs of types: how the network moves a call
    StackStates,    \* the states the stack reports
    Dials           \* are calls dialled, or do they all come in

Reported == {"INCOMING", "ACTIVE", "HOLDING", "DISCONNECTING", "DISCONNECTED"}

VARIABLES
    table,      \* the calls, oldest first
    conf,       \* the two conferences
    details,    \* callDetailsInfo_: the last list of each slot
    mpty,       \* tmpCallDetailsInfo_: the calls it flags as multi-party
    todo,       \* entries of the list still to handle
    lastCallId,
    sent,       \* commands sent to the stack in this step
    dialled,    \* the id of the call dialled in this step
    stoppedAt   \* lastCallId when the service stopped last

vars == <<table, conf, details, mpty, todo, lastCallId, sent, dialled, stoppedAt>>

NoId == 0       \* ERR_ID
CarrierTypes == {"CS", "IMS"}
Ids == 1 .. MaxCallId
TelStates == Reported \cup {"DIALING"}
ConferenceState == {"IDLE", "CREATING", "HOLDING", "ACTIVE", "LEAVING"}
TelConferenceState == {"IDLE", "ACTIVE", "HOLDING", "DISCONNECTING", "DISCONNECTED"}

NewConference == [main |-> NoId, state |-> "IDLE", old |-> "IDLE", members |-> {}]
Call == [id : Ids, slot : Slots, type : CarrierTypes, tel : TelStates,
         conf : TelConferenceState, flags : SUBSET {"ACTIVE", "HOLD_WAIT"}]
NoCall == [id |-> NoId]
Entry == [state : Reported, type : CarrierTypes, mpty : BOOLEAN]
Absent == [state |-> "NONE"]
Info == [id : Ids, slot : Slots, state : Reported, type : CarrierTypes, mpty : BOOLEAN]

-----------------------------------------------------------------------------
(***************************************************************************)
(* ConferenceBase, CsConference, ImsConference.  c is a conference.        *)
(***************************************************************************)
\* JoinToConference, by one call after the other
MayJoin(c) == c.state \in {"CREATING", "ACTIVE", "LEAVING", "HOLDING"}
JoinToConference(c, ids) ==
    [c EXCEPT !.members = @ \cup ids, !.state = "ACTIVE", !.old = "ACTIVE"]

\* LeaveFromConference: the oldest member that stays becomes the host, and the
\* last one to leave ends the conference. In the mutant the host stays.
LeaveMutant(c, id) ==
    LET left == c.members \ {id}
    IN  IF left = {} THEN NewConference ELSE [c EXCEPT !.members = left]
LeaveFromConference(c, id) ==
    LET left == c.members \ {id}
    IN  IF left = {} THEN NewConference
        ELSE [c EXCEPT !.members = left,
                       !.main = IF @ = id THEN Min(left) ELSE @]

\* HoldConference: a conference that is held already does not look at the call.
MayHold(c, id) == c.state = "HOLDING" \/ id \in c.members
HeldConference(c) == [c EXCEPT !.state = "HOLDING", !.old = "HOLDING"]

\* CsConference::UpdateConferenceId
UpdateConferenceId(c, id) ==
    [c EXCEPT !.members = @ \cup {id}, !.main = IF @ = NoId THEN id ELSE @]

\* HandleCombineConferenceFailEvent
CombineFailed(c) ==
    [c EXCEPT !.main = IF c.members = {} THEN NoId ELSE Min(c.members),
              !.state = c.old]

-----------------------------------------------------------------------------
(***************************************************************************)
(* The calls. m is the state of the manager within a step.                 *)
(***************************************************************************)
Now == [table |-> table, conf |-> conf, sent |-> {}]
Apply(m) == table' = m.table /\ conf' = m.conf /\ sent' = m.sent

CallById(t, id) ==
    IF \E c \in Range(t) : c.id = id THEN CHOOSE c \in Range(t) : c.id = id ELSE NoCall
Newest(t, tel) ==
    LET at == {i \in DOMAIN t : t[i].tel = tel}
    IN  IF at = {} THEN NoCall ELSE t[Max(at)]
Without(t, id) == RemoveAt(t, CHOOSE i \in DOMAIN t : t[i].id = id)
Exists(t, tels) == \E c \in Range(t) : c.tel \in tels
Write(m, c) ==
    [m EXCEPT !.table = [i \in DOMAIN @ |-> IF @[i].id = c.id THEN c ELSE @[i]]]
WithConf(m, type, c) == [m EXCEPT !.conf[type] = c]
Send(m, cmd, c) == [m EXCEPT !.sent = @ \cup {[cmd |-> cmd, id |-> c.id]}]

\* SetTelCallState: holding or ending the call takes it out of an active
\* conference; the same state again changes nothing.
SetTel(c, tel) ==
    [c EXCEPT !.tel = tel,
              !.conf = CASE tel = c.tel \/ @ \notin {"ACTIVE", "DISCONNECTING"} -> @
                         [] tel \in {"HOLDING", "DISCONNECTED"} -> "DISCONNECTED"
                         [] tel = "DISCONNECTING" -> "DISCONNECTING"
                         [] OTHER -> @]
UpdateCallState(m, id, tel) == Write(m, SetTel(CallById(m.table, id), tel))

\* LaunchConference of each of the calls: a CS call sets the conference idle
\* before it joins. If one may join the others of its type may.
Launching(m, t) ==
    IF t = "CS" THEN [m.conf[t] EXCEPT !.state = "IDLE"] ELSE m.conf[t]
Launch(m, calls) ==
    LET ids(t) == {c.id : c \in {d \in calls : d.type = t}}
        joined(t) == IF MayJoin(Launching(m, t))
                     THEN JoinToConference(Launching(m, t), ids(t)) ELSE Launching(m, t)
        told(c) == [c EXCEPT !.conf =
                       IF MayJoin(Launching(m, c.type)) THEN "ACTIVE" ELSE "IDLE"]
    IN  [m EXCEPT !.conf = [t \in CarrierTypes |->
                               IF ids(t) = {} THEN @[t] ELSE joined(t)],
                  !.table = [i \in DOMAIN @ |->
                               IF @[i] \in calls THEN told(@[i]) ELSE @[i]]]

\* ExitConference
ExitConference(m, c) ==
    IF c.id \in m.conf[c.type].members
    THEN Write(WithConf(m, c.type, LeaveFromConference(m.conf[c.type], c.id)),
               [c EXCEPT !.conf = "IDLE"])
    ELSE m

\* HoldConference: a call that is not in the conference does not hold it.
HoldConference(m, c) ==
    IF ~MayHold(m.conf[c.type], c.id) THEN m
    ELSE Write(IF m.conf[c.type].state = "HOLDING" THEN m
               ELSE WithConf(m, c.type, HeldConference(m.conf[c.type])),
               [c EXCEPT !.conf = "HOLDING"])

\* GetConferenceCallList
ConferenceCalls(t, slot) == {c \in Range(t) : c.slot = slot /\ c.id \in mpty[slot]}

\* RefreshCall: a call whose type changed is replaced at the end of the table;
\* one that came from IMS enters the CS conference if it is multi-party.
EntersConference(old, info) == old.type = "IMS" /\ info.type = "CS" /\ info.mpty
Refresh(m, info) ==
    LET old == CallById(m.table, info.id)
        moved == [m EXCEPT !.table =
                     Append(Without(@, info.id), [old EXCEPT !.type = info.type])]
    IN  IF old.type = info.type THEN m
        ELSE IF EntersConference(old, info)
        THEN WithConf(moved, "CS", UpdateConferenceId(m.conf.CS, info.id))
        ELSE moved

-----------------------------------------------------------------------------
(***************************************************************************)
(* CallStatusManager.                                                      *)
(***************************************************************************)
\* ActiveHandle: two multi-party calls of the list launch the conference, any
\* other call leaves the one it is in.
ActiveHandle(m, info) ==
    LET r == Refresh(m, info)
        all == ConferenceCalls(r.table, info.slot)
        j == IF info.mpty /\ Cardinality(all) > 1
             THEN Launch(r, all)
             ELSE ExitConference(r, CallById(r.table, info.id))
    IN  UpdateCallState(j, info.id, "ACTIVE")

HoldingHandle(m, info) ==
    LET r == Refresh(m, info)
        h == IF info.mpty THEN HoldConference(r, CallById(r.table, info.id)) ELSE r
    IN  UpdateCallState(h, info.id, "HOLDING")

DisconnectingHandle(m, info) ==
    UpdateCallState(Refresh(m, info), info.id, "DISCONNECTING")

\* HandleHoldCallOrAutoAnswerCall: a held call comes back when the call that
\* was hung up has gone, unless that was one of several in a conference.
AutoUnHold(m, prior, c, others) ==
    LET held == Newest(m.table, "HOLDING")
    IN  IF /\ prior = "DISCONNECTING"
           /\ held # NoCall /\ held.slot = c.slot
           /\ ~Exists(m.table, {"ACTIVE", "INCOMING"})
           /\ Cardinality(others) <= 1
        THEN Send(m, "UnHold", held)
        ELSE m

\* The last multi-party call that is left is in no conference any more.
LeaveLast(m, slot) ==
    LET all == ConferenceCalls(m.table, slot)
    IN  IF Cardinality(all) # 1 THEN m
        ELSE LET c == CHOOSE d \in all : TRUE IN Write(m, [c EXCEPT !.conf = "IDLE"])

DisconnectedHandle(m, info) ==
    LET r == Refresh(m, info)
        c == CallById(r.table, info.id)
        members == r.conf[c.type].members
        others == IF c.id \in members THEN members ELSE {}
        ended == UpdateCallState(ExitConference(r, c), c.id, "DISCONNECTED")
        u == AutoUnHold(ended, c.tel, c, others)
    IN  LeaveLast([u EXCEPT !.table = Without(@, c.id)], info.slot)

\* IncomingHandle of a call that is not known yet.
NewCall(id, slot, type, tel) ==
    [id |-> id, slot |-> slot, type |-> type, tel |-> tel, conf |-> "IDLE",
     flags |-> {}]

HandleCallReportInfo(m, info) ==
    IF CallById(m.table, info.id) = NoCall
    THEN IF info.state = "INCOMING"
         THEN [m EXCEPT !.table =
                  Append(@, NewCall(info.id, info.slot, info.type, "INCOMING"))]
         ELSE m
    ELSE CASE info.state = "ACTIVE" -> ActiveHandle(m, info)
           [] info.state = "HOLDING" -> HoldingHandle(m, info)
           [] info.state = "DISCONNECTING" -> DisconnectingHandle(m, info)
           [] info.state = "DISCONNECTED" -> DisconnectedHandle(m, info)
           [] OTHER -> m

\* HandleCallsReportInfo: the entries that are new or changed, then the calls
\* that are gone from the list.
AsInfo(slot, id, e) ==
    [id |-> id, slot |-> slot, state |-> e.state, type |-> e.type, mpty |-> e.mpty]
Changed(slot, list) ==
    {AsInfo(slot, i, list[i]) :
        i \in {j \in Ids : list[j] # Absent /\ list[j] # details[slot][j]}}
Gone(slot, list) ==
    {[AsInfo(slot, i, details[slot][i]) EXCEPT !.state = "DISCONNECTED"] :
        i \in {j \in Ids : details[slot][j] # Absent /\ list[j] = Absent}}

\* What the stack may say of a call: one it has not ended, on its slot, of its
\* type or moved to another; a call that was never heard of comes in.
Entries(slot, id) ==
    LET c == CallById(table, id)
        types == {c.type} \cup {t \in CarrierTypes : <<c.type, t>> \in Handovers}
        known == [state : StackStates \ {"INCOMING"}, type : types, mpty : BOOLEAN]
        in == [state : StackStates \cap {"INCOMING"}, type : CarrierTypes, mpty : {FALSE}]
    IN  {Absent} \cup
        IF c # NoCall
        THEN IF c.slot # slot THEN {}
             ELSE known \cup {e \in in : c.tel = "INCOMING" /\ e.type = c.type}
        ELSE IF id = lastCallId + 1 THEN in ELSE {}

Idle == todo = <<>>

ReportCalls(slot, list) ==
    /\ Idle
    /\ \A i \in Ids : list[i] \in Entries(slot, i)
    /\ \E first \in SetToSeqs(Changed(slot, list)),
          last \in SetToSeqs(Gone(slot, list)) : todo' = first \o last
    /\ details' = [details EXCEPT ![slot] =
          [i \in Ids |-> IF list[i] # Absent /\ list[i].state = "DISCONNECTED"
                         THEN Absent ELSE list[i]]]
    /\ mpty' = [mpty EXCEPT ![slot] = {i \in Ids : list[i] # Absent /\ list[i].mpty}]
    /\ lastCallId' = Max({lastCallId} \cup {i \in Ids : list[i] # Absent})
    /\ Apply(Now)
    /\ dialled' = NoId
    /\ UNCHANGED stoppedAt

HandleEntry ==
    /\ todo # <<>>
    /\ Apply(HandleCallReportInfo(Now, Head(todo)))
    /\ todo' = Tail(todo)
    /\ dialled' = NoId
    /\ UNCHANGED <<details, mpty, lastCallId, stoppedAt>>

\* DealFailDial: the dialled call is reported disconnected.
DealFailDial(m) ==
    LET c == Newest(m.table, "DIALING")
    IN  IF c = NoCall THEN m
        ELSE HandleCallReportInfo(m, [id |-> c.id, slot |-> c.slot, type |-> c.type,
                                      state |-> "DISCONNECTED", mpty |-> FALSE])

\* HandleEventResultReportInfo: every event fails the dialled call first, and
\* RESULT_COMBINE_SEND_FAILED goes to the conference of the active call.
HandleEventResultReportInfo(combine) ==
    /\ Idle
    /\ LET m == DealFailDial(Now)
           c == Newest(m.table, "ACTIVE")
       IN  Apply(IF combine /\ c # NoCall
                 THEN WithConf(m, c.type, CombineFailed(m.conf[c.type])) ELSE m)
    /\ dialled' = NoId
    /\ UNCHANGED <<details, mpty, todo, lastCallId, stoppedAt>>

-----------------------------------------------------------------------------
(***************************************************************************)
(* Downlink.                                                               *)
(***************************************************************************)
\* HangUpRequest and CarrierHangUpCall: the flags collect, the active one wins.
HangUpFlags(c) ==
    IF \/ c.tel = "ACTIVE"
          /\ \E d \in Range(table) : d.type = c.type /\ d.tel = "HOLDING"
       \/ c.conf = "ACTIVE"
    THEN {"ACTIVE"}
    ELSE IF c.conf = "HOLDING" THEN {"HOLD_WAIT"} ELSE {}

HangUpRequest(c) ==
    /\ Idle
    /\ LET d == [c EXCEPT !.flags = @ \cup HangUpFlags(c)]
           cmd == IF "ACTIVE" \in d.flags THEN "HangUpActive"
                  ELSE IF "HOLD_WAIT" \in d.flags THEN "HangUpHoldWait" ELSE "HangUp"
       IN  Apply(Send(Write(Now, d), cmd, d))
    /\ dialled' = NoId
    /\ UNCHANGED <<details, mpty, todo, lastCallId, stoppedAt>>

\* GetCurrentCallNum counts the calls that are in no conference, and the host
\* of the IMS conference for the others.
CurrentCalls == {c \in Range(table) : c.conf = "IDLE" \/ c.id = conf["IMS"].main}
IsNewCallAllowedCreate ==
    /\ ~Exists(table, {"DIALING", "INCOMING"})
    /\ Cardinality(CurrentCalls) < 2

DialCall(slot, type) ==
    /\ Idle /\ Dials /\ lastCallId < MaxCallId
    /\ IsNewCallAllowedCreate
    /\ table' = Append(table, NewCall(lastCallId + 1, slot, type, "DIALING"))
    /\ lastCallId' = lastCallId + 1
    /\ dialled' = lastCallId + 1
    /\ sent' = {}
    /\ UNCHANGED <<conf, details, mpty, todo, stoppedAt>>

-----------------------------------------------------------------------------
NoDetails == [s \in Slots |-> [i \in Ids |-> Absent]]
NoMpty == [s \in Slots |-> {}]

\* CallManagerService::UnInit and the Init after it, in one step: in between
\* nothing is reported or asked for. CallStatusManager is made anew and the
\* calls are deleted, which takes none of them out of its conference. Of a call
\* the stack still has, the new service knows nothing, and its reports pass.
StopService ==
    /\ Idle
    /\ Apply([Now EXCEPT !.table = <<>>])
    /\ details' = NoDetails
    /\ mpty' = NoMpty
    /\ stoppedAt' = lastCallId
    /\ dialled' = NoId
    /\ UNCHANGED <<todo, lastCallId>>

Init ==
    /\ table = <<>>
    /\ conf = [t \in CarrierTypes |-> NewConference]
    /\ details = NoDetails
    /\ mpty = NoMpty
    /\ todo = <<>> /\ lastCallId = NoId /\ sent = {} /\ dialled = NoId
    /\ stoppedAt = NoId

Next ==
    \/ \E s \in Slots : \E list \in [Ids -> UNION {Entries(s, i) : i \in Ids}] :
          ReportCalls(s, list)
    \/ HandleEntry
    \/ \E combine \in BOOLEAN : HandleEventResultReportInfo(combine)
    \/ \E c \in Range(table) : HangUpRequest(c)
    \/ \E s \in Slots, t \in CarrierTypes : DialCall(s, t)
    \/ StopService

Spec == Init /\ [][Next]_vars

-----------------------------------------------------------------------------
(***************************************************************************)
(* Properties.                                                             *)
(***************************************************************************)
\* Every variable has its type.
TypeOK ==
    /\ table \in Seq(Call)
    /\ conf \in [CarrierTypes -> [main : {NoId} \cup Ids, state : ConferenceState,
                                  old : ConferenceState, members : SUBSET Ids]]
    /\ details \in [Slots -> [Ids -> Entry \cup {Absent}]]
    /\ mpty \in [Slots -> SUBSET Ids]
    /\ todo \in Seq(Info)
    /\ {lastCallId, dialled, stoppedAt} \subseteq {NoId} \cup Ids
    /\ sent \subseteq [cmd : {"HangUp", "HangUpActive", "HangUpHoldWait", "UnHold"},
                       id : Ids]

\* A conference that has participants has one of them as its host, through
\* every order in which they join, leave, change type and fail to combine
\* (UpdateConferenceId, LeaveFromConference, HandleCombineConferenceFailEvent).
HostIsParticipant ==
    \A t \in CarrierTypes :
        IF conf[t].members = {} THEN conf[t].main = NoId
        ELSE conf[t].main \in conf[t].members

\* A conference is held, or goes back to being held when a merge fails, only
\* while somebody is in it (HoldConference, LeaveFromConference,
\* HandleCombineConferenceFailEvent).
HeldHasMembers ==
    \A t \in CarrierTypes :
        "HOLDING" \in {conf[t].state, conf[t].old} => conf[t].members # {}

\* The participants are calls of the table, of the type of the conference: no
\* participant outlives its call (DisconnectedHandle, RefreshCall), unless the
\* call was deleted by a stop of the service (CallManagerService::UnInit).
MembersAreCalls ==
    \A t \in CarrierTypes : \A id \in conf[t].members :
        \/ id <= stoppedAt
        \/ CallById(table, id) # NoCall /\ CallById(table, id).type = t

\* A conference is in order: it has a host, is held only while somebody is in
\* it, and has no participant but calls of its type and those that a stop of the
\* service left there.
ConferenceSound == HostIsParticipant /\ HeldHasMembers /\ MembersAreCalls

\* No state leaks from one call to the next (test NoStateLeaksBetweenCalls): when
\* there is no call, nothing is left of a conference but the participants that a
\* stop of the service left there, and nothing at all without them.
NoStateLeaks ==
    table = <<>> /\ Idle =>
        \A t \in CarrierTypes : /\ \A id \in conf[t].members : id <= stoppedAt
                                /\ conf[t].members = {} => conf[t] = NewConference

\* The same over a stop of the service (UnInit deletes the calls it finds): here
\* the conferences keep their host, their participants and their state.
StopLeavesNothing ==
    table = <<>> /\ Idle => \A t \in CarrierTypes : conf[t] = NewConference

\* "release the held call and the wait call" is the hang-up of a held call
\* (common_type.h, POLICY_FLAG_HANG_UP_HOLD_WAIT).
HoldWaitEndsHeld ==
    [][\A s \in sent' : s.cmd = "HangUpHoldWait" =>
          CallById(table, s.id).tel # "ACTIVE"]_vars

\* A normal dial is refused when the number of calls has reached the limit of
\* two, a conference being one (mini-voice-call-control, IsNewCallAllowedCreate).
DialKeepsLimit ==
    [][dialled' # NoId =>
          LET in == UNION {conf[t].members : t \in CarrierTypes}
              alone == {c \in Range(table) : c.id \notin in}
          IN  Cardinality(alone)
                + Cardinality({t \in CarrierTypes : conf[t].members # {}}) < 2]_vars
=============================================================================
