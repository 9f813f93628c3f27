------------------------------ MODULE MCObjects ------------------------------
(***************************************************************************)
(* Three kinds of object on small instances: a shared object with its      *)
(* pointers (RefBase), the record of a call (CallRecord) and the           *)
(* conferences (Conference).  None of them shares state with another, so a *)
(* behaviour runs one of them and leaves the others where they start.      *)
(***************************************************************************)
EXTENDS RefBase, CallRecord, TLC

CONSTANTS Slots, MaxCallId, StackStates, Dials  \* of Conference

VARIABLES
    part,   \* the part that runs
    table, conf, details, mpty, todo, lastCallId, sent, dialled, stoppedAt

conferenceVars ==
    <<table, conf, details, mpty, todo, lastCallId, sent, dialled, stoppedAt>>
objectsVars == <<part, vars, recordVars, conferenceVars>>

\* The network moves calls from IMS to CS.
Conf == INSTANCE Conference WITH Handovers <- {<<"IMS", "CS">>}

ASSUME ObjectsAssumption ==
    /\ MaxCallId \in Nat
    /\ StackStates \subseteq Conf!Reported

ObjectsInit ==
    /\ part \in {"pointers", "record", "conferences"}
    /\ Init /\ RecordInit /\ Conf!Init

ObjectsNext ==
    \/ part = "pointers" /\ Next /\ UNCHANGED <<part, recordVars, conferenceVars>>
    \/ part = "record" /\ RecordNext /\ UNCHANGED <<part, vars, conferenceVars>>
    \/ part = "conferences" /\ Conf!Next
        /\ UNCHANGED <<part, vars, recordVars>>

ObjectsSpec == ObjectsInit /\ [][ObjectsNext]_objectsVars

Symmetry == Permutations(Tasks)

-----------------------------------------------------------------------------
\* The variables have their types, the running state of a call is that of the
\* state reported, and the conferences are in order: each has a host among its
\* participants, and those are calls of its type or left by a stop of the
\* service (LeaveFromConference, HandleCombineConferenceFailEvent, RefreshCall,
\* UnInit).
ObjectsSound ==
    /\ TypeOK /\ RecordTypeOK /\ Conf!TypeOK
    /\ RunningMatchesReport
    /\ Conf!ConferenceSound
=============================================================================
