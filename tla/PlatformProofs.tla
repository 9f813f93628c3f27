--------------------------- MODULE PlatformProofs ---------------------------
(***************************************************************************)
(* Theorems about the composition of MCPlatform.  Whichever part runs, the *)
(* behaviour is one of every component, so that what DelayedTasksProofs    *)
(* and AdapterProofs show of the components holds of the platform.         *)
(***************************************************************************)
EXTENDS MCPlatform, DelayedTasksProofs, FiniteSetTheorems

\* The POSIX timers, the semaphore and the task slots.
A == INSTANCE AdapterProofs WITH
    Timers <- {t1, t2}, Tasks <- {u}, Service <- service, Delays <- {1, 2},
    MaxTime <- 2, None <- none, Forever <- forever,
    running <- served, service <- thread, call <- posixCall,
    count <- posixCount, now <- clock, answer <- posixAnswer,
    Creators <- {u, v}, NSlots <- 2, NTasks <- 2,
    used <- taken,
    Users <- {u, v, w}, InitialCount <- 0, MaxCount <- 2,
    Slots <- {t1, t2}, TimerTask <- timerTask, MaxQueue <- 2,
    slotUsed <- used, called <- running, slotCall <- cmsisCall,
    slotCount <- cmsisCount, slotAnswer <- cmsisAnswer

\* The timer slots on CMSIS, with two slots.
B == INSTANCE AdapterProofs WITH
    Timers <- {t1, t2}, Tasks <- {u, v}, Service <- service, Delays <- {1, 2},
    MaxTime <- 2, None <- none, Forever <- forever,
    running <- served, service <- thread, call <- posixCall,
    count <- posixCount, now <- clock, answer <- posixAnswer,
    Creators <- {u, v}, NSlots <- 2, NTasks <- 2,
    used <- taken,
    Users <- {u, v, w}, InitialCount <- 0, MaxCount <- 2,
    Slots <- {t1, t2}, TimerTask <- timerTask, MaxQueue <- 2,
    slotUsed <- used, called <- running, slotCall <- cmsisCall,
    slotCount <- cmsisCount, slotAnswer <- cmsisAnswer

\* The first of the two slots alone.
C == INSTANCE AdapterProofs WITH
    Timers <- {t1, t2}, Tasks <- {u, v}, Service <- service, Delays <- {1, 2},
    MaxTime <- 2, None <- none, Forever <- forever,
    running <- served, service <- thread, call <- posixCall,
    count <- posixCount, now <- clock, answer <- posixAnswer,
    Creators <- {u, v}, NSlots <- 2, NTasks <- 2,
    used <- taken,
    Users <- {u, v, w}, InitialCount <- 0, MaxCount <- 2,
    Slots <- {t1}, TimerTask <- timerTask, MaxQueue <- 2,
    slotUsed <- [s \in {t1} |-> used[s]],
    inCallback <- [s \in {t1} |-> inCallback[s]],
    callback <- [s \in {t1} |-> callback[s]],
    kernel <- [s \in {t1} |-> kernel[s]],
    called <- running, slotCall <- cmsisCall,
    slotCount <- cmsisCount, slotAnswer <- cmsisAnswer

-----------------------------------------------------------------------------
(***************************************************************************)
(* A behaviour of the platform is one of each component.                   *)
(***************************************************************************)
LEMMA PosixRuns == PlatformSpec => Posix!Spec
<1>1. PlatformInit => Posix!Init
  BY DEF PlatformInit
<1>2. [PlatformNext]_platformVars => [Posix!Next]_(Posix!vars)
  BY DEF PlatformNext, RunsTable, RunsLives, RunsOne, RunsTwo, RunsUnits, RunsSlots, RunsPosix,
         platformVars, posixVars, Posix!vars
<1> QED BY <1>1, <1>2, PTL DEF PlatformSpec, Posix!Spec

LEMMA UnitsRun == PlatformSpec => Units!PosixSpec
<1>1. PlatformInit => Units!Init
  BY DEF PlatformInit
<1>2. [PlatformNext]_platformVars => [Units!PosixNext]_(Units!vars)
  BY DEF PlatformNext, RunsTable, RunsLives, RunsOne, RunsTwo, RunsUnits, RunsSlots, RunsPosix,
         platformVars, unitVars, Units!vars
<1> QED BY <1>1, <1>2, PTL DEF PlatformSpec, Units!PosixSpec

LEMMA TasksRun == PlatformSpec => TaskSlots!Spec
<1>1. PlatformInit => TaskSlots!Init
  BY DEF PlatformInit
<1>2. [PlatformNext]_platformVars => [TaskSlots!Next]_(TaskSlots!vars)
  BY DEF PlatformNext, RunsTable, RunsLives, RunsOne, RunsTwo, RunsUnits, RunsSlots, RunsPosix,
         platformVars, slotVars, TaskSlots!vars
<1> QED BY <1>1, <1>2, PTL DEF PlatformSpec, TaskSlots!Spec

\* The instances have a definition each of the operators of FiniteSets.
LEMMA PairsAreFinite == \A a, b : A!IsFiniteSet({a, b}) /\ B!IsFiniteSet({a, b})
<1> SUFFICES ASSUME NEW a, NEW b PROVE A!IsFiniteSet({a, b}) /\ B!IsFiniteSet({a, b})
  OBVIOUS
<1>1. IsFiniteSet({a, b})
  <2>1. IsFiniteSet({a})
    BY FS_Singleton
  <2>2. {a, b} = {a} \cup {b}
    OBVIOUS
  <2> QED BY <2>1, <2>2, FS_AddElement
<1> QED BY <1>1 DEF IsFiniteSet, A!IsFiniteSet, B!IsFiniteSet

LEMMA SamePosixInit == Posix!Init => A!Init
BY DEF Posix!Init, Posix!Idle, Posix!Callers, A!Init, A!Idle, A!Callers

LEMMA SamePosixStep == [Posix!Next]_(Posix!vars) => [A!Next]_(A!vars)
BY ZenonT(60)
       DEF Posix!Next, Posix!vars, Posix!Link, Posix!Created, Posix!Start, Posix!Stop,
           Posix!RefuseDelete, Posix!Unlink, Posix!WaitAgain, Posix!Deleted, Posix!Earliest,
           Posix!Wait, Posix!Wake, Posix!Take, Posix!Run, Posix!Return, Posix!Tick,
           Posix!ServiceStep, Posix!Continue, Posix!Callers, Posix!Free, Posix!Usable,
           Posix!Idle, Posix!Answer, Posix!listVars, Posix!armVars, Posix!serviceVars, A!Next,
           A!vars, A!Link, A!Created, A!Start, A!Stop, A!RefuseDelete, A!Unlink, A!WaitAgain,
           A!Deleted, A!Earliest, A!Wait, A!Wake, A!Take, A!Run, A!Return, A!Tick,
           A!ServiceStep, A!Continue, A!Callers, A!Free, A!Usable, A!Idle, A!Answer,
           A!listVars, A!armVars, A!serviceVars

LEMMA SamePosix == Posix!Spec => A!Spec
BY SamePosixInit, SamePosixStep, PTL DEF Posix!Spec, A!Spec

LEMMA SamePosixTypes == A!TypeOK => Posix!TypeOK
BY DEF Posix!TypeOK, A!TypeOK, Posix!Calls, A!Calls, Posix!Answers, A!Answers, Posix!Callers, A!Callers,
       Posix!Cardinality, A!Cardinality

LEMMA SamePosixCount == A!CountIsLive => Posix!CountIsLive
BY DEF Posix!CountIsLive, A!CountIsLive, Posix!Idle, A!Idle, Posix!Callers, A!Callers, Posix!Cardinality, A!Cardinality

LEMMA SamePosixDangling == A!NoDanglingTimer => Posix!NoDanglingTimer
BY DEF Posix!NoDanglingTimer, A!NoDanglingTimer, Posix!Callers, A!Callers

LEMMA SamePosixContract == A!Implements => Posix!Implements
<1>1. A!Contract!Init => Posix!Contract!Init
  BY DEF A!Contract!Init, Posix!Contract!Init, A!timerState, Posix!timerState,
         A!Creating, Posix!Creating, A!Callers, Posix!Callers
<1>2. [A!Contract!Next]_(A!Contract!vars) => [Posix!Contract!Next]_(Posix!Contract!vars)
  BY ZenonT(60)
       DEF Posix!Contract!Next, Posix!Contract!vars, Posix!Contract!Init,
           Posix!Contract!Create, Posix!Contract!Start, Posix!Contract!Stop,
           Posix!Contract!Expire, Posix!Contract!Run, Posix!Contract!BeginDelete,
           Posix!Contract!RefuseDelete, Posix!Contract!EndDelete, Posix!Contract!RefuseCreate,
           Posix!Contract!Return, Posix!Contract!Answer, A!Contract!Next, A!Contract!vars,
           A!Contract!Init, A!Contract!Create, A!Contract!Start, A!Contract!Stop,
           A!Contract!Expire, A!Contract!Run, A!Contract!BeginDelete, A!Contract!RefuseDelete,
           A!Contract!EndDelete, A!Contract!RefuseCreate, A!Contract!Return,
           A!Contract!Answer,
         A!timerState, Posix!timerState,
         A!Creating, Posix!Creating, A!Callers, Posix!Callers
<1> QED BY <1>1, <1>2, PTL
       DEF A!Implements, Posix!Implements, A!Contract!Spec, Posix!Contract!Spec

LEMMA PosixIsProved ==
    /\ Posix!Spec => Posix!Implements
    /\ Posix!Spec => []Posix!TypeOK
    /\ Posix!Spec => []Posix!CountIsLive
    /\ Posix!Spec => []Posix!NoDanglingTimer
<1>1. none \notin {t1, t2} /\ A!IsFiniteSet({t1, t2}) /\ 2 \in Nat /\ {1, 2} \subseteq Nat
  <2>1. none \notin {t1, t2} /\ A!IsFiniteSet({t1, t2})
    BY PlatformAssumption, PairsAreFinite, Zenon
  <2>2. 2 \in Nat /\ {1, 2} \subseteq Nat
    OBVIOUS
  <2> QED BY <2>1, <2>2
<1>2. /\ A!Spec => A!Implements
      /\ A!Spec => []A!CountIsLive
      /\ A!Spec => []A!NoDanglingTimer
  BY <1>1, A!PosixTimersImplement, A!CountIsTrue, A!NoTimerDangles
<1>3. A!Spec => []A!TypeOK
  BY <1>1, A!PosixTimersTyped
<1> QED BY <1>2, <1>3, SamePosix, SamePosixContract, SamePosixTypes, SamePosixCount,
           SamePosixDangling, PTL

LEMMA SameUnits == Units!PosixSpec => A!Sem!PosixSpec
<1>1. Units!Init => A!Sem!Init
  BY DEF Units!Init, A!Sem!Init
<1>2. [Units!PosixNext]_(Units!vars) => [A!Sem!PosixNext]_(A!Sem!vars)
  BY ZenonT(60)
       DEF Units!PosixNext, Units!vars, Units!Wait, Units!Take, Units!GiveUp, Units!Sleep,
           Units!Expire, Units!WakeUp, Units!Post, Units!RefusePost, Units!InWait, Units!Goto,
           Units!Answer, A!Sem!PosixNext, A!Sem!vars, A!Sem!Wait, A!Sem!Take, A!Sem!GiveUp,
           A!Sem!Sleep, A!Sem!Expire, A!Sem!WakeUp, A!Sem!Post, A!Sem!RefusePost,
           A!Sem!InWait, A!Sem!Goto, A!Sem!Answer
<1> QED BY <1>1, <1>2, PTL DEF Units!PosixSpec, A!Sem!PosixSpec

LEMMA UnitsAreProved == Units!PosixSpec => []Units!TypeOK /\ Units!NoUnitMissed
<1>1. 0 \in Nat /\ 2 \in Nat /\ 0 <= 2
  OBVIOUS
<1>2. A!Sem!PosixSpec => []A!Sem!TypeOK
  BY <1>1, A!UnitsTyped
<1>3. A!Sem!PosixSpec => A!Sem!NoUnitMissed
  BY <1>1, A!UnitsAreTaken
<1>4. A!Sem!TypeOK => Units!TypeOK
  BY DEF Units!TypeOK, A!Sem!TypeOK
<1>5. A!Sem!NoUnitMissed => Units!NoUnitMissed
  BY PTL DEF Units!NoUnitMissed, A!Sem!NoUnitMissed, Units!vars, A!Sem!vars
<1> QED BY <1>2, <1>3, <1>4, <1>5, SameUnits, PTL

LEMMA SameTasks == TaskSlots!Spec => A!Cmsis!Spec
<1>1. TaskSlots!Init => A!Cmsis!Init
  BY DEF TaskSlots!Init, A!Cmsis!Init, TaskSlots!Slots, A!Cmsis!Slots, TaskSlots!Tasks,
         A!Cmsis!Tasks, TaskSlots!NoTask, A!Cmsis!NoTask
<1>2. [TaskSlots!Next]_(TaskSlots!vars) => [A!Cmsis!Next]_(A!Cmsis!vars)
  BY ZenonT(60)
       DEF TaskSlots!Next, TaskSlots!vars, TaskSlots!Create, TaskSlots!Claim, TaskSlots!Fill,
           TaskSlots!KernelCreate, TaskSlots!KernelFails, TaskSlots!At, TaskSlots!Step,
           TaskSlots!ReadEntry, TaskSlots!FreeSlot, TaskSlots!EntryReturns, TaskSlots!Leave,
           TaskSlots!Goto, TaskSlots!NoTask, TaskSlots!Entries, TaskSlots!Slots,
           TaskSlots!Tasks, A!Cmsis!Next, A!Cmsis!vars, A!Cmsis!Create, A!Cmsis!Claim,
           A!Cmsis!Fill, A!Cmsis!KernelCreate, A!Cmsis!KernelFails, A!Cmsis!At, A!Cmsis!Step,
           A!Cmsis!ReadEntry, A!Cmsis!FreeSlot, A!Cmsis!EntryReturns, A!Cmsis!Leave,
           A!Cmsis!Goto, A!Cmsis!NoTask, A!Cmsis!Entries, A!Cmsis!Slots, A!Cmsis!Tasks
<1> QED BY <1>1, <1>2, PTL DEF TaskSlots!Spec, A!Cmsis!Spec

LEMMA TasksAreProved ==
    /\ TaskSlots!Spec => []TaskSlots!TypeOK
    /\ TaskSlots!Spec => []TaskSlots!RunsOwnEntry
    /\ TaskSlots!Spec => []TaskSlots!CountsTheLiving
    /\ TaskSlots!Spec => []TaskSlots!SlotsAreAccountedFor
<1>1. 2 \in Nat \ {0} /\ 2 \in Nat /\ A!IsFiniteSet({u, v})
  <2>1. 2 \in Nat \ {0} /\ 2 \in Nat
    OBVIOUS
  <2> QED BY <2>1, PairsAreFinite
<1>2. A!Cmsis!Spec => []A!Cmsis!TypeOK
  BY <1>1, A!TaskSlotsTyped
<1>3. A!Cmsis!Spec => []A!Cmsis!RunsOwnEntry
  BY <1>1, A!OwnEntryIsRun
<1>4. A!Cmsis!Spec => []A!Cmsis!CountsTheLiving
  BY <1>1, A!TasksAreCounted
<1>5. A!Cmsis!Spec => []A!Cmsis!SlotsAreAccountedFor
  BY <1>1, A!SlotsHaveOneUser
<1> USE DEF TaskSlots!Slots, A!Cmsis!Slots, TaskSlots!Tasks, A!Cmsis!Tasks,
            TaskSlots!Entries, A!Cmsis!Entries, TaskSlots!Cardinality, A!Cmsis!Cardinality
<1>6. A!Cmsis!TypeOK => TaskSlots!TypeOK
  BY DEF A!Cmsis!TypeOK, TaskSlots!TypeOK
<1>7. A!Cmsis!RunsOwnEntry => TaskSlots!RunsOwnEntry
  BY DEF A!Cmsis!RunsOwnEntry, TaskSlots!RunsOwnEntry
<1>8. A!Cmsis!CountsTheLiving => TaskSlots!CountsTheLiving
  BY DEF A!Cmsis!CountsTheLiving, TaskSlots!CountsTheLiving, A!Cmsis!Live, TaskSlots!Live,
         A!Cmsis!InCreation, TaskSlots!InCreation
<1>9. A!Cmsis!SlotsAreAccountedFor => TaskSlots!SlotsAreAccountedFor
  BY DEF A!Cmsis!SlotsAreAccountedFor, TaskSlots!SlotsAreAccountedFor,
         A!Cmsis!SlotUsers, TaskSlots!SlotUsers
<1> QED BY <1>2, <1>3, <1>4, <1>5, <1>6, <1>7, <1>8, <1>9, SameTasks, PTL
-----------------------------------------------------------------------------
(***************************************************************************)
(* The timer slots on CMSIS.  With one slot, too, all but the refusal of a *)
(* second timer is a step of two slots.                                    *)
(***************************************************************************)
LEMMA SameSlotsInit == TwoSlots!Init => B!Slot!Init
BY DEF TwoSlots!Init, B!Slot!Init, TwoSlots!Idle, B!Slot!Idle, TwoSlots!Callers, B!Slot!Callers

LEMMA SameSlotsNext == TwoSlots!Next => B!Slot!Next
BY ZenonT(60)
       DEF TwoSlots!Next, TwoSlots!ClaimSlot, TwoSlots!RefuseCreate, TwoSlots!New,
           TwoSlots!NewFails, TwoSlots!Created, TwoSlots!Start, TwoSlots!Stop,
           TwoSlots!KernelDelete, TwoSlots!Spin, TwoSlots!Clear, TwoSlots!Release,
           TwoSlots!Expire, TwoSlots!Call, TwoSlots!Skip, TwoSlots!Return, TwoSlots!Continue,
           TwoSlots!Trampoline, TwoSlots!Callers, TwoSlots!Free, TwoSlots!MayRun,
           TwoSlots!Goto, TwoSlots!At, TwoSlots!Usable, TwoSlots!Answer, TwoSlots!Idle,
           TwoSlots!slotVars, TwoSlots!kernelVars, B!Slot!Next, B!Slot!ClaimSlot,
           B!Slot!RefuseCreate, B!Slot!New, B!Slot!NewFails, B!Slot!Created, B!Slot!Start,
           B!Slot!Stop, B!Slot!KernelDelete, B!Slot!Spin, B!Slot!Clear, B!Slot!Release,
           B!Slot!Expire, B!Slot!Call, B!Slot!Skip, B!Slot!Return, B!Slot!Continue,
           B!Slot!Trampoline, B!Slot!Callers, B!Slot!Free, B!Slot!MayRun, B!Slot!Goto,
           B!Slot!At, B!Slot!Usable, B!Slot!Answer, B!Slot!Idle, B!Slot!slotVars,
           B!Slot!kernelVars

LEMMA SameSlotsVars == UNCHANGED TwoSlots!vars => UNCHANGED B!Slot!vars
BY DEF TwoSlots!vars, B!Slot!vars

OneRefuses == \E c \in OneSlot!Callers : OneSlot!RefuseCreate(c)

LEMMA OneIsOfTwo == OneSlot!Next => B!Slot!Next \/ OneRefuses
<1> SUFFICES ASSUME OneSlot!Next, ~OneRefuses PROVE B!Slot!Next
  OBVIOUS
<1>0. B!Slot!Callers = OneSlot!Callers
  BY DEF B!Slot!Callers, OneSlot!Callers
<1>1. ASSUME NEW c \in OneSlot!Callers, OneSlot!ClaimSlot(c) PROVE B!Slot!ClaimSlot(c)
  BY <1>1, ZenonT(30) DEF OneSlot!ClaimSlot, B!Slot!ClaimSlot, OneSlot!Free, B!Slot!Free,
         OneSlot!MayRun, B!Slot!MayRun, OneSlot!Idle, B!Slot!Idle, OneSlot!Goto, B!Slot!Goto,
         OneSlot!kernelVars, B!Slot!kernelVars
<1>2. ASSUME NEW c \in OneSlot!Callers, OneSlot!Continue(c) PROVE B!Slot!Continue(c)
  BY <1>2, ZenonT(60)
     DEF OneSlot!Continue, OneSlot!New, OneSlot!NewFails, OneSlot!Created, OneSlot!Spin,
         OneSlot!Clear, OneSlot!Release, OneSlot!At, OneSlot!MayRun, OneSlot!Goto,
         OneSlot!Answer, OneSlot!slotVars, OneSlot!kernelVars, B!Slot!Continue, B!Slot!New,
         B!Slot!NewFails, B!Slot!Created, B!Slot!Spin, B!Slot!Clear, B!Slot!Release,
         B!Slot!At, B!Slot!MayRun, B!Slot!Goto, B!Slot!Answer, B!Slot!slotVars,
         B!Slot!kernelVars
<1>3. ASSUME NEW c \in OneSlot!Callers, NEW s \in {t1},
             OneSlot!Start(c, s) \/ OneSlot!Stop(c, s) \/ OneSlot!KernelDelete(c, s)
      PROVE  B!Slot!Start(c, s) \/ B!Slot!Stop(c, s) \/ B!Slot!KernelDelete(c, s)
  BY <1>3, ZenonT(60)
     DEF OneSlot!Start, OneSlot!Stop, OneSlot!KernelDelete, OneSlot!Free, OneSlot!Usable,
         OneSlot!Callers, OneSlot!MayRun, OneSlot!Idle, OneSlot!Goto, OneSlot!Answer,
         OneSlot!slotVars, OneSlot!kernelVars, B!Slot!Start, B!Slot!Stop, B!Slot!KernelDelete,
         B!Slot!Free, B!Slot!Usable, B!Slot!Callers, B!Slot!MayRun, B!Slot!Idle, B!Slot!Goto,
         B!Slot!Answer, B!Slot!slotVars, B!Slot!kernelVars
<1>4. ASSUME NEW s \in {t1}, OneSlot!Expire(s) PROVE B!Slot!Expire(s)
  BY <1>4 DEF OneSlot!Expire, B!Slot!Expire, OneSlot!slotVars, B!Slot!slotVars
<1>5. OneSlot!Trampoline => B!Slot!Trampoline
  BY ZenonT(30)
     DEF OneSlot!Trampoline, OneSlot!Call, OneSlot!Skip, OneSlot!Return, OneSlot!Idle,
         OneSlot!slotVars, B!Slot!Trampoline, B!Slot!Call, B!Slot!Skip, B!Slot!Return,
         B!Slot!Idle, B!Slot!slotVars
<1> QED BY <1>0, <1>1, <1>2, <1>3, <1>4, <1>5 DEF OneSlot!Next, B!Slot!Next, OneRefuses

LEMMA SlotSteps ==
    [PlatformNext]_platformVars => [B!Slot!Next]_(B!Slot!vars) \/ OneRefuses
BY OneIsOfTwo, SameSlotsNext, SameSlotsVars
   DEF PlatformNext, RunsTable, RunsLives, RunsOne, RunsTwo, RunsUnits, RunsSlots, RunsPosix,
       platformVars, cmsisVars, TwoSlots!vars

\* The refusal changes the answer only.
LEMMA RefusalKeepsSlots ==
    ASSUME B!SlotsSound, OneRefuses
    PROVE  B!SlotsSound'
<1>1. /\ UNCHANGED <<used, inCallback, callback, kernel, queue, running, cmsisCall, cmsisCount>>
      /\ cmsisAnswer' = [timer |-> none, result |-> "NO_RESOURCE"]
  BY DEF OneRefuses, OneSlot!RefuseCreate, OneSlot!slotVars, OneSlot!kernelVars, OneSlot!Answer
<1>2. B!SlotsCounted'
  BY <1>1 DEF B!SlotsSound, B!SlotsCounted, B!SlotsInv, B!SlotsType, B!SlotsClean,
              B!InMaking, B!SlotsInUse, B!Slot!Callers
<1>3. B!QueueType'
  BY <1>1 DEF B!SlotsSound, B!QueueType
<1> QED BY <1>2, <1>3 DEF B!SlotsSound

LEMMA SlotsHold == PlatformSpec => []B!SlotsSound
<1>1. PlatformInit => B!SlotsSound
  <2>1. none \notin {t1, t2} /\ B!IsFiniteSet({t1, t2})
    BY PlatformAssumption, PairsAreFinite
  <2>2. PlatformInit => B!Slot!Init
    BY SameSlotsInit DEF PlatformInit
  <2> QED BY <2>1, <2>2, B!SlotCountInit, B!QueueInit DEF B!SlotsSound
<1>2. B!SlotsSound /\ [PlatformNext]_platformVars => B!SlotsSound'
  <2>1. ASSUME B!SlotsSound, [B!Slot!Next]_(B!Slot!vars) PROVE B!SlotsSound'
    BY <2>1, B!SlotCountStep, B!QueueStep DEF B!SlotsSound, B!SlotsCounted
  <2> QED BY <2>1, SlotSteps, RefusalKeepsSlots
<1> QED BY <1>1, <1>2, PTL DEF PlatformSpec

LEMMA SlotsAreProved == B!SlotsSound => TwoSlots!TypeOK /\ TwoSlots!FreeSlotsAreClean
<1>1. B!SlotsSound => B!Slot!TypeOK /\ B!Slot!FreeSlotsAreClean
  BY B!SlotsSoundTyped, B!SlotsAreClean DEF B!SlotsSound
<1> USE DEF TwoSlots!Callers, B!Slot!Callers, TwoSlots!Cardinality, B!Slot!Cardinality
<1>2. B!Slot!TypeOK => TwoSlots!TypeOK
  BY DEF B!Slot!TypeOK, TwoSlots!TypeOK, TwoSlots!Ops, B!Slot!Ops
<1>3. B!Slot!FreeSlotsAreClean => TwoSlots!FreeSlotsAreClean
  BY DEF B!Slot!FreeSlotsAreClean, TwoSlots!FreeSlotsAreClean, TwoSlots!Idle, B!Slot!Idle
<1> QED BY <1>1, <1>2, <1>3
-----------------------------------------------------------------------------
(***************************************************************************)
(* The one timer of part "one", in the first slot.                         *)
(***************************************************************************)
SlotsOnDomain ==
    /\ used \in [{t1, t2} -> BOOLEAN] /\ inCallback \in [{t1, t2} -> 0..1]
    /\ callback \in [{t1, t2} -> BOOLEAN]
    /\ kernel \in [{t1, t2} -> {"none", "stopped", "ticking"}]

LEMMA OnDomain == B!SlotsSound => SlotsOnDomain
BY DEF B!SlotsSound, B!SlotsCounted, B!SlotsInv, B!SlotsType, B!QueueType, SlotsOnDomain

LEMMA OneIsFirst == C!One = t1
BY DEF C!One

\* A change of the first slot is one of the slot alone.
LEMMA ChangeOfFirst ==
    ASSUME NEW f, NEW S, f \in [{t1, t2} -> S], NEW g, NEW e, g = [f EXCEPT ![t1] = e]
    PROVE  [s \in {t1} |-> g[s]] = [[s \in {t1} |-> f[s]] EXCEPT ![t1] = e]
OBVIOUS

LEMMA FirstContinues ==
    ASSUME SlotsOnDomain, C!OneInv, NEW c \in OneSlot!Callers, OneSlot!Continue(c)
    PROVE  C!Slot!Continue(c)
<1>0. c \in C!Slot!Callers /\ cmsisCall[c].op # "none"
  BY DEF C!Slot!Callers, OneSlot!Callers, OneSlot!Continue, OneSlot!New, OneSlot!NewFails,
         OneSlot!Created, OneSlot!Spin, OneSlot!Clear, OneSlot!Release, OneSlot!At
<1>1. cmsisCall[c].slot = t1
  BY <1>0, C!OneCall, OneIsFirst
<1> USE DEF OneSlot!At, C!Slot!At, OneSlot!MayRun, C!Slot!MayRun, OneSlot!Goto, C!Slot!Goto,
            OneSlot!Answer, C!Slot!Answer, OneSlot!slotVars, C!Slot!slotVars,
            OneSlot!kernelVars, C!Slot!kernelVars
<1>2. OneSlot!New(c) => C!Slot!New(c)
  BY <1>1, ChangeOfFirst DEF OneSlot!New, C!Slot!New, SlotsOnDomain
<1>3. OneSlot!NewFails(c) => C!Slot!NewFails(c)
  BY <1>1, ChangeOfFirst DEF OneSlot!NewFails, C!Slot!NewFails, SlotsOnDomain
<1>4. OneSlot!Created(c) => C!Slot!Created(c)
  BY <1>1 DEF OneSlot!Created, C!Slot!Created
<1>5. OneSlot!Spin(c) => C!Slot!Spin(c)
  BY <1>1 DEF OneSlot!Spin, C!Slot!Spin
<1>6. OneSlot!Clear(c) => C!Slot!Clear(c)
  BY <1>1, ChangeOfFirst DEF OneSlot!Clear, C!Slot!Clear, SlotsOnDomain
<1>7. OneSlot!Release(c) => C!Slot!Release(c)
  BY <1>1, ChangeOfFirst DEF OneSlot!Release, C!Slot!Release, SlotsOnDomain
<1> QED BY <1>2, <1>3, <1>4, <1>5, <1>6, <1>7 DEF OneSlot!Continue, C!Slot!Continue

LEMMA FirstIsStarted ==
    ASSUME SlotsOnDomain, NEW c \in OneSlot!Callers, NEW s \in {t1},
           OneSlot!Start(c, s) \/ OneSlot!Stop(c, s) \/ OneSlot!KernelDelete(c, s)
    PROVE  C!Slot!Start(c, s) \/ C!Slot!Stop(c, s) \/ C!Slot!KernelDelete(c, s)
<1> USE DEF OneSlot!Free, C!Slot!Free, OneSlot!Usable, C!Slot!Usable,
            OneSlot!MayRun, C!Slot!MayRun, OneSlot!Goto, C!Slot!Goto, OneSlot!Idle, C!Slot!Idle,
            OneSlot!Answer, C!Slot!Answer, OneSlot!slotVars, C!Slot!slotVars,
            OneSlot!Callers, C!Slot!Callers
<1>1. OneSlot!Start(c, s) => C!Slot!Start(c, s)
  BY ChangeOfFirst DEF OneSlot!Start, C!Slot!Start, SlotsOnDomain
<1>2. OneSlot!Stop(c, s) => C!Slot!Stop(c, s)
  BY ChangeOfFirst DEF OneSlot!Stop, C!Slot!Stop, SlotsOnDomain
<1>3. OneSlot!KernelDelete(c, s) => C!Slot!KernelDelete(c, s)
  BY ChangeOfFirst DEF OneSlot!KernelDelete, C!Slot!KernelDelete, SlotsOnDomain
<1> QED BY <1>1, <1>2, <1>3

LEMMA FirstIsCalled ==
    ASSUME SlotsOnDomain, C!OneInv, OneSlot!Trampoline
    PROVE  C!Slot!Trampoline
<1> USE DEF OneSlot!slotVars, C!Slot!slotVars, OneSlot!Idle, C!Slot!Idle
<1>1. /\ queue \in Seq({t1})
      /\ queue # <<>> => Head(queue) = t1
      /\ running # none => running = t1
  BY DEF C!OneInv, C!QueueType
<1>2. OneSlot!Call => C!Slot!Call
  BY <1>1, ChangeOfFirst DEF OneSlot!Call, C!Slot!Call, SlotsOnDomain
<1>3. OneSlot!Skip => C!Slot!Skip
  BY <1>1 DEF OneSlot!Skip, C!Slot!Skip
<1>4. OneSlot!Return => C!Slot!Return
  BY <1>1, ChangeOfFirst DEF OneSlot!Return, C!Slot!Return, SlotsOnDomain
<1> QED BY <1>2, <1>3, <1>4 DEF OneSlot!Trampoline, C!Slot!Trampoline

LEMMA FirstSteps ==
    ASSUME SlotsOnDomain, C!OneInv, OneSlot!Next
    PROVE  C!Slot!Next
<1>0. C!Slot!Callers = OneSlot!Callers
  BY DEF C!Slot!Callers, OneSlot!Callers
<1>1. ASSUME NEW c \in OneSlot!Callers, OneSlot!ClaimSlot(c) PROVE C!Slot!ClaimSlot(c)
  <2>1. /\ ~used[t1] /\ used' = [used EXCEPT ![t1] = TRUE] /\ OneSlot!Goto(c, "filling", t1)
        /\ UNCHANGED <<inCallback, callback, kernel, queue, running, cmsisCount, cmsisAnswer>>
        /\ OneSlot!Free(c)
    BY <1>1 DEF OneSlot!ClaimSlot, OneSlot!kernelVars
  <2> QED BY <2>1, ChangeOfFirst
     DEF C!Slot!ClaimSlot, OneSlot!Free, C!Slot!Free, OneSlot!MayRun, C!Slot!MayRun,
         OneSlot!Idle, C!Slot!Idle, OneSlot!Goto, C!Slot!Goto, C!Slot!kernelVars, SlotsOnDomain
<1>2. ASSUME NEW c \in OneSlot!Callers, OneSlot!RefuseCreate(c) PROVE C!Slot!RefuseCreate(c)
  BY <1>2
     DEF OneSlot!RefuseCreate, OneSlot!Free, OneSlot!MayRun, OneSlot!Idle, OneSlot!Answer,
         OneSlot!slotVars, OneSlot!kernelVars, C!Slot!RefuseCreate, C!Slot!Free,
         C!Slot!MayRun, C!Slot!Idle, C!Slot!Answer, C!Slot!slotVars, C!Slot!kernelVars
<1>3. ASSUME NEW s \in {t1}, OneSlot!Expire(s) PROVE C!Slot!Expire(s)
  BY <1>3, ChangeOfFirst
     DEF OneSlot!Expire, C!Slot!Expire, OneSlot!slotVars, C!Slot!slotVars, SlotsOnDomain
<1> QED BY <1>0, <1>1, <1>2, <1>3, FirstContinues, FirstIsStarted, FirstIsCalled
       DEF OneSlot!Next, C!Slot!Next
LEMMA FirstIsSeen ==
    C!Slot!timerState = OneSlot!timerState /\ C!Slot!timerState' = OneSlot!timerState'
BY DEF C!Slot!timerState, OneSlot!timerState, C!Slot!Creating, OneSlot!Creating,
       C!Slot!Deleting, OneSlot!Deleting, C!Slot!Callers, OneSlot!Callers

LEMMA SameContractInit == C!Slot!Contract!Init => OneSlot!Contract!Init
BY FirstIsSeen DEF C!Slot!Contract!Init, OneSlot!Contract!Init,
   C!Slot!Cardinality, OneSlot!Cardinality

LEMMA SameContractStep == C!OneStep => OneTimer
BY FirstIsSeen, ZenonT(60)
       DEF C!Slot!Contract!Next, C!Slot!Contract!vars, C!Slot!Contract!Create,
           C!Slot!Contract!Start, C!Slot!Contract!Stop, C!Slot!Contract!Expire,
           C!Slot!Contract!Run, C!Slot!Contract!BeginDelete, C!Slot!Contract!RefuseDelete,
           C!Slot!Contract!EndDelete, C!Slot!Contract!RefuseCreate, C!Slot!Contract!Return,
           C!Slot!Contract!Answer, OneSlot!Contract!Next, OneSlot!Contract!vars,
           OneSlot!Contract!Create, OneSlot!Contract!Start, OneSlot!Contract!Stop,
           OneSlot!Contract!Expire, OneSlot!Contract!Run, OneSlot!Contract!BeginDelete,
           OneSlot!Contract!RefuseDelete, OneSlot!Contract!EndDelete,
           OneSlot!Contract!RefuseCreate, OneSlot!Contract!Return, OneSlot!Contract!Answer, C!OneStep, OneTimer,
           C!Slot!Cardinality, OneSlot!Cardinality

OneRunning == part = "one" => C!OneInv

LEMMA OneRunningInit == PlatformInit => OneRunning /\ OneSlot!Contract!Init
<1> SUFFICES ASSUME PlatformInit PROVE C!OneInv /\ OneSlot!Contract!Init
  BY DEF OneRunning
<1>1. C!Slot!Init
  BY DEF PlatformInit, TwoSlots!Init, C!Slot!Init, TwoSlots!Idle, C!Slot!Idle,
         TwoSlots!Callers, C!Slot!Callers
<1>2. none \notin {t1} /\ \E s : {t1} = {s}
  BY PlatformAssumption
<1> QED BY <1>1, <1>2, C!OneInit, SameContractInit

LEMMA OneRunningStep ==
    ASSUME B!SlotsSound, OneRunning, [PlatformNext]_platformVars
    PROVE  OneRunning' /\ (part = "one" => OneTimer)
<1>1. part' = part
  BY DEF PlatformNext, RunsTable, RunsLives, RunsPosix, RunsOne, RunsTwo, RunsUnits, RunsSlots,
         platformVars
<1>2. ASSUME part = "one" PROVE C!OneInv' /\ C!OneStep
  <2>1. C!OneInv /\ SlotsOnDomain
    BY <1>2, OnDomain DEF OneRunning
  <2>2. OneSlot!Next \/ UNCHANGED cmsisVars
    BY <1>2 DEF PlatformNext, RunsTable, RunsLives, RunsPosix, RunsOne, RunsTwo, RunsUnits,
       RunsSlots, platformVars
  <2>3. [C!Slot!Next]_(C!Slot!vars)
    BY <2>1, <2>2, FirstSteps DEF cmsisVars, C!Slot!vars
  <2> QED BY <2>1, <2>3, C!OneSteps DEF C!OneDone
<1> QED BY <1>1, <1>2, SameContractStep DEF OneRunning

-----------------------------------------------------------------------------
(***************************************************************************)
(* The delayed tasks, of a handler that is never stopped and of one that   *)
(* is.                                                                     *)
(***************************************************************************)
L == INSTANCE DelayedTasksProofs WITH
    MayStop <- TRUE, MaxDelayedTasks <- 1, MaxTaskId <- 2

\* DelayedAssumption holds of L, too.
LEMMA LivesAssumption ==
    /\ HalfWrap \in Nat \ {0} /\ TickFreq \in Nat /\ Delays \subseteq Nat \ {0}
    /\ 1 \in Nat \ {0} /\ 2 \in Nat \ {0} /\ LoopLag \in Nat /\ MaxLag \in Nat
    /\ TRUE \in BOOLEAN
BY DelayedAssumption

LEMMA LivesTicks ==
    /\ \A a, b : Lives!Plus(a, b) = L!Plus(a, b)
    /\ \A a, b : Lives!IsDue(a, b) = L!IsDue(a, b)
    /\ \A n : Lives!TaskTicks(n) = L!TaskTicks(n)
    /\ Lives!NextTaskId = L!NextTaskId
<1>1. \A a, b : Lives!Plus(a, b) = L!Plus(a, b)
  BY ZenonT(30) DEF Lives!Plus, L!Plus, Lives!Wrap, L!Wrap
<1>2. \A a, b : Lives!IsDue(a, b) = L!IsDue(a, b)
  BY ZenonT(30)
     DEF Lives!IsDue, L!IsDue, Lives!SignedDistance, L!SignedDistance, Lives!Minus, L!Minus,
         Lives!Wrap, L!Wrap
<1>3. \A n : Lives!TaskTicks(n) = L!TaskTicks(n)
  BY ZenonT(30)
     DEF Lives!TaskTicks, L!TaskTicks, Lives!AtLeastOne, L!AtLeastOne, Lives!TelOsMsToTicks,
         L!TelOsMsToTicks, Lives!AtMost, L!AtMost, Lives!Wrap, L!Wrap
<1>4. Lives!NextTaskId = L!NextTaskId
  BY DEF Lives!NextTaskId, L!NextTaskId
<1> QED BY <1>1, <1>2, <1>3, <1>4

LEMMA LivesArms ==
    ASSUME NEW table, Lives!ArmTimer(table)
    PROVE  L!ArmTimer(table)
<1>1. \A x, y : Lives!Minus(x, y) = L!Minus(x, y)
  BY ZenonT(30) DEF Lives!Minus, L!Minus, Lives!Wrap, L!Wrap
<1>2. \A n : Lives!TicksToMs(n) = L!TicksToMs(n)
  BY ZenonT(30)
     DEF Lives!TicksToMs, L!TicksToMs, Lives!AtMost, L!AtMost, Lives!Wrap, L!Wrap
<1>3. \A n : Lives!TelOsTimerStart(n) = L!TelOsTimerStart(n)
  BY ZenonT(30)
     DEF Lives!TelOsTimerStart, L!TelOsTimerStart, Lives!AtLeastOne, L!AtLeastOne,
         Lives!TelOsMsToTicks, L!TelOsMsToTicks, Lives!AtMost, L!AtMost, Lives!Wrap, L!Wrap
<1>4. Lives!Stopped = L!Stopped
  BY DEF Lives!Stopped, L!Stopped
<1> QED BY <1>1, <1>2, <1>3, <1>4, LivesTicks, ZenonT(30) DEF Lives!ArmTimer, L!ArmTimer

LEMMA LivesInserts ==
    ASSUME NEW j \in Jobs, NEW n, Lives!Insert(j, n)
    PROVE  L!Insert(j, n)
<1> DEFINE posted == [id |-> L!NextTaskId, due |-> L!Plus(now, L!TaskTicks(delay[j])),
                     job |-> j]
<1>1. /\ Lives!GoesBehind(posted.due, n)
      /\ delayed' = Lives!InsertAt(delayed, n, posted)
      /\ IF n = 0 THEN Lives!ArmTimer(delayed') ELSE UNCHANGED timer
      /\ lastTaskId' = L!NextTaskId
      /\ taskId' = [taskId EXCEPT ![j] = L!NextTaskId]
      /\ fate' = [fate EXCEPT ![j] = "posted"]
  BY LivesTicks, ZenonT(30) DEF Lives!Insert
<1>2. L!GoesBehind(posted.due, n)
  <2> DEFINE d == posted.due
  <2>1. Lives!GoesBehind(d, n)
    BY <1>1
  <2> HIDE DEF d
  <2>2. L!GoesBehind(d, n)
    BY <2>1, LivesTicks, ZenonT(30) DEF Lives!GoesBehind, L!GoesBehind
  <2> QED BY <2>2 DEF d
<1>3. delayed' = L!InsertAt(delayed, n, posted)
  BY <1>1 DEF Lives!InsertAt, L!InsertAt
<1>4. IF n = 0 THEN L!ArmTimer(delayed') ELSE UNCHANGED timer
  BY <1>1, LivesArms
<1> QED BY <1>1, <1>2, <1>3, <1>4, Zenon DEF L!Insert

LEMMA LivesPosts ==
    ASSUME NEW j \in Jobs, Lives!Poster(j)
    PROVE  L!Poster(j)
<1>1. Lives!BeginPost(j) => L!BeginPost(j)
  BY PlatformAssumption, ZenonT(30)
     DEF Lives!BeginPost, Lives!Settled, Lives!handlerVars, L!BeginPost, L!Settled,
         L!handlerVars
<1>2. Lives!PostAsyncTask(j) => L!PostAsyncTask(j)
  <2> SUFFICES ASSUME Lives!PostAsyncTask(j) PROVE L!PostAsyncTask(j)
    OBVIOUS
  <2>1. ASSUME NEW n \in 0 .. Len(delayed), Lives!IdIsForgotten(Lives!NextTaskId),
               Lives!Insert(j, n)
        PROVE  L!IdIsForgotten(L!NextTaskId) /\ L!Insert(j, n)
    BY <2>1, LivesInserts, LivesTicks
       DEF Lives!IdIsForgotten, L!IdIsForgotten, Lives!IdIsFree, L!IdIsFree
  <2> QED BY <2>1, ZenonT(30)
     DEF Lives!PostAsyncTask, L!PostAsyncTask, Lives!handlerVars, L!handlerVars
<1>3. Lives!BeginRemove(j) => L!BeginRemove(j)
  BY ZenonT(30)
     DEF Lives!BeginRemove, Lives!handlerVars, Lives!NoTask, L!BeginRemove, L!handlerVars,
         L!NoTask
<1>4. Lives!RemoveAsyncTask(j) => L!RemoveAsyncTask(j)
  BY ZenonT(30)
     DEF Lives!RemoveAsyncTask, Lives!Plus, Lives!Minus, Lives!SignedDistance, Lives!IsDue,
         Lives!AtMost, Lives!TelOsMsToTicks, Lives!TicksToMs, Lives!AtLeastOne,
         Lives!TaskTicks, Lives!TelOsTimerStart, Lives!Wrap, Lives!Stopped, Lives!NoTask,
         Lives!InsertAt, Lives!RemoveAt, Lives!GoesBehind, Lives!ArmTimer, Lives!NextTaskId,
         Lives!IdIsForgotten, Lives!IdIsFree, Lives!Insert, Lives!handlerVars,
         Lives!clientVars, Lives!DuePrefix, Lives!Lag, L!RemoveAsyncTask, L!Plus, L!Minus,
         L!SignedDistance, L!IsDue, L!AtMost, L!TelOsMsToTicks, L!TicksToMs, L!AtLeastOne,
         L!TaskTicks, L!TelOsTimerStart, L!Wrap, L!Stopped, L!NoTask, L!InsertAt, L!RemoveAt,
         L!GoesBehind, L!ArmTimer, L!NextTaskId, L!IdIsForgotten, L!IdIsFree, L!Insert,
         L!handlerVars, L!clientVars, L!DuePrefix, L!Lag
<1> QED BY <1>1, <1>2, <1>3, <1>4, ZenonT(30) DEF Lives!Poster, L!Poster

LEMMA LivesSteps == Lives!Next => L!Next
<1> SUFFICES ASSUME Lives!Next PROVE L!Next
  OBVIOUS
<1>1. Lives!Tick => L!Tick
  BY ZenonT(30)
     DEF Lives!Tick, Lives!Plus, Lives!Minus, Lives!SignedDistance, Lives!Wrap, Lives!Lag,
         Lives!handlerVars, Lives!clientVars, L!Tick, L!Plus, L!Minus, L!SignedDistance,
         L!Wrap, L!Lag, L!handlerVars, L!clientVars
<1>2. Lives!TimerExpired => L!TimerExpired
  BY ZenonT(30) DEF Lives!TimerExpired, L!TimerExpired, Lives!Stopped, L!Stopped,
     Lives!handlerVars, L!handlerVars, Lives!clientVars, L!clientVars
<1>3. Lives!Loop => L!Loop
  BY ZenonT(60)
     DEF Lives!Loop, Lives!RunDueTasks, Lives!RunTask, Lives!RecycleTimerMessage, Lives!Plus,
         Lives!Minus, Lives!SignedDistance, Lives!IsDue, Lives!AtMost, Lives!TelOsMsToTicks,
         Lives!TicksToMs, Lives!AtLeastOne, Lives!TaskTicks, Lives!TelOsTimerStart,
         Lives!Wrap, Lives!Stopped, Lives!NoTask, Lives!InsertAt, Lives!RemoveAt,
         Lives!GoesBehind, Lives!ArmTimer, Lives!NextTaskId, Lives!IdIsForgotten,
         Lives!IdIsFree, Lives!Insert, Lives!handlerVars, Lives!clientVars, Lives!DuePrefix,
         Lives!Lag, L!Loop, L!RunDueTasks, L!RunTask, L!RecycleTimerMessage, L!Plus, L!Minus,
         L!SignedDistance, L!IsDue, L!AtMost, L!TelOsMsToTicks, L!TicksToMs, L!AtLeastOne,
         L!TaskTicks, L!TelOsTimerStart, L!Wrap, L!Stopped, L!NoTask, L!InsertAt, L!RemoveAt,
         L!GoesBehind, L!ArmTimer, L!NextTaskId, L!IdIsForgotten, L!IdIsFree, L!Insert,
         L!handlerVars, L!clientVars, L!DuePrefix, L!Lag
<1>4. Lives!Owner => L!Owner
  BY ZenonT(60)
     DEF Lives!Owner, Lives!StopBegin, Lives!StopDrop, Lives!DropAll, Lives!StopRelease,
         Lives!InitAgain, Lives!Stopped, Lives!clientVars, L!Owner, L!StopBegin, L!StopDrop,
         L!DropAll, L!StopRelease, L!InitAgain, L!Stopped, L!clientVars
<1> QED BY <1>1, <1>2, <1>3, <1>4, LivesPosts DEF Lives!Next, L!Next

LEMMA PartStays == [PlatformNext]_platformVars => part' = part
BY DEF PlatformNext, RunsTable, RunsLives, RunsPosix, RunsOne, RunsTwo, RunsUnits, RunsSlots,
       platformVars

\* Outside the part "lives", a behaviour of the platform is one of DelayedTasks; in
\* it, one of DelayedTasks with a handler that is stopped.
IsStopped == part = "lives"

LEMMA TableRuns == PlatformSpec => (~IsStopped => []~IsStopped /\ Spec)
<1>1. PlatformInit => Init
  BY DEF PlatformInit
<1>2. ~IsStopped /\ [PlatformNext]_platformVars => ~IsStopped' /\ [Next]_vars
  <2> SUFFICES ASSUME ~IsStopped, [PlatformNext]_platformVars
               PROVE  ~IsStopped' /\ [Next]_vars
    OBVIOUS
  <2>1. CASE RunsTable /\ Next
    BY <2>1, PartStays DEF IsStopped
  <2>2. CASE RunsLives /\ Lives!Next
    BY <2>2 DEF RunsLives, IsStopped
  <2>3. CASE UNCHANGED tableVars
    BY <2>3, PartStays DEF tableVars, IsStopped
  <2> QED BY <2>1, <2>2, <2>3
     DEF IsStopped, PlatformNext, RunsPosix, RunsOne, RunsTwo, RunsUnits, RunsSlots, platformVars
<1> QED BY <1>1, <1>2, PTL DEF PlatformSpec, Spec

LEMMA LivesRuns == PlatformSpec => (IsStopped => []IsStopped /\ L!Spec)
<1>1. PlatformInit => L!Init
  BY DEF PlatformInit, Init, L!Init, Ticks, L!Ticks, Wrap, L!Wrap, Stopped, L!Stopped,
         NoTask, L!NoTask
<1>2. IsStopped /\ [PlatformNext]_platformVars => IsStopped' /\ [L!Next]_(L!vars)
  <2> SUFFICES ASSUME IsStopped, [PlatformNext]_platformVars
               PROVE  IsStopped' /\ [L!Next]_(L!vars)
    OBVIOUS
  <2>1. CASE RunsLives /\ Lives!Next
    BY <2>1, PartStays, LivesSteps DEF IsStopped
  <2>2. CASE UNCHANGED platformVars
    BY <2>2 DEF IsStopped, platformVars, tableVars, vars, L!vars, handlerVars, L!handlerVars,
       clientVars, L!clientVars
  <2> QED BY <2>1, <2>2
     DEF IsStopped, PlatformNext, RunsTable, RunsPosix, RunsOne, RunsTwo, RunsUnits, RunsSlots
<1> QED BY <1>1, <1>2, PTL DEF PlatformSpec, L!Spec

LEMMA LivesRemoved == L!RemovedStaysRemoved => RemovedStaysRemoved
BY DEF L!RemovedStaysRemoved, RemovedStaysRemoved

LEMMA LivesShort == ShortDelays => L!ShortDelays
<1>1. \A n : L!TaskTicks(n) = TaskTicks(n)
  BY ZenonT(30)
     DEF TaskTicks, L!TaskTicks, AtLeastOne, L!AtLeastOne, TelOsMsToTicks,
         L!TelOsMsToTicks, AtMost, L!AtMost, Wrap, L!Wrap
<1> QED BY <1>1 DEF ShortDelays, L!ShortDelays

LEMMA SeqOfSubset ==
    ASSUME NEW S, NEW T, S \subseteq T, NEW q \in Seq(S)
    PROVE  q \in Seq(T)
OBVIOUS

\* A table of one task and two ids is one of any size.
LEMMA LivesTyped == L!TypeOK => TypeOK
<1> SUFFICES ASSUME L!TypeOK PROVE TypeOK
  OBVIOUS
<1>1. MaxDelayedTasks \in Nat /\ MaxDelayedTasks >= 1 /\ MaxTaskId \in Nat /\ MaxTaskId >= 2
  BY DelayedAssumption, PlatformAssumption
<1>2. 1 .. 2 \subseteq 1 .. MaxTaskId /\ 0 .. 2 \subseteq 0 .. MaxTaskId
  BY <1>1
<1>3. L!Ticks = Ticks
  BY DEF Ticks, L!Ticks, Wrap, L!Wrap
<1> DEFINE small == [id : 1 .. 2, due : Ticks, job : Jobs]
           large == [id : 1 .. MaxTaskId, due : Ticks, job : Jobs]
<1>4. delayed \in Seq(large)
  <2>1. delayed \in Seq(small)
    BY <1>3 DEF L!TypeOK
  <2>2. small \subseteq large
    BY <1>2
  <2> HIDE DEF small, large
  <2> QED BY <2>1, <2>2, SeqOfSubset
<1>5. Len(delayed) <= MaxDelayedTasks
  BY <1>1, <1>4 DEF L!TypeOK
<1>6. taskId \in [Jobs -> 0 .. MaxTaskId]
  BY <1>2 DEF L!TypeOK
<1> QED BY <1>2, <1>3, <1>4, <1>5, <1>6
   DEF L!TypeOK, TypeOK, Fate, L!Fate, Stopped, L!Stopped

-----------------------------------------------------------------------------
(***************************************************************************)
(* The platform.                                                           *)
(***************************************************************************)
\* ArmTimerLocked and OnTimerExpired never leave the next delayed task without
\* a timer while the handler is not stopped, and what RemoveAsyncTask or Stop
\* removed does not run, whether the handler is stopped or not.
THEOREM TableStaysWatched == ShortDelays /\ ~MayStop => (PlatformSpec => []TableIsWatched)
<1> SUFFICES ASSUME ShortDelays, ~MayStop PROVE PlatformSpec => []TableIsWatched
  OBVIOUS
<1>1. Spec => []TimerWatches
  BY NextIsWatched
<1>2. Spec => []RemovedStaysRemoved
  BY RemovedStay
<1>3. L!Spec => []L!RemovedStaysRemoved
  BY LivesAssumption, L!RemovedStay
<1>4. TimerWatches /\ RemovedStaysRemoved => TableIsWatched
  BY DEF TableIsWatched
<1>5. IsStopped /\ RemovedStaysRemoved => TableIsWatched
  BY DEF IsStopped, TableIsWatched
<1> QED BY <1>1, <1>2, <1>3, <1>4, <1>5, TableRuns, LivesRuns, LivesRemoved, PTL

\* A task of the CMSIS adapter runs the entry it was created with although its
\* slot is handed on once read (TaskTrampoline); no slot is lost when
\* osThreadNew fails; TelOsGetObjectCount counts what is alive; a timer is not
\* used after Delete freed it; a free timer slot holds no callback.
THEOREM AdapterStaysSound == ShortDelays => (PlatformSpec => []AdapterIsSound)
<1> SUFFICES ASSUME ShortDelays PROVE PlatformSpec => []AdapterIsSound
  OBVIOUS
<1>1. PlatformSpec => []TypeOK
  <2>1. Spec => []TypeOK
    BY TableTyped
  <2>2. L!Spec => []L!TypeOK
    BY LivesAssumption, LivesShort, L!TableTyped
  <2> QED BY <2>1, <2>2, TableRuns, LivesRuns, LivesTyped, PTL
<1>2. /\ PlatformSpec => []Posix!TypeOK
      /\ PlatformSpec => []Posix!CountIsLive
      /\ PlatformSpec => []Posix!NoDanglingTimer
  BY PosixRuns, PosixIsProved, PTL
<1>3. PlatformSpec => []Units!TypeOK
  BY UnitsRun, UnitsAreProved, PTL
<1>4. PlatformSpec => [](TwoSlots!TypeOK /\ TwoSlots!FreeSlotsAreClean)
  BY SlotsHold, SlotsAreProved, PTL
<1>5. /\ PlatformSpec => []TaskSlots!TypeOK
      /\ PlatformSpec => []TaskSlots!RunsOwnEntry
      /\ PlatformSpec => []TaskSlots!CountsTheLiving
      /\ PlatformSpec => []TaskSlots!SlotsAreAccountedFor
  BY TasksRun, TasksAreProved, PTL
<1>6. /\ TypeOK /\ Posix!TypeOK /\ Posix!CountIsLive /\ Posix!NoDanglingTimer
      /\ Units!TypeOK /\ TwoSlots!TypeOK /\ TwoSlots!FreeSlotsAreClean
      /\ TaskSlots!TypeOK /\ TaskSlots!RunsOwnEntry
      /\ TaskSlots!CountsTheLiving /\ TaskSlots!SlotsAreAccountedFor
      => AdapterIsSound
  BY DEF AdapterIsSound, TypesOK
<1> QED BY <1>1, <1>2, <1>3, <1>4, <1>5, <1>6, PTL

\* The timers of tel_os_adapter_posix.cpp, and on CMSIS the one timer that the
\* call manager makes, keep the contract of tel_os_adapter.h: no callback runs
\* after a successful Delete has returned, and none that was not armed.
THEOREM TimersKeepTheContract == PlatformSpec => TimersImplement
<1>1. PlatformSpec => Posix!Implements
  BY PosixRuns, PosixIsProved, PTL
<1>2. PlatformSpec => (part = "one" => OneSlot!Contract!Init)
  BY OneRunningInit DEF PlatformSpec
<1>3. PlatformSpec => [][part = "one" => OneTimer]_platformVars
  <2>1. PlatformInit => OneRunning
    BY OneRunningInit
  <2>2. B!SlotsSound /\ OneRunning /\ [PlatformNext]_platformVars
          => OneRunning' /\ [part = "one" => OneTimer]_platformVars
    BY OneRunningStep
  <2> QED BY <2>1, <2>2, SlotsHold, PTL DEF PlatformSpec
<1> QED BY <1>1, <1>2, <1>3, PTL DEF TimersImplement
=============================================================================
