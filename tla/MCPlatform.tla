----------------------------- MODULE MCPlatform -----------------------------
(***************************************************************************)
(* What the main loop stands on: the delayed tasks with a handler that is  *)
(* never stopped (table) or is (lives), and the parts of the OS adapter,   *)
(* the timers on POSIX and CMSIS, the POSIX semaphore and the CMSIS tasks. *)
(* None of them shares state with another, so a behaviour runs one of them *)
(* and leaves the others where they start.                                 *)
(***************************************************************************)
EXTENDS DelayedTasks

CONSTANTS t1, t2, u, v, w, service, timerTask, none, forever

VARIABLES
    part,   \* the part that runs
    objects, timers, armed, deadline, served, thread, until, asleep,
    posixCall, posixCount, clock, posixAnswer,
    used, inCallback, callback, kernel, queue, running, cmsisCall, cmsisCount,
    cmsisAnswer,
    units, waiter, limit, result,
    taken, entry, creator, task, taskCount

tableVars == vars
posixVars == <<objects, timers, armed, deadline, served, thread, until, asleep,
               posixCall, posixCount, clock, posixAnswer>>
cmsisVars == <<used, inCallback, callback, kernel, queue, running, cmsisCall,
               cmsisCount, cmsisAnswer>>
unitVars == <<units, waiter, limit, result>>
slotVars == <<taken, entry, creator, task, taskCount>>
platformVars == <<part, tableVars, posixVars, cmsisVars, unitVars, slotVars>>

\* One delay and two ids are enough to tell what survives a Stop.
Lives == INSTANCE DelayedTasks WITH
    MayStop <- TRUE, MaxDelayedTasks <- 1, Delays <- {1}, MaxTaskId <- 2

Posix == INSTANCE PosixTimers WITH
    Timers <- {t1, t2}, Tasks <- {u}, Service <- service, Delays <- {1, 2},
    MaxTime <- 2, None <- none, Forever <- forever,
    running <- served, service <- thread, call <- posixCall,
    count <- posixCount, now <- clock, answer <- posixAnswer

\* The contract is that of the one timer the call manager makes, in the first of
\* two slots; slots are reused and Delete makes progress with a second one too.
OneSlot == INSTANCE CmsisTimers WITH
    Slots <- {t1}, Tasks <- {u, v}, TimerTask <- timerTask, MaxQueue <- 2,
    None <- none, call <- cmsisCall, count <- cmsisCount, answer <- cmsisAnswer
TwoSlots == INSTANCE CmsisTimers WITH
    Slots <- {t1, t2}, Tasks <- {u, v}, TimerTask <- timerTask, MaxQueue <- 2,
    None <- none, call <- cmsisCall, count <- cmsisCount, answer <- cmsisAnswer

Units == INSTANCE Semaphores WITH
    Users <- {u, v, w}, InitialCount <- 0, MaxCount <- 2,
    count <- units, pc <- waiter

TaskSlots == INSTANCE CmsisTasks WITH
    Creators <- {u, v}, NSlots <- 2, NTasks <- 2, None <- none,
    used <- taken, count <- taskCount

\* The table of Lives is one of this size.
ASSUME PlatformAssumption ==
    1 \in Delays /\ MaxTaskId >= 2 /\ none \notin {t1, t2}

PlatformInit ==
    /\ part \in {"table", "lives", "posix", "one", "two", "units", "slots"}
    /\ Init /\ (part \notin {"table", "lives"} => now = 0)
    /\ Posix!Init
    /\ TwoSlots!Init
    /\ Units!Init
    /\ TaskSlots!Init

RunsTable == part = "table" /\ UNCHANGED <<part, posixVars, cmsisVars, unitVars, slotVars>>
RunsLives == part = "lives" /\ UNCHANGED <<part, posixVars, cmsisVars, unitVars, slotVars>>
RunsPosix == part = "posix" /\ UNCHANGED <<part, tableVars, cmsisVars, unitVars, slotVars>>
RunsOne == part = "one" /\ UNCHANGED <<part, tableVars, posixVars, unitVars, slotVars>>
RunsTwo == part = "two" /\ UNCHANGED <<part, tableVars, posixVars, unitVars, slotVars>>
RunsUnits == part = "units" /\ UNCHANGED <<part, tableVars, posixVars, cmsisVars, slotVars>>
RunsSlots == part = "slots" /\ UNCHANGED <<part, tableVars, posixVars, cmsisVars, unitVars>>

PlatformNext ==
    \/ RunsTable /\ Next
    \/ RunsLives /\ Lives!Next
    \/ RunsPosix /\ Posix!Next
    \/ RunsOne /\ OneSlot!Next
    \/ RunsTwo /\ TwoSlots!Next
    \/ RunsUnits /\ Units!PosixNext
    \/ RunsSlots /\ TaskSlots!Next

PlatformSpec == PlatformInit /\ [][PlatformNext]_platformVars

\* A delay matters only between the check and the insertion, and a task that
\* ran is as one that was never posted.
View == <<handlerVars, now, delayed, lastTaskId, timer, timerQueued, due, pc,
          [j \in Jobs |-> IF pc[j] = "post" THEN delay[j] ELSE 0], taskId,
          [j \in Jobs |-> IF fate[j] = "ran" THEN "none" ELSE fate[j]],
          part, posixVars, cmsisVars, unitVars, slotVars>>

-----------------------------------------------------------------------------
\* The next delayed task to fall due is watched while the handler runs
\* (ArmTimerLocked, OnTimerExpired), unless a Stop left it behind; and no task
\* is waiting to run that RemoveAsyncTask or Stop said was removed.
TableIsWatched == (part = "table" => TimerWatches) /\ RemovedStaysRemoved

\* Every delayed task that was posted is run or removed, provided that the
\* tick counter, the kernel's timer task and the loop task keep going.
TableIsServed ==
    part = "table" /\ Fairness => PostedIsSettled

\* The timers of both adapters keep the contract of tel_os_adapter.h
\* (OsTimers); those on CMSIS for one timer.
OneTimer == [OneSlot!Contract!Next]_(OneSlot!Contract!vars)
TimersImplement ==
    /\ Posix!Implements
    /\ part = "one" => OneSlot!Contract!Init
    /\ [][part = "one" => OneTimer]_platformVars

\* On POSIX an armed timer fires, stopped or armed anew; on both, Delete
\* returns, whatever the callback it waits for does.
PosixTimersProgress ==
    part = "posix" /\ Posix!Fairness => Posix!ArmedFires /\ Posix!DeleteReturns
CmsisTimersProgress ==
    part = "two" /\ TwoSlots!Fairness => TwoSlots!DeleteReturns
TimersProgress == PosixTimersProgress /\ CmsisTimersProgress

\* No unit of a semaphore is missed: a wait ends with TIMEOUT only while
\* there is none, and with units left no sleeper sleeps for ever.
UnitsArrive ==
    /\ Units!NoUnitMissed
    /\ part = "units" /\ Units!PosixFairness => Units!UnitReachesWaiter

TypesOK ==
    /\ TypeOK /\ Posix!TypeOK /\ TwoSlots!TypeOK
    /\ Units!TypeOK /\ TaskSlots!TypeOK

\* Tasks run the entry they were created with, although slots are handed on
\* as soon as it has been read; no slot is lost, no timer is used after it was
\* freed, and TelOsGetObjectCount counts what there is.
AdapterIsSound ==
    /\ TypesOK
    /\ TaskSlots!RunsOwnEntry /\ TaskSlots!CountsTheLiving /\ TaskSlots!SlotsAreAccountedFor
    /\ Posix!CountIsLive /\ Posix!NoDanglingTimer
    /\ TwoSlots!FreeSlotsAreClean
=============================================================================
