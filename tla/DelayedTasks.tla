----------------------------- MODULE DelayedTasks -----------------------------
(***************************************************************************)
(* The delayed tasks of LosEventHandler with their identities and their    *)
(* due ticks: a table ordered by due tick and served by one one-shot       *)
(* timer.  The tick counter wraps; due ticks are compared by their signed  *)
(* distance.  LosEventHandler models the same table as a counter, among    *)
(* the interleavings of the whole handler; here the queue, the semaphores  *)
(* and the waiters are left out and time is real.                          *)
(*                                                                         *)
(* A post or a removal is two steps, the state check and the section under *)
(* lock_.  Reads of the tick counter within one such section are taken at  *)
(* one moment.                                                             *)
(***************************************************************************)
EXTENDS Integers, Sequences

CONSTANTS
    Jobs,               \* the tasks that are posted, each by its own poster
    HalfWrap,           \* half the range of the tick counter (2^31)
    TickFreq,           \* TelOsGetTickFreq, ticks per second
    Delays,             \* the delays posted, in milliseconds
    MaxDelayedTasks,    \* Config::maxDelayedTasks
    MaxTaskId,          \* largest TelMiniTaskId (2^32 - 1)
    MayStop,            \* does the owner ever call Stop
    LoopLag,            \* bound: by how many ticks the timer task and the
                        \* loop may be late
    MaxLag              \* bound: by how many ticks a task may be late

Wrap == 2 * HalfWrap
Ticks == 0 .. Wrap - 1

ASSUME DelayedAssumption ==
    /\ HalfWrap \in Nat \ {0}
    /\ TickFreq \in Nat
    /\ Delays \subseteq Nat \ {0}
    /\ MaxDelayedTasks \in Nat \ {0}
    /\ MaxTaskId \in Nat \ {0}
    /\ LoopLag \in Nat
    /\ MaxLag \in Nat
    /\ MayStop \in BOOLEAN

NoTask == 0     \* TEL_MINI_INVALID_TASK_ID
Stopped == -1   \* a timer that is not counting

VARIABLES
    state,          \* state_
    owner,          \* program point of the task that calls Init and Stop
    now,            \* TelOsGetTickCount
    delayed,        \* delayed_
    lastTaskId,     \* lastTaskId_
    timer,          \* ticks until timer_ expires; 0: its callback is due
    timerQueued,    \* timerMessageQueued_: the message is in the queue
    due,            \* the local list of RunDueTasks
    pc, delay, taskId,  \* each job's poster: program point, the delay asked
                        \* for and the id received
    fate            \* what became of each job since it was last posted

handlerVars == <<state, owner>>
clientVars == <<pc, delay, taskId>>
vars == <<handlerVars, now, delayed, lastTaskId, timer, timerQueued, due,
          clientVars, fate>>

Fate == {"none", "posted", "removed", "ran", "dropped"}

TypeOK ==
    /\ state \in {"UNINIT", "RUNNING", "STOPPING"}
    /\ owner \in {"idle", "drop", "wait"}
    /\ now \in Ticks
    /\ delayed \in Seq([id : 1 .. MaxTaskId, due : Ticks, job : Jobs])
    /\ Len(delayed) <= MaxDelayedTasks
    /\ lastTaskId \in 0 .. MaxTaskId
    /\ timer \in Nat \cup {Stopped}
    /\ timerQueued \in BOOLEAN
    /\ due \in Seq(Jobs)
    /\ pc \in [Jobs -> {"idle", "post", "remove"}]
    /\ delay \in [Jobs -> Delays]
    /\ taskId \in [Jobs -> 0 .. MaxTaskId]
    /\ fate \in [Jobs -> Fate]

Init ==
    /\ state = "RUNNING" /\ owner = "idle"
    /\ now \in Ticks
    /\ delayed = <<>> /\ lastTaskId = NoTask
    /\ timer = Stopped /\ timerQueued = FALSE
    /\ due = <<>>
    /\ pc = [j \in Jobs |-> "idle"]
    /\ delay \in [Jobs -> Delays]
    /\ taskId = [j \in Jobs |-> NoTask]
    /\ fate = [j \in Jobs |-> "none"]

-----------------------------------------------------------------------------
(***************************************************************************)
(* Tick arithmetic, on 32-bit counters.                                    *)
(***************************************************************************)
Plus(a, b) == IF a + b < Wrap THEN a + b ELSE a + b - Wrap
Minus(a, b) == IF b <= a THEN a - b ELSE a - b + Wrap

\* static_cast<int32_t>(a - b)
SignedDistance(a, b) ==
    IF Minus(a, b) < HalfWrap THEN Minus(a, b) ELSE Minus(a, b) - Wrap

IsDueMutant(dueTick, t) == dueTick <= t
IsDue(dueTick, t) == SignedDistance(dueTick, t) <= 0

\* Both conversions round up and clamp below TEL_OS_WAIT_FOREVER.
AtMost(n, max) == IF n <= max THEN n ELSE max

TelOsMsToTicks(ms) ==
    IF ms = Wrap - 1 THEN ms
    ELSE IF TickFreq = 0 THEN ms
    ELSE AtMost((ms * TickFreq + 999) \div 1000, Wrap - 2)

TicksToMs(ticks) ==
    IF TickFreq = 0 THEN ticks
    ELSE AtMost((ticks * 1000 + TickFreq - 1) \div TickFreq, Wrap - 2)

\* The ticks a task waits, and those the kernel counts for a timer.
AtLeastOne(n) == IF n = 0 THEN 1 ELSE n
TaskTicks(ms) == AtLeastOne(TelOsMsToTicks(ms))
TelOsTimerStart(ms) == AtLeastOne(TelOsMsToTicks(ms))

-----------------------------------------------------------------------------
(***************************************************************************)
(* The table.                                                              *)
(***************************************************************************)
InsertAt(s, n, e) ==
    [i \in 1 .. Len(s) + 1 |->
        IF i <= n THEN s[i] ELSE IF i = n + 1 THEN e ELSE s[i - 1]]

RemoveAt(s, n) == [i \in 1 .. Len(s) - 1 |-> IF i < n THEN s[i] ELSE s[i + 1]]

\* The entry goes behind n others: behind those it is not due before, and
\* then behind those with the same due tick.
GoesBehind(tick, n) ==
    \E first \in 0 .. n :
        /\ \A i \in 1 .. first : ~IsDue(tick, delayed[i].due)
        /\ first < Len(delayed) => IsDue(tick, delayed[first + 1].due)
        /\ \A i \in first + 1 .. n : delayed[i].due = tick
        /\ n < Len(delayed) => delayed[n + 1].due # tick

\* ArmTimerLocked, for the table it leaves behind.
ArmTimerMutant(table) ==
    timer' = IF table = <<>> \/ IsDue(table[1].due, now) THEN Stopped
             ELSE TelOsTimerStart(TicksToMs(Minus(table[1].due, now)))
ArmTimer(table) ==
    timer' = IF table = <<>> THEN Stopped
             ELSE TelOsTimerStart(TicksToMs(
                      IF IsDue(table[1].due, now) THEN 1
                      ELSE Minus(table[1].due, now)))

\* ++lastTaskId_, past the invalid id.
NextTaskId == IF lastTaskId = MaxTaskId THEN 1 ELSE lastTaskId + 1

IdIsFree(id) == \A i \in 1 .. Len(delayed) : delayed[i].id # id

\* Bound: an id is not given out again while a task that has it waits or a
\* poster holds it.  In the code it comes back after 2^32 - 1 further posts.
IdIsForgotten(id) == IdIsFree(id) /\ \A j \in Jobs : taskId[j] # id

-----------------------------------------------------------------------------
(***************************************************************************)
(* Posting and removing.                                                   *)
(***************************************************************************)
Settled(j) == fate[j] # "posted"

\* LosEventHandlerCall: the call is counted and sees the handler running.
BeginPost(j) ==
    /\ pc[j] = "idle" /\ Settled(j)
    /\ state = "RUNNING"
    /\ \E d \in Delays : delay' = [delay EXCEPT ![j] = d]
    /\ pc' = [pc EXCEPT ![j] = "post"]
    /\ UNCHANGED <<handlerVars, now, delayed, lastTaskId, timer, timerQueued,
                   due, taskId, fate>>

\* Inserts the entry behind n others, and re-arms the timer for the earliest.
Insert(j, n) ==
    LET entry == [id |-> NextTaskId, due |-> Plus(now, TaskTicks(delay[j])),
                  job |-> j]
    IN /\ GoesBehind(entry.due, n)
       /\ delayed' = InsertAt(delayed, n, entry)
       /\ IF n = 0 THEN ArmTimer(delayed') ELSE UNCHANGED timer
       /\ lastTaskId' = NextTaskId
       /\ taskId' = [taskId EXCEPT ![j] = NextTaskId]
       /\ fate' = [fate EXCEPT ![j] = "posted"]

\* PostAsyncTask under the lock: refused when the table is full.
PostAsyncTask(j) ==
    /\ pc[j] = "post"
    /\ pc' = [pc EXCEPT ![j] = "idle"]
    /\ \/ /\ Len(delayed) >= MaxDelayedTasks
          /\ UNCHANGED <<delayed, lastTaskId, timer, taskId, fate>>
       \/ /\ Len(delayed) < MaxDelayedTasks
          /\ IdIsForgotten(NextTaskId)
          /\ \E n \in 0 .. Len(delayed) : Insert(j, n)
    /\ UNCHANGED <<handlerVars, now, timerQueued, due, delay>>

BeginRemove(j) ==
    /\ pc[j] = "idle" /\ taskId[j] # NoTask
    /\ state = "RUNNING"
    /\ pc' = [pc EXCEPT ![j] = "remove"]
    /\ UNCHANGED <<handlerVars, now, delayed, lastTaskId, timer, timerQueued,
                   due, delay, taskId, fate>>

\* RemoveAsyncTask under the lock: the entry with the id leaves the table,
\* and the timer is re-armed when that was the earliest.  The poster forgets
\* its id either way.
RemoveAsyncTask(j) ==
    /\ pc[j] = "remove"
    /\ pc' = [pc EXCEPT ![j] = "idle"]
    /\ taskId' = [taskId EXCEPT ![j] = NoTask]
    /\ \/ /\ IdIsFree(taskId[j])
          /\ UNCHANGED <<delayed, timer, fate>>
       \/ \E n \in 1 .. Len(delayed) :
             /\ delayed[n].id = taskId[j]
             /\ delayed' = RemoveAt(delayed, n)
             /\ IF n = 1 THEN ArmTimer(delayed') ELSE UNCHANGED timer
             /\ fate' = [fate EXCEPT ![j] = "removed"]
    /\ UNCHANGED <<handlerVars, now, lastTaskId, timerQueued, due, delay>>

-----------------------------------------------------------------------------
(***************************************************************************)
(* Time, the timer and the loop.                                           *)
(***************************************************************************)
Lag(i) == -SignedDistance(delayed[i].due, now)

\* Bounds: a timer that was started again makes a task later than the timer
\* task and the loop alone would.
Tick ==
    /\ \A i \in 1 .. Len(delayed) :
          Lag(i) < MaxLag /\ (timer > 0 \/ Lag(i) < LoopLag)
    /\ now' = Plus(now, 1)
    /\ timer' = IF timer > 0 THEN timer - 1 ELSE timer
    /\ UNCHANGED <<handlerVars, delayed, lastTaskId, timerQueued, due,
                   clientVars, fate>>

\* OnTimerExpired: queues the one timer message while the handler runs.
TimerExpired ==
    /\ timer = 0
    /\ timer' = Stopped
    /\ timerQueued' = (timerQueued \/ state = "RUNNING")
    /\ UNCHANGED <<handlerVars, now, delayed, lastTaskId, due, clientVars,
                   fate>>

\* The entries RunDueTasks takes out: as long as the first one is due.
DuePrefix(n) ==
    /\ \A i \in 1 .. n : IsDue(delayed[i].due, now)
    /\ n < Len(delayed) => ~IsDue(delayed[n + 1].due, now)

\* The loop takes the timer message: RunDueTasks under the lock.
RunDueTasks ==
    /\ timerQueued /\ state = "RUNNING" /\ due = <<>>
    /\ timerQueued' = FALSE
    /\ \E n \in 0 .. Len(delayed) :
          /\ DuePrefix(n)
          /\ due' = [i \in 1 .. n |-> delayed[i].job]
          /\ delayed' = [i \in 1 .. Len(delayed) - n |-> delayed[i + n]]
    /\ ArmTimer(delayed')
    /\ UNCHANGED <<handlerVars, now, lastTaskId, clientVars, fate>>

\* The tasks taken out run in order, outside the lock.
RunTask ==
    /\ due # <<>>
    /\ fate' = [fate EXCEPT ![due[1]] = "ran"]
    /\ due' = Tail(due)
    /\ UNCHANGED <<handlerVars, now, delayed, lastTaskId, timer, timerQueued,
                   clientVars>>

\* A timer message that the loop finds after Stop is recycled.
RecycleTimerMessage ==
    /\ timerQueued /\ state # "RUNNING" /\ due = <<>>
    /\ timerQueued' = FALSE
    /\ UNCHANGED <<handlerVars, now, delayed, lastTaskId, timer, due,
                   clientVars, fate>>

-----------------------------------------------------------------------------
(***************************************************************************)
(* Stop and Init, by the owner task.                                       *)
(***************************************************************************)
StopBegin ==
    /\ MayStop
    /\ owner = "idle" /\ state = "RUNNING"
    /\ state' = "STOPPING"
    /\ owner' = "drop"
    /\ timer' = Stopped
    /\ UNCHANGED <<now, delayed, lastTaskId, timerQueued, due, clientVars,
                   fate>>

\* dropped.swap(delayed_)
DropAll == delayed' = <<>>

StopDrop ==
    /\ owner = "drop"
    /\ owner' = "wait"
    /\ fate' = [j \in Jobs |->
                   IF \E i \in 1 .. Len(delayed) : delayed[i].job = j
                   THEN "dropped" ELSE fate[j]]
    /\ DropAll
    /\ UNCHANGED <<state, now, lastTaskId, timer, timerQueued, due,
                   clientVars>>

\* No call is in progress, the loop has ended and the timer message is back:
\* the timer and the other kernel objects go.  The table is not looked at.
StopRelease ==
    /\ owner = "wait"
    /\ \A j \in Jobs : pc[j] = "idle"
    /\ ~timerQueued /\ due = <<>>
    /\ state' = "UNINIT"
    /\ owner' = "idle"
    /\ timer' = Stopped
    /\ UNCHANGED <<now, delayed, lastTaskId, timerQueued, due, clientVars,
                   fate>>

\* Init creates the timer anew; delayed_ and lastTaskId_ are as they were.
InitAgain ==
    /\ owner = "idle" /\ state = "UNINIT"
    /\ state' = "RUNNING"
    /\ UNCHANGED <<owner, now, delayed, lastTaskId, timer, timerQueued, due,
                   clientVars, fate>>

Loop == RunDueTasks \/ RunTask \/ RecycleTimerMessage
Owner == StopBegin \/ StopDrop \/ StopRelease \/ InitAgain
Poster(j) == BeginPost(j) \/ PostAsyncTask(j) \/ BeginRemove(j)
                \/ RemoveAsyncTask(j)

Next ==
    \/ \E j \in Jobs : Poster(j)
    \/ Tick
    \/ TimerExpired
    \/ Loop
    \/ Owner

Spec == Init /\ [][Next]_vars

\* The tick counter, the kernel's timer task and the loop task keep going.
Fairness == WF_vars(Tick) /\ WF_vars(TimerExpired) /\ WF_vars(Loop)

-----------------------------------------------------------------------------
(***************************************************************************)
(* What the table should do.                                               *)
(***************************************************************************)
\* The delays for which the signed distance is right: shorter than half the
\* range by more than the loop is ever late.
ShortDelays ==
    /\ MaxLag < HalfWrap
    /\ \A d \in Delays : TaskTicks(d) + MaxLag < HalfWrap

\* The table as TimedTable sees it: what each task has left, on a clock that
\* does not wrap.
Timed == INSTANCE TimedTable WITH
    Delays <- {TaskTicks(d) : d \in Delays},
    MaxTasks <- MaxDelayedTasks,
    pending <- [i \in 1 .. Len(delayed) |->
                   [job |-> delayed[i].job,
                    left |-> SignedDistance(delayed[i].due, now)]],
    taken <- due

\* No task is run early, out of the order of the due ticks, twice or after it
\* was removed, wherever the tick counter wraps (IsDue, PostAsyncTask,
\* RemoveAsyncTask, RunDueTasks).
ImplementsTimedTable == Timed!Spec

\* While the handler runs, the next task to fall due is watched: the timer
\* message is queued, or the timer counts and expires no later than a tick
\* and the rounding of the conversions after the task falls due.
Rounding == TelOsTimerStart(TicksToMs(1))
TimerWatches ==
    state = "RUNNING" /\ delayed # <<>> =>
        \/ timerQueued
        \/ /\ timer # Stopped
           /\ \/ timer <= Rounding
              \/ timer <= SignedDistance(delayed[1].due, now) + Rounding

\* RemoveAsyncTask said that a task was removed: it does not run after that,
\* unless it is posted again; and an id that was given out names at most one
\* waiting task.
RemovedStaysRemoved ==
    \A j \in Jobs : fate[j] \in {"removed", "dropped"} =>
        /\ \A i \in 1 .. Len(due) : due[i] # j
        /\ \A i \in 1 .. Len(delayed) : delayed[i].job # j

\* Every task that was posted is run, removed or dropped by Stop.
PostedIsSettled == \A j \in Jobs : fate[j] = "posted" ~> Settled(j)

\* Stop recycles what is left: a handler that is not initialised keeps no
\* delayed task (los_event_handler.h, "recycles what is left").
NothingLeftByStop == state = "UNINIT" => delayed = <<>>

\* IsDue orders due ticks as long as every delay is shorter than half the
\* range of the counter (the comment above IsDue): a task in front of another
\* is not due later.
OrderedByDueTick ==
    \A i, k \in 1 .. Len(delayed) :
        i < k => SignedDistance(delayed[i].due, now)
                    <= SignedDistance(delayed[k].due, now)
=============================================================================
