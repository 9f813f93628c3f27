----------------------------- MODULE PosixTimers -----------------------------
(***************************************************************************)
(* The timers of tel_os_adapter_posix.cpp: one thread, the timer service,  *)
(* serves every timer.  Everything between a lock and the next unlock or   *)
(* wait is one step; callbacks run without the lock.  Callbacks may call   *)
(* the adapter, so the service thread is a caller too.  Ticks stand for    *)
(* nanoseconds.  The order of the list decides only between equal          *)
(* deadlines, and is left open.                                            *)
(***************************************************************************)
EXTENDS Integers, FiniteSets

CONSTANTS Timers,   \* the memory timer objects may be allocated in
          Tasks,    \* the tasks that call the adapter
          Service,  \* the service thread
          Delays,   \* the delays tasks ask for, in ticks
          MaxTime,  \* bound: the last tick
          None, Forever

Callers == Tasks \cup {Service}

VARIABLES objects,  \* the objects allocated
          timers,   \* TimerService::timers, those in the list
          armed,    \* PosixTimer::armed
          deadline, \* PosixTimer::deadlineNs
          running,  \* TimerService::running
          service,  \* where the service thread is
          until,    \* the end of its wait
          asleep,   \* the threads waiting on TimerService::cond
          call,     \* what each caller is in the middle of
          count,    \* g_timerCount
          now,      \* the clock
          answer    \* the last answer given

vars == <<objects, timers, armed, deadline, running, service, until, asleep,
          call, count, now, answer>>
listVars == <<objects, timers, count>>
armVars == <<armed, deadline>>
serviceVars == <<running, service, until>>

Idle == [op |-> "none", timer |-> None]
Calls == [op : {"none", "create", "delete"}, timer : Timers \cup {None}]
Answers == [timer : Timers \cup {None}, result : {"OK", "FAIL", "INVALID_PARAM"}]

TypeOK ==
    /\ objects \subseteq Timers
    /\ timers \subseteq Timers
    /\ armed \in [Timers -> BOOLEAN]
    /\ deadline \in [Timers -> 0..MaxTime]
    /\ running \in Timers \cup {None}
    /\ service \in {"scan", "wait", "taken", "call"}
    /\ until \in 0..MaxTime \cup {Forever}
    /\ asleep \subseteq Callers
    /\ call \in [Callers -> Calls]
    /\ count \in 0..Cardinality(Timers)
    /\ now \in 0..MaxTime
    /\ answer \in Answers

Init ==
    /\ objects = {} /\ timers = {}
    /\ armed = [t \in Timers |-> FALSE]
    /\ deadline = [t \in Timers |-> 0]
    /\ running = None
    /\ service = "scan" /\ until = Forever
    /\ asleep = {}
    /\ call = [c \in Callers |-> Idle]
    /\ count = 0
    /\ now = 0
    /\ answer = [timer |-> None, result |-> "OK"]

Answer(t, r) == answer' = [timer |-> t, result |-> r]

(* A caller free to make a call: a task, or the callback that runs. *)
Free(c) == call[c] = Idle /\ (c = Service => service = "call")

(* A timer whose handle its users still hold: made, and not being deleted. *)
Usable(t) ==
    /\ t \in timers
    /\ \A c \in Callers : call[c].timer # t

(* TelOsTimerCreate links the object under the lock, and counts it after. *)
Link(c) ==
    /\ Free(c)
    /\ \E t \in Timers \ objects :
        /\ objects' = objects \cup {t}
        /\ timers' = timers \cup {t}
        /\ armed' = [armed EXCEPT ![t] = FALSE]
        /\ deadline' = [deadline EXCEPT ![t] = 0]
        /\ call' = [call EXCEPT ![c] = [op |-> "create", timer |-> t]]
    /\ UNCHANGED <<serviceVars, asleep, count, now, answer>>

Created(c) ==
    /\ call[c].op = "create"
    /\ count' = count + 1
    /\ Answer(call[c].timer, "OK")
    /\ call' = [call EXCEPT ![c] = Idle]
    /\ UNCHANGED <<objects, timers, armVars, serviceVars, asleep, now>>

(* Mutant: Start does not wake the service thread. *)
StartMutant(c, t, d) ==
    /\ Free(c) /\ Usable(t)
    /\ now + d <= MaxTime
    /\ deadline' = [deadline EXCEPT ![t] = now + d]
    /\ armed' = [armed EXCEPT ![t] = TRUE]
    /\ Answer(t, "OK")
    /\ UNCHANGED <<listVars, serviceVars, asleep, call, now>>

Start(c, t, d) ==
    /\ Free(c) /\ Usable(t)
    /\ now + d <= MaxTime
    /\ deadline' = [deadline EXCEPT ![t] = now + d]
    /\ armed' = [armed EXCEPT ![t] = TRUE]
    /\ asleep' = {}
    /\ Answer(t, "OK")
    /\ UNCHANGED <<listVars, serviceVars, call, now>>

Stop(c, t) ==
    /\ Free(c) /\ Usable(t)
    /\ Answer(t, IF armed[t] THEN "OK" ELSE "FAIL")
    /\ armed' = [armed EXCEPT ![t] = FALSE]
    /\ UNCHANGED <<listVars, deadline, serviceVars, asleep, call, now>>

(* TelOsTimerDelete refuses the callback's own timer and one not in the    *)
(* list; it looks for it there without touching the object.                *)
RefuseDelete(c, t) ==
    /\ Free(c)
    /\ \A other \in Callers : call[other] # [op |-> "create", timer |-> t]
    /\ (running = t /\ c = Service) \/ t \notin timers
    /\ Answer(t, "INVALID_PARAM")
    /\ UNCHANGED <<listVars, armVars, serviceVars, asleep, call, now>>

(* It unlinks the object before it waits for the callback to end.          *)
Unlink(c, t) ==
    /\ Free(c) /\ Usable(t)
    /\ ~(running = t /\ c = Service)
    /\ timers' = timers \ {t}
    /\ call' = [call EXCEPT ![c] = [op |-> "delete", timer |-> t]]
    /\ asleep' = IF running = t THEN asleep \cup {c} ELSE asleep
    /\ UNCHANGED <<objects, armVars, serviceVars, count, now, answer>>

(* Woken, it looks again whether the callback still runs.                  *)
WaitAgain(c) ==
    /\ call[c].op = "delete" /\ c \notin asleep
    /\ running = call[c].timer
    /\ asleep' = asleep \cup {c}
    /\ UNCHANGED <<listVars, armVars, serviceVars, call, now, answer>>

Deleted(c) ==
    /\ call[c].op = "delete" /\ c \notin asleep
    /\ running # call[c].timer
    /\ objects' = objects \ {call[c].timer}
    /\ count' = count - 1
    /\ Answer(call[c].timer, "OK")
    /\ call' = [call EXCEPT ![c] = Idle]
    /\ UNCHANGED <<timers, armVars, serviceVars, asleep, now>>

(* TimerServiceLoop: the earliest armed timer is taken if it is due, and   *)
(* waited for if it is not.                                                *)
Earliest(t) ==
    /\ t \in timers /\ armed[t]
    /\ \A u \in timers : armed[u] => deadline[t] <= deadline[u]

Wait ==
    /\ service = "scan"
    /\ \/ /\ \A t \in timers : ~armed[t]
          /\ until' = Forever
       \/ \E t \in timers : Earliest(t) /\ now < deadline[t] /\ until' = deadline[t]
    /\ service' = "wait"
    /\ asleep' = asleep \cup {Service}
    /\ UNCHANGED <<listVars, armVars, running, call, now, answer>>

Wake ==
    /\ service = "wait"
    /\ Service \notin asleep \/ (until # Forever /\ now >= until)
    /\ service' = "scan"
    /\ asleep' = asleep \ {Service}
    /\ until' = Forever
    /\ UNCHANGED <<listVars, armVars, running, call, now, answer>>

Take ==
    /\ service = "scan"
    /\ \E t \in timers :
        /\ Earliest(t) /\ now >= deadline[t]
        /\ armed' = [armed EXCEPT ![t] = FALSE]
        /\ running' = t
    /\ service' = "taken"
    /\ UNCHANGED <<listVars, deadline, until, asleep, call, now, answer>>

Run ==
    /\ service = "taken"
    /\ service' = "call"
    /\ UNCHANGED <<listVars, armVars, running, until, asleep, call, now, answer>>

(* A callback returns once the calls it made have.                         *)
Return ==
    /\ service = "call" /\ call[Service] = Idle
    /\ running' = None
    /\ service' = "scan"
    /\ asleep' = {}
    /\ UNCHANGED <<listVars, armVars, until, call, now, answer>>

Tick ==
    /\ now < MaxTime
    /\ now' = now + 1
    /\ UNCHANGED <<listVars, armVars, serviceVars, asleep, call, answer>>

ServiceStep == Wait \/ Wake \/ Take \/ Run \/ Return
Continue(c) == Created(c) \/ WaitAgain(c) \/ Deleted(c)

Next ==
    \/ \E c \in Callers :
        \/ Link(c)
        \/ Continue(c)
        \/ \E t \in Timers :
            \/ \E d \in Delays : Start(c, t, d)
            \/ Stop(c, t) \/ RefuseDelete(c, t) \/ Unlink(c, t)
    \/ ServiceStep
    \/ Tick

Spec == Init /\ [][Next]_vars

(* The clock advances, the service thread runs, a call once begun goes on: *)
(* threads of one process, none of them starved.  A callback makes some    *)
(* calls and returns, as tel_os_adapter.h demands.                         *)
Fairness ==
    /\ WF_vars(ServiceStep)
    /\ SF_vars(Return)
    /\ WF_vars(Tick)
    /\ \A c \in Callers : WF_vars(Continue(c))


-----------------------------------------------------------------------------
(* The timers as the adapter's users see them. *)
Creating(t) == \E c \in Callers : call[c] = [op |-> "create", timer |-> t]

timerState ==
    [t \in Timers |->
        IF t \notin objects \/ Creating(t) THEN "none"
        ELSE IF t \notin timers THEN "closing"
        ELSE IF armed[t] THEN "pending" ELSE "idle"]

Contract == INSTANCE OsTimers WITH
    state <- timerState,
    due <- [t \in Timers |-> IF service = "taken" /\ running = t THEN 1 ELSE 0],
    running <- IF service = "call" THEN running ELSE None

(* The POSIX timers implement the contract of tel_os_adapter.h: a callback *)
(* per arming at most, none of a timer stopped in time, none once          *)
(* TelOsTimerDelete has returned, and answers that say what happened.      *)
Implements == Contract!Spec

(* When no call is in progress g_timerCount is the number of timers there  *)
(* are, so TelOsGetObjectCount tells the truth; every one is in the list.  *)
CountIsLive ==
    (\A c \in Callers : call[c] = Idle) => count = Cardinality(objects) /\ timers = objects

(* Nothing waits for a timer that was freed: the service thread holds, and *)
(* Delete waits for, objects that are still allocated.                     *)
NoDanglingTimer ==
    /\ running # None => running \in objects
    /\ \A c \in Callers : call[c].timer # None => call[c].timer \in objects

(* An armed timer fires unless it is stopped, deleted or armed again, also *)
(* when the service thread sleeps towards a later deadline or for good.    *)
ArmedFires ==
    \A t \in Timers : (t \in timers /\ armed[t]) ~> ~(t \in timers /\ armed[t])

(* TelOsTimerDelete returns, whatever the callback it waits for does.      *)
DeleteReturns ==
    \A c \in Callers : (call[c].op = "delete") ~> (call[c].op # "delete")
=============================================================================
