# TLA+ models of the mini call manager

These modules model the LiteOS-M ("mini") build of the telephony call manager:
the main loop every component runs on and the adapters below it, the call core
that lives on it with its conferences and records, and the service, client and
uplink registrations around the core. TLC checks them on small instances, TLAPS
proves the central facts for every size.

    tlc -workers 2 -config LosEventHandler_lifecycle.cfg MCLosEventHandler
    tlapm LosEventHandlerProofs.tla

The runs are listed in PROJECT.json, each with its module and configuration.
Every `*Proofs.tla` is checked by tlapm alone.

## 1. The system

One task, the main loop, owns all call state. Clients reach it with synchronous
posts (a bounded wait on a waiter slot), the protocol stack with asynchronous
ones, and delayed tasks come back to it through one software timer. Nothing of
the call core runs anywhere else, so the core is sequential between tasks of the
loop, while the loop itself is the concurrent part.

| Component | State | Operations | Interacts with |
|---|---|---|---|
| Main loop, `los_event_handler.cpp` | life-cycle state, ring and its semaphore, waiter slots and semaphores, delayed table, one timer, number of calls in progress | Init, Stop, PostAsyncTask (with and without delay), RemoveAsyncTask, PostSyncTask, the loop task, the timer callback | every component posts to it; uses the OS adapter |
| Call object table, `call_object_manager.cpp`, `call_base.cpp`, `carrier_call.cpp` | ordered list of calls, last call id | add, delete, find by id / index / index and slot / state, limits | read and written by both call directions |
| Uplink states, `call_status_manager.cpp` | last list reported by each slot | one handler for each reported state, list reports, event results | table, pending flags, subscribers, stack |
| Downlink control, `call_control_manager.cpp`, `call_policy.cpp`, `call_request_handler.cpp`, `call_request_process.cpp` | data of the last dial, the protect task | dial, answer, reject, hang up, hold, unhold, switch, end | policy at the client call, then a task of the loop |
| Pending flags, `call_request_event_handler_helper.cpp` | pending dial, pending hang-up | set and clear | between downlink and uplink |
| Audio, `audio_control_manager.cpp` | ringtone, waiting tone, call audio | follows the broadcast states | subscriber |
| Callback guard, `call_status_callback_guard.cpp` | none | validates a report and posts it | stack to loop |
| Cellular connection, `cellular_call_connection.cpp` | registered, initialised | commands, callback registration | loop to stack |
| Conferences, `conference_base.cpp`, `cs_conference.cpp`, `ims_conference.cpp` | host, participants and state of one CS and one IMS conference, the conference state of each call | launch, join, leave, hold, limits | read and written by reports, event results, hang-ups and dials; singletons that outlive the service |
| Call record, `call_base.cpp`, `call_status_manager.cpp` | times, states, media mode, answer type of a call | set by each report, copied to the object that replaces a call | handed to the application |
| Pointers, `refbase.cpp`, `refbase.h` | strong and weak count of every object | copy, drop, watch, promote | every object of the core, shared by tasks |
| Registry, `tel_mini_registry.cpp` | current stack, ready listeners | register and withdraw a stack, add and remove a listener | stack's task, loop |
| Service, `call_manager_service.cpp` | ready flag | start, stop, init with roll-back, permission checks | owner's task, loop |
| Report proxy, `call_ability_report_proxy.cpp` | registered callback | register, unregister, report | loop |
| Client, `call_manager_client.cpp`, `call_manager_proxy.cpp` | initialised, registered, callback | init, uninit, register, every call | application tasks to loop, and the callback on the loop |
| OS adapter, `tel_os_*.cpp` | kernel objects | semaphores, mutexes, timers, ticks | main loop |

What is hard here, and what has to hold:

* **Concurrency in the loop.** Posts check the state before they take the lock,
  a synchronous caller may time out in the moment its task completes, Stop
  deletes what others use. Kernel objects must outlive their users, a waiter
  slot must have one user, a result must belong to its call, no wakeup may be
  lost, and everything that waits must end.
* **Order of events in the core.** Between a client call and its request, and
  between a dial and the report that brings its index, the stack may report
  anything. A call must keep its identity, each state change must be told once,
  a hang-up that was promised must be sent, and no flag, tone or call may be
  left behind.
* **Start, stop and callbacks.** Service, client, application and stack come and
  go independently; tasks for one of them outlive it in the queue, a caller that
  was told of a failure may still be served, and the application's callback calls
  back. Both ends of a registration must agree, and a service that goes down must
  give up its observers, its calls, its callback and its uplink. It does not give
  up everything: the marks of a pending dial and hang-up and the conference
  singletons survive its stop (section 3).
* **Limits.** The ring, the waiter slots, the delayed table and the call table
  are small and have reserved entries (the timer message, emergency calls).
* **Objects and time.** Objects are counted by tasks that interleave, tick
  counters wrap, timers are deleted while their callback runs, slots are handed
  on, and a call's object is replaced when the network moves the call. An object
  must outlive its pointers, a task must wait out its delay and no more, a slot
  must have one owner, and the replacement must say what the old object said.

PROJECT.json lists the hazards one by one with the properties aimed at them.

## 2. Modules

### LosEventHandler

The main loop in its self-driven mode. Every section under `lock_` is one step,
and each load or store of an atomic that another task can see is a step of its
own, so the gap between the state check and the lock (`EnqueueCheck`,
`EnqueuePush`), between the ring and the semaphore (`EnqueuePush`,
`EnqueuePost`) and between a timed-out wait and the lock (`SemWait`,
`FinishWait`) are all explored.

| Model | Code |
|---|---|
| `pc[t]`, `op[t]`, `slot[t]`, `mine[t]`, `ret[t]` | where task t is in its posting call, and that call's locals |
| `ring`, `queueSem` | `ring_`, `queueSem_` (bounded counting semaphore) |
| `waiterInUse`, `waiterSems` | the slots and their binary semaphores |
| `ctxSlot`, `ctxStatus`, `abandoned`, `done`, `ran` | the fields of `SyncContext`; `ran` is a history variable |
| `delayed`, `timerArmed`, `timerQueued` | size of `delayed_`, the timer, `timerMessageQueued_` |
| `activeCalls` | `activeCalls_` of `LosEventHandlerCall` |
| `lpc`, `loopMsg`, `loopStopping`, `loopRunning` | `RunLoop` and `Dispatch` |
| `owner` | where Init or Stop is |

Time is abstract: an armed timer may expire, a bounded wait may run out at any
moment, and which delayed tasks are due is a choice. Heap blocks for contexts
are a finite set; a block is free once neither its caller nor a message holds
it. One owner calls Init and Stop. Delayed tasks are counted here; DelayedTasks
has their identity and due ticks. Left out: the externally driven mode
(`config_.poster`), Stop and synchronous posts made from the loop itself. A post
of `queueSem_` is one step, which tests the bound and counts; on CMSIS these are
two (`Semaphores_cmsis.cfg`).

### TimedTable, DelayedTasks

DelayedTasks is the delayed table with ids, due ticks and one timer, each post
and removal in two steps, the state check and the section under `lock_`. Ticks
are counted on a small wrap (`HalfWrap` for 2^31) and compared by their signed
distance, as IsDue does; milliseconds become ticks as in `TelOsMsToTicks`. Ids
run up to `MaxTaskId` and come round; an id comes round only when its first
owner has forgotten it (`IdIsForgotten`), which 2^32 posts grant.

| Model | Code |
|---|---|
| `delayed`, `lastTaskId`, `timerQueued` | `delayed_`, `lastTaskId_`, `timerMessageQueued_` |
| `now`, `timer` | `TelOsGetTickCount`, ticks to the expiry of `timer_` |
| `due` | the list `RunDueTasks` has spliced out |
| `pc`, `delay`, `taskId` | the caller of `PostAsyncTask` or `RemoveAsyncTask` |
| `fate` | history: what became of each task |

`LoopLag` bounds how late timer task and loop are, `MaxLag` how late a task is;
they bound the state space and are the hypothesis under which the order by
signed distance is right (`ShortDelays`). TimedTable is the promise: a table on a
clock that does not wrap, in which every task waits out its delay and tasks
leave in the order they fall due. DelayedTasks implements it with the ticks each
task has left as the refinement mapping.

### OsTimers, PosixTimers, CmsisTimers, Semaphores, CmsisTasks

OsTimers is what `tel_os_adapter.h` says of timers: armed by Start, one expiry
per arming, one callback at a time, none after Delete has returned. PosixTimers (a thread with a list of
deadlines, a mutex and a condition variable) and CmsisTimers (kernel timers that
call back with the index of a slot) both implement it.

| Model | Code |
|---|---|
| PosixTimers `timers`, `armed`, `deadline`, `running`, `service`, `until`, `asleep` | `TimerService`, `PosixTimer`, the thread's wait |
| CmsisTimers `used`, `inCallback`, `callback` | `TimerSlot` |
| `kernel`, `queue` | external: the kernel timer and the queue of its timer task |
| `call`, `count`, `answer` | where each caller is, `g_timerCount`, its result |

Each stretch between a lock and the next unlock or wait is one step in
PosixTimers; each access to an atomic is one in CmsisTimers. The CMSIS kernel is
external and modelled from how the adapter uses it: its timer task has the
highest priority, so others run only when its queue is empty or the callback it
is in waits for a lock. The contract is checked there with one slot, since the
call manager makes one timer; `CmsisTimers_release.cfg` shows what a second one
changes. The kernel is taken to start and delete the timer of a slot in use, so
the failures that TelOsTimerStart and TelOsTimerDelete pass on are left out.
Semaphores has both counting semaphores, CmsisTasks the creation of tasks
through shared slots. Bounds: `MaxTime`, `MaxQueue`, `NTasks`.

### RefBase

One object and its counter, and tasks that each own at most one `sptr` and one
`wptr` to it. Every atomic operation of `refbase.cpp` is a step, the
compare-and-swap of a promotion with its retry. A pointer is copied by a task
that holds it and given to one that has none. `CounterCanFail` lets the
allocation of the counter fail; a `wptr` to such an object is not made, because
`Attach` uses the counter without a test (`refbase.h:254`).

### CallManager

The call core. A step is one task of the loop; a reported list is handled one
entry a step while everything else waits. Handlers are operators on a record of
the manager's state, composed in the order of the calls in the code, so an
action is the whole handler with everything it calls. A failed request is
answered by `EventResult(event)`. `sent`, `told` and
`result` record what the step did for the action properties and have no
influence on later steps; the view of the MC module leaves them out.

Abstractions: numbers, names and attributes are left out; a call has its id,
index, slot, type, state, direction, emergency mark and two flags. Conferences
are in Conference, modes and times in CallRecord. `needWaitHold_` is
never set in this build. The dialing-in-progress flag is set and cleared in one
task. Clients name an existing call; the code's default choice picks one of the
calls and goes on the same way. Refusals that only depend on the radio (no SIM,
airplane mode) change nothing and are not separate steps. The audio interface is
present and succeeds; the protect task is always accepted by the delayed table
(the bound of that table belongs to LosEventHandler). A list has one entry for
an index.

The service runs throughout: its stop is not a step of this module. It deletes
every call and removes the protect task (`call_control_manager.cpp:64`) but leaves
`pendingMo_` and `pendingHangup_` set (`call_manager_service.cpp:140`), so after it
an empty table may have a pending mark. Ids are never used again, so the mark names
no later call; but `QuietWhenEmpty`, `PendingHangupResolved` and all that section 5
says of this module are about a core whose service is not stopped.

### Conference

The CS and the IMS conference (`conf`), the calls with their conference state
and hang-up flags (`table`), and the reports, event results, hang-ups and dials
that read or change them. A call keeps one index of the stack, and the index is its
id: how indexes are bound and reused is CallManager's part. Lists are handled one
entry a step (`todo`); single reports reach the same handlers with one entry. An
event result first ends a call that is dialled (`DealFailDial`), whatever the
event, and then fails the combination if that is the event. `StopService` is a stop
and the next start of the service: the calls are deleted, and no conference hears of
it. `stoppedAt` is the last id before it (history). Bounds: `MaxCallId`;
`StackStates`, `Handovers` and `Dials` choose what the stack reports, whether calls
move between CS and IMS, and whether they are dialled.

### CallRecord

One call from the dial or report that makes its object to the report that
removes it: running state, type, media mode and the original one, direction,
answer type, and the times (created, ringing, talk, end). A change of type
replaces the object and copies the record (`RefreshCall`); rejections wait in the
queue of the loop (`rejects`). The stack reports states in an order a call can
take (`MayFollow`, external). The clock starts above 0, which the record reads as
"not yet", and does not go back. One call a behaviour, so the end of the call
ends the behaviour. Bounds: `MaxTime`, `MaxRequests`. Left out: `isAnswered`,
`rejectType`, the policy flags and the conference state (CallManager, Conference).

### CallService

The service around the core. The loop is here what its users see of
LosEventHandler: a bounded queue, posts refused when it is full or stopped, and
synchronous posts that may be given up while their task stays queued. After Stop
the loop runs one more task, if there is one, and recycles the rest.

| Model | Code |
|---|---|
| `queue`, `lpc`, `hand`, `last` | tasks of the loop, where it is in one, `stopping` of `RunLoop` |
| `ready`, `control`, `handler` | `ready_`, the observers of CallControlManager, the status manager of ReportCallInfoHandler |
| `initialized`, `callbackRegistered`, `listening`, `stack`, `uplink` | CellularCallConnection, the registry, and which stacks hold the uplink |
| `strays` | history: stacks that hold it since a stop of the service that did not reach them |
| `spc` | the stack's task between the steps of `CellularCallLiteRegistry::Register` |
| `reportCb`, `proxyCb`, `registerStatus`, `closed` | the registration as report proxy and client proxy keep it |
| `isInit`, `initStatus`, `cpc`, `cop`, `ccb` | the client, and where its tasks are in a call |
| `opc` | the task that starts and stops the service |
| `missed` | history: the notice of a stack could not be posted or served |

A task on the loop is one step, but for those that meet other tasks midway: Init
between the listener and the look for a stack, UnInit between the listener and
the stack, registration between `Get` and `RegisterCallManagerCallBack`, and the
application's callback, which may make one call to its client before it returns.
A stack that registers is one that was there before, with what it holds, or a new
one in its place. The table is a count of calls; a report changes the count and tells the
application any number of things. Permissions are constants, as they are in the
build. A destroyed callback whose method goes on is taken to return normally;
`dispatch_unregister` reports it.

### CallMethods, ClientApi

CallMethods lists every method of `CallManagerClient` and says what each layer
makes of it: which the client answers itself, which the proxy forwards, which
form of argument it turns down, which permissions the entry of the service
tests and which options it refuses. ClientApi passes a call through these layers
in steps (client check, proxy check, post, wait, answer), while other tasks
initialise and close the same client and the service starts and stops.

| Model | Code |
|---|---|
| `proxyMade`, `isInit`, `initStatus`, `registered` | `g_callManagerProxy`, the flags of client and proxy |
| `running`, `queue` | state and queue of the loop, as in CallService |
| `ready`, `reported` | `ready_`, the callback of the report proxy |
| `pc`, `call`, `answer` | where a task is in its call, and what it read |
| `acted` | history: the call reached the call control, and its caller was there to read the answer |
| `late` | history: the call that reached it in the last step, with nobody waiting |
| `trust` | the trust model the build installs |

A request is served in one step of the loop, and what the call control answers
is open. Nothing is counted, so deadlock is checked. The RTT methods are not
built; the white list of a dial (`BuildDialInfo`) copies values and is left out.

### Proof and MC modules

`LosEventHandlerProofs`, `DelayedTasksProofs`, `ObjectProofs`, `CallManagerProofs`,
`CallServiceProofs`, `ClientApiProofs`, `AdapterProofs` and `PlatformProofs` hold the
theorems of section 5.

MCLosEventHandler, MCCallManager and MCCallService add symmetry, views and one
constraint to the module they check (the constraint is used by `stop_fair` only). The others put several instances into one
run, one of which runs in each behaviour:

* MCCalls, the call core twice (`part`): normal calls on two slots, emergency
  calls on one of them (then `part` is that slot).
* MCPlatform, everything the loop stands on: the delayed table in one life
  (`table`) and across Stop and Init (`lives`), the timers of POSIX (`posix`) and
  of CMSIS with one slot and with two (`one`, `two`), the POSIX semaphore
  (`units`), the CMSIS task slots (`slots`).
* MCObjects, pointers, one record and the conferences.
* MCClientApi, one task that calls nearly every method under every trust model
  of `Models`, and two tasks (`~alone`) that register and close under one.

A property of one part is either an implication from it or holds in the initial
states of the others, whose variables do not change. Liveness there is
`Fairness => Progress`, with the fairness of the part. MCConference and MCClientApi
give values to the configurations of section 3's second table.

## 3. Runs

| Run | Shows | Instance |
|---|---|---|
| `lifecycle` | a waiter slot has one user, a signal and a result belong to their call (`WaitersSound`); no lost wakeup; objects outlive their users, and after a Stop that ended the next Init starts clean | two clients, one slot, queue of one task, one delayed entry, Stop, restart |
| `stop_fair` | posts and Stop end and waiter slots are given back (`NobodyIsStuck`) | synchronous posts against Stop and restart, an Init that may fail at its last step |
| `timer_fair` | the timer message fits, a non-empty delayed table is watched and served | two delayed entries, posts, removals, no Stop |
| `calls` | identity of calls and their emergency mark, pending flags, tones, one broadcast for each change, hang-up delivered, answer only a ringing call, failed dial leaves nothing, reservation for emergency calls | two slots, two indexes, two types, three call ids, single reports; one slot, table of two with one reserved, emergency dials, every control |
| `lists` | no call outlives the stack's, a kept hang-up is resolved | whole lists, two indexes |
| `service` | client and service agree on the callback, only the registered one is called, a service that went down has given up what `CleanWhenNotReady` lists, also when a task of its life is served later, no notice is lost on the way to a service that waits for its stack (`UplinkSound`), one uplink for a stack | one client, two callbacks, one stack that comes again or is replaced by a new one, queue of two, one call, an Init that may fail, stop and restart |
| `platform` | the delayed table implements TimedTable, is watched and served, what was removed stays removed; both adapters implement OsTimers, armed timers fire, Delete returns; no unit of a semaphore is missed; every task runs its own entry, slots and counts are right | two tasks, two delays, a wrap of 10 ticks; table of one across Stop; two timers and a task on POSIX; one slot and two, two tasks on CMSIS; three users of a semaphore of two; two creators, two slots |
| `objects` | pointers keep their object and free it once, also without a counter; states, outcome, times and begin of talk of a record; a conference has a host, a held one has participants, participants are calls, or were when the service was stopped | three tasks; clock of five ticks, two rejections waiting; two calls of one slot, IMS to CS, dials, a stop of the service |
| `client` | an answer says what happened, an entry is reached only with what the design asks for, also by a request whose caller gave up, and no callback is orphaned | one task, every method in scope and five others, thirteen trust models; two tasks, three methods, a queue of two, restarts |

The bounds are the smallest at which the cases meet. In the loop, one task fills
the queue and one caller fills the waiter pool, so full, contended and abandoned
resources all occur with two clients; a third would only repeat the part of the
second. In the core, two indexes and three call ids are one call more than the
code allows at once, so indexes are reused by a later call and a report can meet
a call that is dialled, bound, ended or unknown. `MaxCallId` and `MaxRequests`
bound the length of behaviours and of the queue; `Contexts` bounds the heap.
In `service` one client is enough: a synchronous task it has given up stays in
the queue and stands for the task of another client; instances of two clients
with a queue of one, and of two synchronous calls that wait at once, were also
checked, and so was one with two stacks that replace each other (7.2 million states,
over five minutes). Two tasks in the queue and one in hand let
any task of one party overtake, meet or outlive those of the others.
WAITING is handled like INCOMING and is left out of the states of `lists`, which
is the largest run.

A wrap of 10 ticks with delays up to 2 and a lag of up to 2 puts a due tick
before, at and after the wrap for every order of posts. Three tasks on one object
are one that holds, one that drops and one that promotes; each timer and slot has
two users beside the one that ends it, each conference two participants. One call
record is enough because no record reads another. The trust models are none, all
permissions, each one alone and the pair that a refused rejection needs, with the
system mark, and none, all and one without it. In `objects` the conferences leave
out DISCONNECTING, which marks a call without touching a conference, so the
unhold that follows a participant's DISCONNECTING (`AutoUnHold`) is not
exercised.

Deadlock is checked for the loop (`lifecycle`, `stop_fair`, `timer_fair`) and the
service, whose tasks can always go on. The other runs stop where a bound is
reached, or where nothing is left to drop, create or call, and a run of several
parts stops where its part does, so it is not checked there; what may not stop
for ever in them is stated as liveness.

The passing runs leave out just the cause of what the code does not keep: the
normal part of `calls` has no emergency dials, `timer_fair` has no Stop, and in
`lifecycle` and `timer_fair` the loop task can be created. `stop_fair` is where its
creation may fail. Its constraint `Defined` ends a behaviour at the use of a deleted
object, which has no defined outcome, so `NobodyIsStuck` is claimed of behaviours
without one; what such an Init does to late posts is shown by
`LosEventHandler_init_rollback.cfg`, and no passing run says that the next Init is
clean then. If the task can be created nothing is cut off, which is the theorem
`ReleaseIsSafe`. What outlives a stop of the service is excepted by name in `CleanWhenNotReady` (a stack not
registered at that moment, `strays`) and in `ObjectsSound` (participants up to
`stoppedAt`), and not part of the other models.

Three runs end in a violation, where the code and its own documents disagree;
PROJECT.json quotes the line for each.

| Run | What happens |
|---|---|
| `dial_fail_ecc` | A refused emergency dial over a dialled call without an index ends the other call. |
| `dispatch_unregister` | A callback that unregisters itself is destroyed while its method runs. |
| `stale_delayed` | A delayed post enters the table after Stop emptied it and finds no timer in the next life. |

The same cause as in `dial_fail_ecc`, two dialled calls without an index, lets the
report that ends the older call, or the protect task of a kept hang-up, forget
the hang-up of the newer one, and leaves a call untold. `HangUpsKept`,
`TransitionsTold`, `DialFailsClean` and the slot of `IdentityKept` are therefore stated
as long as the last dial was no emergency call (`~dialEcc'`).

Further disagreements have a configuration of their own beside the runs, each
with the property that TLC finds violated:

| Configuration, module, property | What happens |
|---|---|
| `LosEventHandler_init_rollback`, MCLosEventHandler, `NoUseAfterRelease` | Init lets posts in before its last step and rolls back under them. |
| `DelayedTasks_tick_wrap`, DelayedTasks, `OrderedByDueTick` | Behind an overdue entry a delay shorter than 2^31 ticks counts as past. |
| `CallManager_refresh_drop`, MCCallManager, `TransitionsBroadcast` | A type change while an emergency call is in the table loses the call without a broadcast. |
| `CallManager_hang_up_flag`, MCCallManager, `HangUpActiveIsActive` | The flag of a hang-up that failed stays; the next one sends the command for the active call when the call is held. |
| `CallManager_event_result`, MCCallManager, `HoldFailureKeepsEcc` | The failure of a hold ends the emergency call that is dialled. |
| `CallService_uplink`, MCCallService, `StoppedHasNoUplink` | A start or stop whose posted Init or UnInit is not served in time or is refused stops the loop under a ready service; the stack keeps the uplink. |
| the same, `ReplacementIsServed` | A stack that replaces another, or comes anew, while the service holds a registration gives notice, and the task it posts returns (`cellular_call_connection.cpp:89`): it is not given the uplink before the service is restarted. |
| `RefBase_counter_alloc`, RefBase, `DestroyedWithLastSptr` | An object without a counter (no memory) is never destroyed. |
| `Conference_leak`, MCConference, `NoStateLeaks` | A participant moved from IMS to CS and back stays in the CS conference after its end. |
| `Conference_restart`, MCConference, `StopLeavesNothing` | A stop of the service deletes the calls and leaves the CS conference with its host and participants to the next start. |
| `Conference_hold_wait`, MCConference, `HoldWaitEndsHeld` | Hanging up an active call that was in a conference releases the others. |
| `Conference_dial_limit`, MCConference, `DialKeepsLimit` | Participants of a CS conference do not count against the limit of a dial. |
| `CmsisTimers_release`, CmsisTimers, `ReleasedAfterCallback` | With two timers a slot is released while its callback runs. |
| `Semaphores_cmsis`, Semaphores, `CountBounded` | Two posts to the CMSIS semaphore exceed its bound. |
| `ClientApi_registration`, MCClientApi, `UnInitSticks` | An Init that overlaps an UnInit leaves the two flags apart, and the next UnInit does nothing. |
| the same, `FirstStaysRegistered` | After a restart of the service a client can neither register nor unregister. |
| `CallRecord_answers`, CallRecord, `TalkedIsNotRejected` | A rejection that runs late marks a call that is talked on as rejected. |
| the same, with `-continue`, `RingingBeginKept` | An answer that changes the type restarts the ringing time. |

A configuration with two properties shows the second one when the first is taken
out of it.

Observations without a configuration: a stop of the service leaves the pending dial
and hang-up marked (`call_manager_service.cpp:150`); a conference the network reports is never
entered, because it is set idle before the join that an idle conference refuses
(`cs_call.cpp:121`), and a participant reported holding stays in it
(`call_status_manager.cpp:403`); a missed video call whose type changes at its
end is a video call again (`call_status_manager.cpp:677`); three transfer-control
methods of the client answer that it is not initialised
(`call_manager_client.cpp:1018`); a post that passed its state check may reach
the ring after the last drain and is then cleared without being recycled; posted
hold, unhold and switch requests go to the stack without a look at the call's
state (`call_request_process.cpp:169`).

## 4. Fairness

`LosEventHandler!FairSpec`: the kernel schedules every ready task (weak fairness
of the loop, of each posting call and of the owner once Init or Stop has begun),
an armed timer expires, and the bounded wait of Stop runs out (strong fairness
of giving up, since `WaitUntil` counts its polls: a condition found false again
and again ends the wait). No client has to post and nobody has to call Init or
Stop.

`CallManager!FairSpec`: the loop finishes the report it is handling and serves a
delayed task that stays in the table, here the protect task, even while reports
keep arriving; LosEventHandler's `DelayedServed` is the same statement about the
loop. The two conjuncts are strong or weak fairness with the guards of the
actions written in the place of ENABLED.

The others assume that threads are not starved, clocks advance and callbacks
return, as `tel_os_adapter.h` demands of them, and never that anybody begins a
call:

* `TableIsServed` of `platform` (`DelayedTasks!Fairness`): the clock ticks, an expired timer calls back, the
  loop runs.
* `PosixTimers!Fairness`: the service thread, the clock and every call begun go on;
  a callback returns (strongly fair, since it may make calls of its own first).
* `CmsisTimers!Fairness`: the timer task runs its queue, a running timer expires,
  callbacks return, and a task in the middle of a call goes on once the timer
  task lets it (strongly fair: the queue may fill again and again).
* `Semaphores!PosixFairness`: a thread whose wait may end goes on. Nothing is
  assumed of spurious wake-ups.

ClientApi, Conference, CallRecord, RefBase, CmsisTasks and CallService check safety
only.

## 5. Proofs

In LosEventHandlerProofs, for every set of clients and every size of the
queue, the pool and the table, from `HandlerAssumption` alone:

* `TypeCorrect`, `Spec => []TypeOK`. The type invariant is not inductive. The
  counter of calls stays a natural number only because it equals the number of
  tasks inside a call (`CountInv`, with the cardinality lemmas), and a message
  carries a context only because its caller holds one at that point (`CallInv`,
  `LoopInv`). `ShapeCall`, `ShapeLoop` and `ShapeOwner` have one step for each
  action.
* `ReleaseIsSafe`, `[]NoUseAfterRelease`, if the loop task can be created
  (`~TaskCreateCanFail`; `LosEventHandler_init_rollback.cfg` shows why). The argument is `LifeInv`:
  objects exist in every state but UNINIT; Stop goes past its wait for calls
  only in a moment when none is in progress, and a call that begins afterwards
  reads STOPPING and leaves at once, so the later polls need not be atomic with
  the first.
* `InitStartsClean`, `[]UninitIsClean`, from the same invariant and under the same
  assumption: after a Stop that ended, not after an Init that failed.
* `TimerMessageAlwaysFits`, `[]TimerMessageFits`. `TimerInv` says that the one
  timer message is in the ring, in the loop's hand or claimed by the timer
  callback, never in two of these places, and that only it can make the ring
  longer than the queue size.
* `WaitersAreServedRight`, `[]WaitersSound`, if the loop task can be created, for
  every size of the waiter pool and any number of callers. `WaitInv` says what a
  call holds (`Claims`) and that no two hold the same (`Apart`); that a context on
  its way to the loop has a caller waiting for it, or was abandoned together with
  a slot that is still taken and is nobody's (`Journey`, `Left`); and that it
  travels in one message only (`OnePlace`), so that no completion happens twice.
  `Results` adds that a context completed with success was run. `WaitComplete` is
  the heart of it: one completion either frees the slot left behind or signals
  exactly the one caller that waits there.
* `WakeupsAreNotLost`, `[]NoLostWakeup`, without any assumption on failures.
  `Signalled` counts: the messages of the ring are at most the units of the
  semaphore, the tasks about to signal it and the loop on its way from the
  semaphore to the ring. `LoopLife` says when there is a loop: one, which ends before
  Stop releases anything.
* `DelayedTasksAreWatched`, `[]DelayedHasTimer`, without Stop and if the loop task
  can be created. With Stop it does not hold of a task that is posted while Stop
  clears the table (the finding of `stale_delayed`).

The invariants were model-checked on small instances before they were proved.

In CallServiceProofs, for every set of clients, callbacks and stacks, every size
of the queue, every choice of permissions and failing steps, from
`ServiceAssumption`:

* `RegistrationsAgree`, `[]ReportsAgree`. The invariant is inductive as it
  stands: only a stop of the service and four calls of the client touch a
  registration (`CallbackSteps`), and each keeps both ends in step.
* `StoppedIsClean`, `[]CleanWhenNotReady`, and `UplinkIsGivenOnce`, `UplinkOnce`,
  from `CleanInv`. It adds that a stack holds the uplink only if the connection knows
  or a stop has missed it (UnInit takes back what `callbackRegistered_` says, and from
  the stack registered then), and that
  a task of the loop finds at its second step what it left at the first,
  whatever the stack's task did in between.
* `UplinkIsNotMissed`, `[]UplinkSound`. The registry's listener is in place as long
  as the connection is initialised (`Watching`), so a stack that comes finds it, and
  a notice in the queue stays until the loop takes it. It is about a service without a
  registration: one that has it ignores the notice (`ReplacementIsServed`, section 3).
* `RegisteredIsCalled`, `OnlyRegisteredIsCalled`, from `CallbackInv`: a report in the
  queue is addressed to the registered callback or to one its client has closed
  (`Addressed`), and a callback is asked to be registered once (`AskedOnce`) and is
  fresh until then (`Coming`).

In CallManagerProofs, for every set of slots and types, every finite set of
indexes, every size of the table and number of reserved entries, every sequence
of reports and requests of a service that is not stopped, from `CallManagerAssumption`:

* `TypesHold` and `TableIsTyped` (`[]TypeOK`), `KeysAreUnique` (`[]UniqueKey`). Both
  come from one invariant, that `Now` is `Good`: typed, and with a table that is
  `Sound`, that is, keys and ids are unique, no id is newer than the last one, and
  a call without the emergency mark never stands in one of the last `EccReserved`
  positions. Good is shown of every handler in turn, from the
  helpers of the table to the whole report; besides, each handler is `Kept`: the
  calls that stay keep id and mark, and a key is new only if the report named it.
  Every step of Next is then `Reached`: it applies a good record that follows the
  state before.
* `EccEntriesAreKept`, `EccHasRoom`. When the table is full, its last positions are
  filled, by the above only with emergency calls (`ReservedEntries` maps the
  positions into those calls one to one).
* `AnswersReachRingingCalls`, `AnswerOnlyRinging`: only RunRequest sends an answer,
  after it has read the state of the call (`Asked`).
* `NoZombieCalls`, `[]NoZombieCall`, if the stack reports by lists only, which is how the
  run `lists` checks it. `ListInv` says that until the loop is through with a list, a
  call is in the list or its end, or its own entry, is still to be handled.
* `TableStaysSound`, `[]TableIsSound`: the pending flags and the tones. `Settled` says that
  a call without an index is still DIALING, that each pending flag names such a call,
  not both the same, and that an empty table is silent. It holds together with Good
  only: a flag is cleared by the id of the one call a handler has in hand, and ids are
  unique. So each handler is shown to leave the other calls alone and its own bound, gone
  or named by no flag (`Touched`), and this settles (`TouchedSettles`).
* `EveryTransitionIsTold` (`TransitionsTold`), `PromisedHangUpsAreSent` (`HangUpsKept`),
  `FailedDialsAreClean` (`DialFailsClean`) and `CallsKeepTheirIdentity` (`IdentityKept`, with
  `EccMarksAreKept` for the mark). What they need beyond Good and Settled is that at
  most one call waits for its index unless the last dial was an emergency call:
  a normal dial is refused while a call is DIALING. `NormalInv` is the three together.
  From `OneUnbound` follows that the call a handler takes for the pending one is the
  pending one (`UpdateDialingCallInfo`, `HandleDialFail`, `ClearPendingState`). Every handler is
  shown to `Serve` the calls it does not have in hand, that is, to leave their
  state and slot and tell nothing of them, to make no new call wait, and to give up
  a kept hang-up only with its command; and to `Tell` of the call it has in hand
  once, what it did to it (`Handles`). Handlers compose, a list being one handler for
  each of its entries and ends, in which a call occurs once.

In DelayedTasksProofs, for every number of tasks, table size, tick frequency and
range of the counter, from `DelayedAssumption` and `ShortDelays` (no delay, with
what the loop may be late, reaches half the range):

* `TableImplementsTimed`, the refinement of TimedTable. Signed distances of two
  ticks compare like the times left as long as both lie within half the range of
  now (`DistanceCompares`); `TableInv` bounds what every entry has left and orders
  the table by it. One lemma maps each action to a step of TimedTable or to none.
* `TableIsOrdered`, the order that the comment above IsDue claims. `DelayedTasks_tick_wrap.cfg`
  shows that its bound is needed.
* `NextIsWatched`, `[]TimerWatches`, if the handler is not stopped (after a stop that leaves an
  entry it does not hold, `DelayedTasks_stale_delayed.cfg`). Both conversions round up, but
  together by no more than they round up one tick (`TimerIsNotLate`); whoever changes
  the first entry arms the timer for it, and a tick brings both nearer.
* `RemovedStay`, `[]RemovedStaysRemoved`, from `DelayedAssumption` alone, stops included: who
  waits, in the table or with the loop, is posted and waits once, and the id that a
  poster holds names no task but its own (`JobsInv`).

In ObjectProofs, of the pointers and for every finite set of tasks: `PointersTypeCorrect`, `PointersAreSafe`,
`DestroyedOnce`, `PointersKeep`, `PointersFree` and the four together,
`PointersAreSound`, all from `RefInv`. It counts:
the strong count is the number of tasks that own an `sptr` or are about to give
one or to drop one, the weak count that of all references to the counter, and
between the last drop and the destruction exactly one task destroys.

There too, of the record of a call and for every set of types and every bound:
`RecordTypeCorrect`, `StatesAgree`, `OutcomeIsTalk` and `TalkBegins`. A record is
`Good` when its running state is that of its reported state and its answer
type fits its talk; every operation of the code keeps a good record good and
its times set (`Keeps`), whatever the order of reports, so the order of the stack
is not used. `TimesAreOrdered` does need it: a repeated report of ringing would begin the
ringing anew after its end. A record is `Timely` when its times are past and its
ringing, if over, ended after it began and not in an early state; and the state of a
call follows the stack's (`InStep`), but for the few cases in `Fits`: an early state is
entered only from an early one, as `MayFollow` and `AlertHandle` rule out the rest.

And of the conferences, for every number of calls and slots, all states the stack reports
and dials or none, from `ObjectsAssumption` (what `StackStates` lists can be reported, and
`MaxCallId` is a number) and calls that move only from IMS to CS: `ConferencesTyped`,
`ConferencesStaySound`, `NothingIsLeft`, and `ObjectsStaySound` for the objects of the run
together (each part's behaviour is one of every part, the others stuttering: `EachRuns`).
A conference knows no more of the calls than their ids, slots and types (`Kinds`), which
the rest of a call's state leaves alone, so each operation has one lemma that it keeps
the manager `InOrder`. `Hosted` says how the conferences are: nobody ever joins the IMS
conference, because the join of an idle conference is refused and nothing else makes it
active; the CS conference has only calls that came from IMS, and is new again as soon
as it is empty. A participant must not go back to IMS, where it would no longer leave with
its call; that takes the second part of the invariant, `Agree`: what the table, the
entries still to handle and the last list of each slot say of a call agrees on its slot
and never goes back to IMS, no id is above `lastCallId`, and each entry has an id of its
own. Where the network also moves calls from CS to IMS this fails (`Conference_leak.cfg`).
Nor does it survive a stop of the service, which the conferences do not hear of, so the
participants are split by `stoppedAt`: those above it are calls and agree with them, those
up to it are what the stop left. `NothingIsLeft` is in two parts accordingly: participants
that are no calls are from before the stop, and an empty conference is new; and as long as
the service was not stopped, no call means a new conference.

In ClientApiProofs, for every set of tasks, trust models and methods and every size of the
queue: `ClientTypeCorrect`, `PlaceholdersAreInert`, `SuccessIsReal`,
`UninitIsInert` (both in `AnswersAreHonest`), `OnlyTheAllowedReach` and `NoCallBackIsOrphaned`.
`PlaceholdersAreInert` says that no method out of scope posts anything to the loop, and no run says
more of them.
The invariant says what a task at each point has passed (`TaskOK`), that a
request in the queue belongs to the task that waits for it (`Owned`), and that no task
has two (`OwnedOnce`), so that what the loop does to a request it does to the
answer of one task. `ChecksAreTheTable` shows that the tests of the entries are
those of the design's table, method by method.

In AdapterProofs, for every set of timers, tasks and slots, assuming only that `None`
is none of them, that `CMSIS_MAX_TASKS` is not 0 and that a semaphore begins with at most
its maximum (which TelOsSemCreate checks):

* `PosixTimersImplement`, `Spec => Contract!Spec`, the refinement of OsTimers. `PosixInv`
  says that a timer being deleted is allocated, out of the list and in the hands of
  one caller, one being made is in the list and not armed, and the service thread holds
  an allocated timer from the moment it takes it until its callback has returned. Each
  action is then a step of OsTimers or, for the link and the waits, none.
* `CountIsTrue`, `NoTimerDangles`, from the same invariant and `Counted`, that
  g_timerCount lags behind the objects by the calls that have yet to count.
* `OwnEntryIsRun`, `SlotsHaveOneUser`, `TasksAreCounted`, of the task slots on CMSIS: a
  slot is held from ClaimSlot until its task has read it, by one user (`SlotsHeld`).
* `PostsStayBounded`, of the POSIX semaphore.
* `FreeSlotsStayClean`, of the timer slots on CMSIS: a call in progress has a slot of its
  own and leaves no kernel timer behind when it releases it (`SlotsClean`).
* `OneCmsisTimerImplements`, `Slot!Spec => Slot!Implements` for one slot, which is what the
  call manager uses, and any number of tasks and length of the timer task's queue. `OneInv`
  says that nothing of a callback is left, neither queued nor running, while the slot is
  free or is being filled, and none from the moment the wait of TelOsTimerDelete is over
  (`OneQuiet`); a callback that is queued then belongs to the timer that is. With a second
  slot this is no longer so (`CmsisTimers_release.cfg`), and `FreeSlotsStayClean` remains.
* `PosixTimersTyped`, `TaskSlotsTyped`, `UnitsTyped`, `TimerSlotsTyped`: the types.

In PlatformProofs, the invariants and the refinement of the run `platform`, from
`PlatformAssumption` (the delays include the one that the stopped handler posts, there are
two ids, and `none` is no timer) and `DelayedAssumption`:

* `TimersKeepTheContract` (`TimersImplement`), `TableStaysWatched` (`TableIsWatched`, from `ShortDelays`
  and a table that is not stopped in part `table`) and `AdapterStaysSound` (`AdapterIsSound`).
* Whichever part runs, a behaviour of the platform is one of every component, the others
  stuttering (`PosixRuns`, `UnitsRun`, `TasksRun`, `TableRuns`, `LivesRuns`), so the theorems
  above carry over through instances of their modules. The slots take an argument of their
  own: the two of part `two` and the one of part `one` are the same variables. With one slot
  every step but the refusal of a second timer is a step of two (`OneIsOfTwo`), which gives
  the types; and seen through its first slot alone (instance `C`, whose functions are
  restricted to it) it is a behaviour of one slot, which gives the contract (`OneRunning`).

Only model-checked: all liveness, which needs ENABLED and is beyond the prover, as are
inductions over data and recursive operators. In `platform` a tick is a millisecond
(`TickFreq`), so the rounding of the conversions is covered by `NextIsWatched` alone.

## 6. Not modelled

* Merging, splitting and kicking out of a conference fail before they change
  anything, and `CanCombine`, `CanSeparate`, `CanKickOut` and the lists for
  clients have no caller in this build.
* Video calls beyond the mode of their record; RTT, satellite, VoIP and Bluetooth
  calls: stubs, or not built.
* DTMF, mute, volume and supplementary requests, which forward to the stack or
  the audio interface and keep no state here.
* Log, string, number and parcel helpers; `BuildDialInfo`; the slots of the core
  service and the audio interface, which hold one pointer each.
* Mutexes of the adapters, which the other modules take as the locks they are,
  and the creation of POSIX threads, which share nothing.
* The samgr-driven start of the service (`call_manager_service_lite.cpp`): an
  entry point for another system service framework, not called in the tests.
* The externally driven mode of the loop (`config_.poster`).

## 7. Plan

What a further step would take up, in this order:

1. An abstract specification of the loop (a bounded queue whose tasks run at
   most once, in order) implemented by LosEventHandler, which would tie the loop
   of CallService and ClientApi to it by a refinement instead of by description.
2. The externally driven mode, and the samgr-driven start.
3. The service composed with the call table instead of its count, so that a stop meets
   the pending marks, the protect task and calls in every state.
