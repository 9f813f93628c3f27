----------------------------- MODULE Semaphores -----------------------------
(***************************************************************************)
(* A counting semaphore of both adapters.  tel_os_adapter_posix.cpp builds *)
(* it from a lock and a condition variable; each stretch between a lock    *)
(* and the next unlock or wait is one step.  tel_os_adapter_cmsis.cpp uses *)
(* a kernel semaphore that knows no bound of its own, and looks at the     *)
(* count before it releases.                                               *)
(***************************************************************************)
EXTENDS Naturals

CONSTANTS Users,        \* the tasks that use the semaphore
          InitialCount,
          MaxCount      \* PosixSem::maxCount, CmsisSem::maxCount

VARIABLES count,   \* PosixSem::count, the kernel's count
          pc,      \* what each user is doing
          limit,   \* how long its wait may last: none, a while, for ever
          result   \* what its last call returned

vars == <<count, pc, limit, result>>

TypeOK ==
    /\ count \in 0..MaxCount
    /\ pc \in [Users -> {"idle", "asleep", "awake", "expired", "checked"}]
    /\ limit \in [Users -> {"poll", "finite", "forever"}]
    /\ result \in [Users -> {"OK", "FAIL", "TIMEOUT"}]

Init ==
    /\ count = InitialCount
    /\ pc = [u \in Users |-> "idle"]
    /\ limit = [u \in Users |-> "poll"]
    /\ result = [u \in Users |-> "OK"]

Goto(u, to) == pc' = [pc EXCEPT ![u] = to]
Answer(u, r) == Goto(u, "idle") /\ result' = [result EXCEPT ![u] = r]

(* A wait begins; its first look at the count follows at once or later.    *)
Wait(u, l) ==
    /\ pc[u] = "idle"
    /\ Goto(u, "awake")
    /\ limit' = [limit EXCEPT ![u] = l]
    /\ UNCHANGED <<count, result>>

-----------------------------------------------------------------------------
(* tel_os_adapter_posix.cpp *)

(* There is a unit, found before or after the time is over.                *)
Take(u) ==
    /\ pc[u] \in {"awake", "expired"}
    /\ count > 0
    /\ count' = count - 1
    /\ Answer(u, "OK")
    /\ UNCHANGED limit

(* A poll, or a wait whose time is over, ends when there is none.          *)
GiveUp(u) ==
    /\ count = 0
    /\ pc[u] = "expired" \/ (pc[u] = "awake" /\ limit[u] = "poll")
    /\ Answer(u, "TIMEOUT")
    /\ UNCHANGED <<count, limit>>

Sleep(u) ==
    /\ pc[u] = "awake" /\ count = 0 /\ limit[u] # "poll"
    /\ Goto(u, "asleep")
    /\ UNCHANGED <<count, limit, result>>

(* pthread_cond_timedwait returns ETIMEDOUT.                               *)
Expire(u) ==
    /\ pc[u] = "asleep" /\ limit[u] = "finite"
    /\ Goto(u, "expired")
    /\ UNCHANGED <<count, limit, result>>

(* pthread_cond_wait may also return without a signal.                     *)
WakeUp(u) ==
    /\ pc[u] = "asleep"
    /\ Goto(u, "awake")
    /\ UNCHANGED <<count, limit, result>>

(* A post signals one of the sleepers, if there is any.                    *)
PostMutant(u) ==
    /\ pc[u] = "idle" /\ count < MaxCount
    /\ count' = count + 1
    /\ Answer(u, "OK")
    /\ UNCHANGED limit
Post(u) ==
    /\ pc[u] = "idle" /\ count < MaxCount
    /\ count' = count + 1
    /\ \/ /\ \A w \in Users : pc[w] # "asleep"
          /\ pc' = pc
       \/ \E w \in Users : pc[w] = "asleep" /\ Goto(w, "awake")
    /\ result' = [result EXCEPT ![u] = "OK"]
    /\ UNCHANGED limit

RefusePost(u) ==
    /\ pc[u] = "idle" /\ count >= MaxCount
    /\ Answer(u, "FAIL")
    /\ UNCHANGED <<count, limit>>

InWait(u) == Take(u) \/ GiveUp(u) \/ Sleep(u) \/ Expire(u)

PosixNext ==
    \E u \in Users :
        \/ \E l \in {"poll", "finite", "forever"} : Wait(u, l)
        \/ InWait(u) \/ WakeUp(u)
        \/ Post(u) \/ RefusePost(u)

PosixSpec == Init /\ [][PosixNext]_vars

(* A thread that has been woken, and a clock, go on; nobody counts on a    *)
(* wake-up that no signal caused.                                          *)
PosixFairness == \A u \in Users : WF_vars(InWait(u))

-----------------------------------------------------------------------------
(* tel_os_adapter_cmsis.cpp *)

(* osSemaphoreAcquire takes a unit or ends with the time it was given.     *)
Acquire(u) ==
    /\ pc[u] = "awake" /\ count > 0
    /\ count' = count - 1
    /\ Answer(u, "OK")
    /\ UNCHANGED limit

AcquireTimeout(u) ==
    /\ pc[u] = "awake" /\ count = 0 /\ limit[u] # "forever"
    /\ Answer(u, "TIMEOUT")
    /\ UNCHANGED <<count, limit>>

(* osSemaphoreGetCount, then osSemaphoreRelease.                           *)
CheckCount(u) ==
    /\ pc[u] = "idle" /\ count < MaxCount
    /\ Goto(u, "checked")
    /\ UNCHANGED <<count, limit, result>>

Release(u) ==
    /\ pc[u] = "checked"
    /\ count' = count + 1
    /\ Answer(u, "OK")
    /\ UNCHANGED limit

CmsisNext ==
    \E u \in Users :
        \/ \E l \in {"poll", "finite", "forever"} : Wait(u, l)
        \/ Acquire(u) \/ AcquireTimeout(u)
        \/ CheckCount(u) \/ Release(u) \/ RefusePost(u)

CmsisSpec == Init /\ [][CmsisNext]_vars

-----------------------------------------------------------------------------
(* A post fails once the count has reached maxCount, so it never goes over *)
(* it, however posts and waits interleave.                                 *)
CountBounded == count <= MaxCount

(* A wait ends with TIMEOUT only while there is no unit: one that comes    *)
(* when the time is just over is taken.                                    *)
NoUnitMissed ==
    [][\A u \in Users : pc[u] \in {"awake", "expired"} /\ pc'[u] = "idle" /\ result'[u] = "TIMEOUT"
            => count = 0]_vars

(* A unit reaches somebody: with units left, no sleeper sleeps for ever.   *)
UnitReachesWaiter ==
    \A u \in Users : (pc[u] = "asleep" /\ count > 0) ~> (pc[u] # "asleep" \/ count = 0)
=============================================================================
