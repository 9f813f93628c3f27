------------------------------ MODULE OsTimers ------------------------------
(***************************************************************************)
(* What utils/mini/include/tel_os_adapter.h promises of a timer, whichever *)
(* of the two adapters is linked: a timer is armed by Start, expires once  *)
(* per arming, is called on one timer task, one callback at a time, and is *)
(* never called again once Delete has returned.  Stop says whether it came *)
(* in time.  PosixTimers and CmsisTimers are shown to implement it.        *)
(***************************************************************************)
EXTENDS Naturals

CONSTANTS Timers,  \* the timer objects, or the slots they live in
          None     \* no timer

VARIABLES state,    \* what became of each timer
          due,      \* expiries of each timer whose callback has not begun
          running,  \* the timer whose callback runs
          answer    \* the last answer a call gave, with the timer it was about

vars == <<state, due, running, answer>>

Results == {"OK", "FAIL", "INVALID_PARAM", "NO_RESOURCE"}
Answer(t, r) == answer' = [timer |-> t, result |-> r]

TypeOK ==
    /\ state \in [Timers -> {"none", "idle", "pending", "closing"}]
    /\ due \in [Timers -> Nat]
    /\ running \in Timers \cup {None}
    /\ answer \in [timer : Timers \cup {None}, result : Results]

Init ==
    /\ state = [t \in Timers |-> "none"]
    /\ due = [t \in Timers |-> 0]
    /\ running = None
    /\ answer = [timer |-> None, result |-> "OK"]

Create(t) ==
    /\ state[t] = "none"
    /\ state' = [state EXCEPT ![t] = "idle"]
    /\ Answer(t, "OK")
    /\ UNCHANGED <<due, running>>

(* No room for another timer. *)
RefuseCreate == Answer(None, "NO_RESOURCE") /\ UNCHANGED <<state, due, running>>

(* Start arms the timer, or arms it anew. *)
Start(t) ==
    /\ state[t] \in {"idle", "pending"}
    /\ state' = [state EXCEPT ![t] = "pending"]
    /\ Answer(t, "OK")
    /\ UNCHANGED <<due, running>>

(* Stop says OK only of a timer that was still pending. *)
Stop(t) ==
    /\ state[t] \in {"idle", "pending"}
    /\ state' = [state EXCEPT ![t] = "idle"]
    /\ Answer(t, IF state[t] = "pending" THEN "OK" ELSE "FAIL")
    /\ UNCHANGED <<due, running>>

(* A pending timer expires once; its callback is owed. *)
Expire(t) ==
    /\ state[t] = "pending"
    /\ state' = [state EXCEPT ![t] = "idle"]
    /\ due' = [due EXCEPT ![t] = @ + 1]
    /\ UNCHANGED <<running, answer>>

Run(t) ==
    /\ running = None
    /\ due[t] > 0
    /\ due' = [due EXCEPT ![t] = @ - 1]
    /\ running' = t
    /\ UNCHANGED <<state, answer>>

Return == running # None /\ running' = None /\ UNCHANGED <<state, due, answer>>

BeginDelete(t) ==
    /\ state[t] \in {"idle", "pending"}
    /\ state' = [state EXCEPT ![t] = "closing"]
    /\ UNCHANGED <<due, running, answer>>

(* Delete has nothing to delete, or was called from the timer's callback. *)
RefuseDelete(t) ==
    /\ state[t] \in {"none", "closing"} \/ running = t
    /\ Answer(t, "INVALID_PARAM")
    /\ UNCHANGED <<state, due, running>>

(* Delete returns when no callback of the timer runs or is still owed. *)
EndDelete(t) ==
    /\ state[t] = "closing"
    /\ due[t] = 0
    /\ running # t
    /\ state' = [state EXCEPT ![t] = "none"]
    /\ Answer(t, "OK")
    /\ UNCHANGED <<due, running>>

Next ==
    \/ \E t \in Timers :
        \/ Create(t) \/ Start(t) \/ Stop(t) \/ Expire(t) \/ Run(t)
        \/ BeginDelete(t) \/ RefuseDelete(t) \/ EndDelete(t)
    \/ RefuseCreate
    \/ Return

Spec == Init /\ [][Next]_vars
=============================================================================
