-------------------------------- MODULE RefBase --------------------------------
(***************************************************************************)
(* One reference-counted object, shared by tasks that each own at most one *)
(* sptr and one wptr to it: RefBase, RefCounter, sptr and wptr.  Every     *)
(* operation on an atomic of the counter is a step.  A task copies a       *)
(* pointer only while it holds it, and hands the copy to a task that has   *)
(* none (an argument, a member set under a lock, a message).               *)
(***************************************************************************)
EXTENDS Naturals, FiniteSets

CONSTANTS
    Tasks,              \* the tasks that share the object
    CounterCanFail      \* can new RefCounter return null

ASSUME RefAssumption == IsFiniteSet(Tasks) /\ CounterCanFail \in BOOLEAN

VARIABLES
    object,     \* the object: not made yet, alive, or destroyed
    counter,    \* its RefCounter: none, live, freed, or null (no memory)
    strong,     \* strong_
    weak,       \* weak_
    held,       \* tasks that own an sptr to the object
    watching,   \* tasks that own a wptr to it
    pc, op,     \* each task's program point, and the operation it is in
    current     \* local variable of AttemptIncStrong

objectVars == <<object, counter>>
countVars == <<strong, weak>>
handleVars == <<held, watching>>
vars == <<objectVars, countVars, handleVars, pc, op, current>>

Pc == {"idle", "inc_weak", "inc_strong", "give", "dec_strong", "destroy",
       "object_weak", "dec_weak", "load", "cas", "attempt_weak", "watch",
       "watch_give", "unwatch"}
Op == {"none", "create", "copy", "drop", "promote", "watch"}

TypeOK ==
    /\ object \in {"none", "alive", "destroyed"}
    /\ counter \in {"none", "live", "freed", "null"}
    /\ strong \in Nat /\ weak \in Nat
    /\ held \subseteq Tasks /\ watching \subseteq Tasks
    /\ pc \in [Tasks -> Pc]
    /\ op \in [Tasks -> Op]
    /\ current \in [Tasks -> Nat]

Init ==
    /\ object = "none" /\ counter = "none"
    /\ strong = 0 /\ weak = 0
    /\ held = {} /\ watching = {}
    /\ pc = [t \in Tasks |-> "idle"]
    /\ op = [t \in Tasks |-> "none"]
    /\ current = [t \in Tasks |-> 0]

Goto(t, p) == pc' = [pc EXCEPT ![t] = p]
Start(t, p, o) == pc[t] = "idle" /\ Goto(t, p) /\ op' = [op EXCEPT ![t] = o]
Finish(t) == Goto(t, "idle") /\ op' = [op EXCEPT ![t] = "none"]

\* The object was made with a counter; without one the calls below return at
\* once and count nothing.
Counted == counter \in {"live", "freed"}

-----------------------------------------------------------------------------
(***************************************************************************)
(* The counter.                                                            *)
(***************************************************************************)
IncWeak == weak' = weak + 1 /\ UNCHANGED <<strong, objectVars>>

\* fetch_sub, and the counter goes with the last reference.
DecWeak ==
    /\ weak' = weak - 1
    /\ counter' = IF weak = 1 THEN "freed" ELSE counter
    /\ UNCHANGED <<strong, object>>

-----------------------------------------------------------------------------
(***************************************************************************)
(* sptr: made from a new object, copied, dropped.                          *)
(***************************************************************************)
\* new T: the counter starts with the weak reference of the living object.
Create(t) ==
    /\ object = "none"
    /\ object' = "alive"
    /\ \/ /\ counter' = "live"
          /\ weak' = 1
          /\ Start(t, "inc_weak", "create")
          /\ UNCHANGED held
       \/ /\ CounterCanFail
          /\ counter' = "null"
          /\ pc[t] = "idle"
          /\ held' = {t}
          /\ UNCHANGED <<weak, pc, op>>
    /\ UNCHANGED <<strong, watching, current>>

Copy(t) ==
    /\ t \in held /\ Counted
    /\ Start(t, "inc_weak", "copy")
    /\ UNCHANGED <<objectVars, countVars, handleVars, current>>

\* IncStrongRef and IncStrong: the weak count first.
IncStrongWeak(t) ==
    /\ pc[t] = "inc_weak"
    /\ IncWeak
    /\ Goto(t, "inc_strong")
    /\ UNCHANGED <<handleVars, op, current>>

IncStrongStrong(t) ==
    /\ pc[t] = "inc_strong"
    /\ strong' = strong + 1
    /\ \/ op[t] = "create" /\ held' = held \cup {t} /\ Finish(t)
       \/ op[t] = "copy" /\ Goto(t, "give") /\ UNCHANGED <<held, op>>
       \/ op[t] = "promote" /\ held' = held \cup {t} /\ Goto(t, "dec_strong")
          /\ UNCHANGED op
    /\ UNCHANGED <<objectVars, weak, watching, current>>

\* The copy becomes another task's sptr, or goes out of scope.
Give(t) ==
    /\ pc[t] = "give"
    /\ \/ \E u \in Tasks \ held :
             /\ pc[u] = "idle"
             /\ held' = held \cup {u}
             /\ Finish(t)
       \/ Goto(t, "dec_strong") /\ op' = [op EXCEPT ![t] = "drop"]
          /\ UNCHANGED held
    /\ UNCHANGED <<objectVars, countVars, watching, current>>

\* ~sptr, clear and assignment: the pointer is forgotten, then released.
Drop(t) ==
    /\ t \in held /\ Counted
    /\ Start(t, "dec_strong", "drop")
    /\ held' = held \ {t}
    /\ UNCHANGED <<objectVars, countVars, watching, current>>

\* Without a counter DecStrongRef returns at once.
DropUncounted(t) ==
    /\ t \in held /\ ~Counted
    /\ pc[t] = "idle"
    /\ held' = held \ {t}
    /\ UNCHANGED <<objectVars, countVars, watching, pc, op, current>>

\* DecStrong: the one whose fetch_sub found 1 destroys the object.
Last(n) == n = 1

DecStrong(t) ==
    /\ pc[t] = "dec_strong"
    /\ strong' = strong - 1
    /\ Goto(t, IF Last(strong) THEN "destroy" ELSE "dec_weak")
    /\ UNCHANGED <<objectVars, weak, handleVars, op, current>>

\* OnLastStrongRef and delete this, up to the body of ~RefBase.
Destroy(t) ==
    /\ pc[t] = "destroy"
    /\ object' = "destroyed"
    /\ Goto(t, "object_weak")
    /\ UNCHANGED <<counter, countVars, handleVars, op, current>>

\* ~RefBase gives up the object's weak reference.
ObjectWeak(t) ==
    /\ pc[t] = "object_weak"
    /\ DecWeak
    /\ Goto(t, "dec_weak")
    /\ UNCHANGED <<handleVars, op, current>>

\* The weak reference that went with the strong one.
DecStrongWeak(t) ==
    /\ pc[t] = "dec_weak"
    /\ DecWeak
    /\ Finish(t)
    /\ UNCHANGED <<handleVars, current>>

-----------------------------------------------------------------------------
(***************************************************************************)
(* wptr: attached, copied, detached, promoted.                             *)
(***************************************************************************)
\* Attach of refbase.h:254 uses the counter without a test: a wptr to an object
\* whose counter could not be allocated is a null dereference, which has no
\* outcome to model.  wptr is for counted objects.
Attach(t) ==
    /\ t \in held /\ t \notin watching /\ Counted
    /\ Start(t, "watch", "watch")
    /\ UNCHANGED <<objectVars, countVars, handleVars, current>>

CopyWeak(t) ==
    /\ t \in watching
    /\ Start(t, "watch", "copy")
    /\ UNCHANGED <<objectVars, countVars, handleVars, current>>

WatchWeak(t) ==
    /\ pc[t] = "watch"
    /\ IncWeak
    /\ IF op[t] = "watch"
       THEN watching' = watching \cup {t} /\ Finish(t)
       ELSE Goto(t, "watch_give") /\ UNCHANGED <<watching, op>>
    /\ UNCHANGED <<held, current>>

GiveWeak(t) ==
    /\ pc[t] = "watch_give"
    /\ \/ \E u \in Tasks \ watching :
             /\ pc[u] = "idle"
             /\ watching' = watching \cup {u}
             /\ Finish(t)
       \/ Goto(t, "unwatch") /\ UNCHANGED <<watching, op>>
    /\ UNCHANGED <<objectVars, countVars, held, current>>

Detach(t) ==
    /\ t \in watching
    /\ Start(t, "unwatch", "watch")
    /\ watching' = watching \ {t}
    /\ UNCHANGED <<objectVars, countVars, held, current>>

UnwatchWeak(t) ==
    /\ pc[t] = "unwatch"
    /\ DecWeak
    /\ Finish(t)
    /\ UNCHANGED <<handleVars, current>>

Promote(t) ==
    /\ t \in watching /\ t \notin held
    /\ Start(t, "load", "promote")
    /\ UNCHANGED <<objectVars, countVars, handleVars, current>>

\* The loop of AttemptIncStrong goes on while the count it saw is not zero;
\* otherwise promote returns an empty sptr.
Attempt(t, n) ==
    IF n > 0
    THEN /\ current' = [current EXCEPT ![t] = n]
         /\ Goto(t, "cas")
         /\ UNCHANGED op
    ELSE Finish(t) /\ UNCHANGED current

AttemptLoad(t) ==
    /\ pc[t] = "load"
    /\ Attempt(t, strong)
    /\ UNCHANGED <<objectVars, countVars, handleVars>>

\* The exchange succeeds only on the count that was seen; a mismatch, or a
\* spurious failure, loads it again.
AttemptCasMutant(t) ==
    /\ pc[t] = "cas"
    /\ strong' = strong + 1
    /\ Goto(t, "attempt_weak")
    /\ UNCHANGED <<op, current>>
    /\ UNCHANGED <<objectVars, weak, handleVars>>
AttemptCas(t) ==
    /\ pc[t] = "cas"
    /\ \/ /\ strong = current[t]
          /\ strong' = strong + 1
          /\ Goto(t, "attempt_weak")
          /\ UNCHANGED <<op, current>>
       \/ Attempt(t, strong) /\ UNCHANGED strong
    /\ UNCHANGED <<objectVars, weak, handleVars>>

\* The weak count after the strong one; then sptr strong(ptr_) takes a
\* reference of its own, and the one of the attempt is dropped.
AttemptWeak(t) ==
    /\ pc[t] = "attempt_weak"
    /\ IncWeak
    /\ Goto(t, "inc_weak")
    /\ UNCHANGED <<handleVars, op, current>>

Begin(t) ==
    \/ Create(t) \/ Copy(t) \/ Drop(t) \/ DropUncounted(t)
    \/ Attach(t) \/ CopyWeak(t) \/ Detach(t) \/ Promote(t)

Step(t) ==
    \/ IncStrongWeak(t) \/ IncStrongStrong(t) \/ Give(t) \/ DecStrong(t)
    \/ Destroy(t) \/ ObjectWeak(t) \/ DecStrongWeak(t)
    \/ WatchWeak(t) \/ GiveWeak(t) \/ UnwatchWeak(t)
    \/ AttemptLoad(t) \/ AttemptCas(t) \/ AttemptWeak(t)

Next == \E t \in Tasks : Begin(t) \/ Step(t)

Spec == Init /\ [][Next]_vars

-----------------------------------------------------------------------------
(***************************************************************************)
(* What the pointers promise.                                              *)
(***************************************************************************)
\* Nobody touches the object or its counter after it is gone, whatever the
\* order in which the references go (DecStrongRef, DecWeak,
\* AttemptIncStrong, promote).
TouchesObject == {"inc_weak", "inc_strong", "give", "dec_strong", "destroy",
                  "attempt_weak"}
TouchesCounter == TouchesObject \cup {"object_weak", "dec_weak", "load", "cas",
                                      "watch", "unwatch"}
NoUseAfterFree ==
    \A t \in Tasks :
        /\ pc[t] \in TouchesObject => object = "alive"
        /\ pc[t] \in TouchesCounter => counter = "live"

\* An sptr keeps the object, a wptr the counter: what promote returns is
\* alive, also when the last sptr goes at the same time.
HandlesKeep ==
    /\ held # {} => object = "alive"
    /\ watching # {} => counter = "live"

\* The object is destroyed once (DecStrong decides who does it).
DestroyedByOne ==
    \A t, u \in Tasks :
        pc[t] \in {"destroy", "object_weak"} /\ pc[u] \in {"destroy", "object_weak"}
            => t = u

\* When no pointer is left and every operation is over, object and counter
\* are gone (DecStrongRef, ~RefBase, DecWeak).
AllIdle == \A t \in Tasks : pc[t] = "idle"
NothingLeaks ==
    Counted /\ AllIdle =>
        /\ held = {} => object = "destroyed"
        /\ held = {} /\ watching = {} => counter = "freed"

\* Whatever the order in which the references go, nobody uses what was freed,
\* what a pointer holds is there, and what nobody holds goes, once.
PointersSound ==
    NoUseAfterFree /\ HandlesKeep /\ DestroyedByOne /\ NothingLeaks

\* "an object is destroyed when its last sptr goes away" (refbase.h), also
\* one that was made when memory was short (RefBase::RefBase).
DestroyedWithLastSptr ==
    object # "none" /\ AllIdle /\ held = {} => object = "destroyed"
=============================================================================
