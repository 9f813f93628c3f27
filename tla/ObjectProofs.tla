---------------------------- MODULE ObjectProofs ----------------------------
(***************************************************************************)
(* Theorems about the objects of MCObjects.  The counts of RefBase are the *)
(* number of references there are, for every number of tasks, and so       *)
(* nothing is used after it is freed.  The record of a call keeps what it  *)
(* says, for every set of call types, every length of the behaviour and    *)
(* every number of rejections under way; only TimesAreOrdered needs the    *)
(* order in which the stack reports the states.  The conferences stay in   *)
(* order for every number of calls and slots and whatever the stack        *)
(* reports, of calls that move from IMS to CS.                             *)
(***************************************************************************)
EXTENDS MCObjects, FiniteSetTheorems, NaturalsInduction, SequenceTheorems, TLAPS

-----------------------------------------------------------------------------
(***************************************************************************)
(* The shared object and its pointers.                                     *)
(***************************************************************************)
\* Tasks with a strong reference in an operation, beside the sptr they own.
TempStrong ==
    {t \in Tasks : \/ pc[t] \in {"give", "dec_strong", "attempt_weak"}
                   \/ op[t] = "promote" /\ pc[t] \in {"inc_weak", "inc_strong"}}

\* Tasks with a weak reference in an operation, beside the pointers they own.
TempWeak ==
    {t \in Tasks : \/ pc[t] \in {"give", "dec_strong", "destroy", "object_weak",
                                 "dec_weak", "watch_give", "unwatch"}
                   \/ op[t] = "promote" /\ pc[t] \in {"inc_weak", "inc_strong"}}

\* Those that have counted the weak half of a new strong reference.
NewWeak == {t \in Tasks : pc[t] = "inc_strong"}

\* The weak reference of the object, until ~RefBase has given it up.
LastWeak == {t \in Tasks : pc[t] = "object_weak"}
ObjectRef == IF object = "alive" THEN 1 ELSE Cardinality(LastWeak)

Count ==
    Counted =>
        /\ strong = Cardinality(held) + Cardinality(TempStrong)
        /\ weak = ObjectRef + Cardinality(held) + Cardinality(watching)
                    + Cardinality(TempWeak) + Cardinality(NewWeak)
        /\ counter = "live" <=> weak > 0

\* Where a task can be in each operation, and what it owns meanwhile.
Shape ==
    \A t \in Tasks :
        /\ op[t] = "none" <=> pc[t] = "idle"
        /\ op[t] = "create" => pc[t] \in {"inc_weak", "inc_strong"}
        /\ op[t] = "drop" => pc[t] \in {"dec_strong", "destroy", "object_weak", "dec_weak"}
        /\ op[t] = "watch" => pc[t] \in {"watch", "unwatch"}
        /\ op[t] = "copy" => pc[t] \in {"inc_weak", "inc_strong", "give", "watch",
                                        "watch_give", "unwatch"}
        /\ op[t] = "promote" =>
              /\ t \in watching
              /\ pc[t] \in {"load", "cas", "attempt_weak", "inc_weak", "inc_strong",
                            "dec_strong", "destroy", "object_weak", "dec_weak"}
        /\ op[t] = "promote" /\ pc[t] \in {"load", "cas", "attempt_weak", "inc_weak",
                                           "inc_strong"} => t \notin held
        /\ op[t] = "watch" /\ pc[t] = "watch" => t \notin watching
        /\ op[t] = "copy" /\ pc[t] \in {"inc_weak", "inc_strong"} => t \in held
        /\ op[t] = "watch" /\ pc[t] = "watch" => t \in held
        /\ op[t] = "copy" /\ pc[t] = "watch" => t \in watching
        /\ pc[t] \in {"load", "cas", "attempt_weak"} => op[t] = "promote"
        /\ pc[t] = "cas" => current[t] > 0

\* The life of the object.
Life ==
    /\ object = "none" <=> counter = "none"
    /\ counter \in {"none", "null"} =>
          strong = 0 /\ weak = 0 /\ watching = {} /\ AllIdle
    /\ object = "none" => held = {}
    /\ counter = "null" => object = "alive"
    /\ strong > 0 => object = "alive"
    /\ Counted /\ object = "alive" =>
          strong > 0 \/ \E t \in Tasks : pc[t] = "destroy" \/ op[t] = "create"
    /\ \A t \in Tasks :
          /\ op[t] = "create" =>
                /\ object = "alive" /\ strong = 0 /\ watching = {}
                /\ \A u \in Tasks \ {t} : pc[u] = "idle"
          /\ pc[t] = "destroy" => object = "alive" /\ strong = 0
          /\ pc[t] = "object_weak" => object = "destroyed"

RefInv == TypeOK /\ Shape /\ Count /\ Life /\ DestroyedByOne

-----------------------------------------------------------------------------
(* Cardinalities of sets of tasks.                                         *)

LEMMA TaskSets ==
    ASSUME NEW S \in SUBSET Tasks
    PROVE  /\ IsFiniteSet(S) /\ Cardinality(S) \in Nat
           /\ Cardinality(S) = 0 <=> S = {}
           /\ \A t \in Tasks :
                 /\ Cardinality(S \cup {t}) =
                       IF t \in S THEN Cardinality(S) ELSE Cardinality(S) + 1
                 /\ Cardinality(S \ {t}) =
                       IF t \in S THEN Cardinality(S) - 1 ELSE Cardinality(S)
                 /\ t \in S => Cardinality(S) > 0
<1>1. IsFiniteSet(S)
  BY RefAssumption, FS_Subset DEF RefAssumption
<1>2. Cardinality(S) \in Nat /\ (Cardinality(S) = 0 <=> S = {})
  BY <1>1, FS_CardinalityType, FS_EmptySet
<1>3. ASSUME NEW t \in Tasks
      PROVE  /\ Cardinality(S \cup {t}) =
                   IF t \in S THEN Cardinality(S) ELSE Cardinality(S) + 1
             /\ Cardinality(S \ {t}) =
                   IF t \in S THEN Cardinality(S) - 1 ELSE Cardinality(S)
             /\ t \in S => Cardinality(S) > 0
  <2>1. Cardinality(S \cup {t}) =
           IF t \in S THEN Cardinality(S) ELSE Cardinality(S) + 1
    BY <1>1, FS_AddElement
  <2>2. Cardinality(S \ {t}) =
           IF t \in S THEN Cardinality(S) - 1 ELSE Cardinality(S)
    BY <1>1, FS_RemoveElement
  <2>3. t \in S => Cardinality(S) > 0
    BY <1>2
  <2> QED BY <2>1, <2>2, <2>3
<1> QED BY <1>1, <1>2, <1>3

-----------------------------------------------------------------------------
(* Every step keeps the counts.                                            *)

LEMMA SetsOfTasks ==
    /\ TempStrong \in SUBSET Tasks /\ TempWeak \in SUBSET Tasks
    /\ NewWeak \in SUBSET Tasks /\ LastWeak \in SUBSET Tasks
    /\ ObjectRef \in Nat
<1>1. TempStrong \in SUBSET Tasks /\ TempWeak \in SUBSET Tasks
      /\ NewWeak \in SUBSET Tasks /\ LastWeak \in SUBSET Tasks
  BY DEF TempStrong, TempWeak, NewWeak, LastWeak
<1> QED BY <1>1, TaskSets DEF ObjectRef

\* Who has a reference keeps the counter, who has a strong one the object.
LEMMA References ==
    ASSUME RefInv, NEW t \in Tasks
    PROVE  /\ pc[t] # "idle" => Counted
           /\ Counted /\ (t \in held \/ t \in TempStrong) => strong > 0 /\ object = "alive"
           /\ Counted /\ (t \in held \/ t \in watching \/ t \in TempWeak \/ t \in NewWeak)
                 => weak > 0 /\ counter = "live"
           /\ Counted /\ object = "alive" => weak > 0 /\ counter = "live"
<1> USE SetsOfTasks
<1>1. held \in SUBSET Tasks /\ watching \in SUBSET Tasks
  BY DEF RefInv, TypeOK
<1>2. pc[t] # "idle" => Counted
  BY DEF RefInv, Life, AllIdle, TypeOK, Counted
<1>3. /\ Cardinality(held) \in Nat /\ Cardinality(watching) \in Nat
      /\ Cardinality(TempStrong) \in Nat /\ Cardinality(TempWeak) \in Nat
      /\ Cardinality(NewWeak) \in Nat
      /\ t \in held => Cardinality(held) > 0
      /\ t \in watching => Cardinality(watching) > 0
      /\ t \in TempStrong => Cardinality(TempStrong) > 0
      /\ t \in TempWeak => Cardinality(TempWeak) > 0
      /\ t \in NewWeak => Cardinality(NewWeak) > 0
  BY <1>1, TaskSets
<1>4. Counted /\ (t \in held \/ t \in TempStrong) => strong > 0
  BY <1>3 DEF RefInv, Count
<1>5. strong > 0 => object = "alive"
  BY DEF RefInv, Life
<1>6. Counted /\ (t \in held \/ t \in watching \/ t \in TempWeak \/ t \in NewWeak)
         => weak > 0
  BY <1>3 DEF RefInv, Count
<1>7. Counted /\ object = "alive" => weak > 0
  BY <1>3 DEF RefInv, Count, ObjectRef
<1>8. Counted /\ weak > 0 => counter = "live"
  BY DEF RefInv, Count
<1> QED BY <1>2, <1>4, <1>5, <1>6, <1>7, <1>8

LEMMA CopyStep ==
    ASSUME RefInv, NEW t \in Tasks, Copy(t)
    PROVE  RefInv'
<1> USE
   DEF Goto, Start, Finish, IncWeak, DecWeak, objectVars, countVars,
       handleVars
<1>1. /\ pc[t] # "idle" => Counted
      /\ Counted /\ (t \in held \/ t \in TempStrong) => strong > 0 /\ object = "alive"
      /\ Counted /\ (t \in held \/ t \in watching \/ t \in TempWeak \/ t \in NewWeak)
            => weak > 0 /\ counter = "live"
      /\ Counted /\ object = "alive" => weak > 0 /\ counter = "live"
  BY References
<1>2. TypeOK'
  BY <1>1 DEF RefInv, TypeOK, Copy, Pc, Op, TempStrong, TempWeak, Shape
<1>3. Shape'
  BY <1>1 DEF RefInv, TypeOK, Shape, Copy, Life
<1>5. /\ Cardinality(held) \in Nat /\ Cardinality(watching) \in Nat
      /\ Cardinality(TempStrong) \in Nat /\ Cardinality(TempWeak) \in Nat
      /\ Cardinality(NewWeak) \in Nat /\ Cardinality(LastWeak) \in Nat
  BY TaskSets, SetsOfTasks DEF RefInv, TypeOK
<1>6. Count'
  <2>1. /\ held' = held
        /\ watching' = watching
        /\ TempStrong' = TempStrong
        /\ TempWeak' = TempWeak
        /\ NewWeak' = NewWeak
        /\ LastWeak' = LastWeak
    BY <1>1
       DEF RefInv, TypeOK, Shape, Life, Copy, TempStrong, TempWeak,
           NewWeak, LastWeak
  <2>2. TRUE
    BY <1>1
       DEF RefInv, TypeOK, Shape, Life, Copy, TempStrong, TempWeak,
           NewWeak, LastWeak, Counted
  <2>3. /\ Cardinality(held)' = Cardinality(held)
        /\ Cardinality(watching)' = Cardinality(watching)
        /\ Cardinality(TempStrong)' = Cardinality(TempStrong)
        /\ Cardinality(TempWeak)' = Cardinality(TempWeak)
        /\ Cardinality(NewWeak)' = Cardinality(NewWeak)
        /\ Cardinality(LastWeak)' = Cardinality(LastWeak)
    BY <2>1, <2>2, TaskSets, SetsOfTasks DEF RefInv, TypeOK
  <2>4. ObjectRef' = ObjectRef
    BY <1>1, <1>5, <2>1, <2>2, <2>3 DEF RefInv, TypeOK, Life, ObjectRef, Copy
  <2>5. /\ strong' = strong /\ weak' = weak /\ (Counted' => Counted)
        /\ (Counted => (counter' = "live" <=> weak' > 0))
    BY <1>1, <1>5
       DEF RefInv, TypeOK, Shape, Count, Counted, Copy, TempWeak,
           TempStrong
  <2>6. ObjectRef \in Nat
    BY SetsOfTasks
  <2>7. Counted =>
           /\ strong = Cardinality(held) + Cardinality(TempStrong)
           /\ weak = ObjectRef + Cardinality(held) + Cardinality(watching)
                       + Cardinality(TempWeak) + Cardinality(NewWeak)
    BY DEF RefInv, Count
  <2>8. Counted' => strong' = Cardinality(held)' + Cardinality(TempStrong)'
    BY <1>5, <2>3, <2>5, <2>7
  <2>9. Counted' =>
           weak' = ObjectRef' + Cardinality(held)' + Cardinality(watching)'
                      + Cardinality(TempWeak)' + Cardinality(NewWeak)'
    BY <1>5, <2>3, <2>4, <2>5, <2>6, <2>7
  <2> QED BY <2>5, <2>8, <2>9 DEF Count
<1>7. Life'
  BY <1>1, <1>2
     DEF RefInv, TypeOK, Shape, Life, DestroyedByOne, AllIdle, Counted,
         TempStrong, Copy
<1>8. DestroyedByOne'
  BY <1>1
     DEF RefInv, TypeOK, Shape, Life, DestroyedByOne, Counted,
         TempStrong, Copy
<1> QED BY <1>2, <1>3, <1>6, <1>7, <1>8 DEF RefInv

LEMMA IncStrongWeakStep ==
    ASSUME RefInv, NEW t \in Tasks, IncStrongWeak(t)
    PROVE  RefInv'
<1> USE
   DEF Goto, Start, Finish, IncWeak, DecWeak, objectVars, countVars,
       handleVars
<1>1. /\ pc[t] # "idle" => Counted
      /\ Counted /\ (t \in held \/ t \in TempStrong) => strong > 0 /\ object = "alive"
      /\ Counted /\ (t \in held \/ t \in watching \/ t \in TempWeak \/ t \in NewWeak)
            => weak > 0 /\ counter = "live"
      /\ Counted /\ object = "alive" => weak > 0 /\ counter = "live"
  BY References
<1>2. TypeOK'
  BY <1>1 DEF RefInv, TypeOK, IncStrongWeak, Pc, Op, TempStrong, TempWeak, Shape
<1>3. Shape'
  BY <1>1 DEF RefInv, TypeOK, Shape, IncStrongWeak, Life
<1>5. /\ Cardinality(held) \in Nat /\ Cardinality(watching) \in Nat
      /\ Cardinality(TempStrong) \in Nat /\ Cardinality(TempWeak) \in Nat
      /\ Cardinality(NewWeak) \in Nat /\ Cardinality(LastWeak) \in Nat
  BY TaskSets, SetsOfTasks DEF RefInv, TypeOK
<1>6. Count'
  <2>1. /\ held' = held
        /\ watching' = watching
        /\ TempStrong' = TempStrong
        /\ TempWeak' = TempWeak
        /\ NewWeak' = NewWeak \cup {t}
        /\ LastWeak' = LastWeak
    BY <1>1
       DEF RefInv, TypeOK, Shape, Life, IncStrongWeak, TempStrong,
           TempWeak, NewWeak, LastWeak
  <2>2. t \notin NewWeak
    BY <1>1
       DEF RefInv, TypeOK, Shape, Life, IncStrongWeak, TempStrong,
           TempWeak, NewWeak, LastWeak, Counted
  <2>3. /\ Cardinality(held)' = Cardinality(held)
        /\ Cardinality(watching)' = Cardinality(watching)
        /\ Cardinality(TempStrong)' = Cardinality(TempStrong)
        /\ Cardinality(TempWeak)' = Cardinality(TempWeak)
        /\ Cardinality(NewWeak)' = Cardinality(NewWeak) + 1
        /\ Cardinality(LastWeak)' = Cardinality(LastWeak)
    BY <2>1, <2>2, TaskSets, SetsOfTasks DEF RefInv, TypeOK
  <2>0. Counted /\ counter = "live" /\ weak > 0
    <3>1. op[t] \in {"create", "copy", "promote"} /\ Counted
      BY <1>1 DEF RefInv, TypeOK, Shape, Op, IncStrongWeak
    <3>2. object = "alive"
      BY <1>1, <3>1 DEF RefInv, Shape, Life, TempStrong, IncStrongWeak
    <3> QED BY <1>1, <3>1, <3>2
  <2>4. ObjectRef' = ObjectRef
    BY <1>1, <1>5, <2>1, <2>2, <2>3, <2>0
       DEF RefInv, TypeOK, Life, ObjectRef, IncStrongWeak
  <2>5. /\ strong' = strong /\ weak' = weak + 1 /\ (Counted' => Counted)
        /\ (Counted => (counter' = "live" <=> weak' > 0))
    BY <1>1, <1>5, <2>0
       DEF RefInv, TypeOK, Shape, Count, Counted, IncStrongWeak,
           TempWeak, TempStrong
  <2>6. ObjectRef \in Nat
    BY SetsOfTasks
  <2>7. Counted =>
           /\ strong = Cardinality(held) + Cardinality(TempStrong)
           /\ weak = ObjectRef + Cardinality(held) + Cardinality(watching)
                       + Cardinality(TempWeak) + Cardinality(NewWeak)
    BY DEF RefInv, Count
  <2>8. Counted' => strong' = Cardinality(held)' + Cardinality(TempStrong)'
    BY <1>5, <2>3, <2>5, <2>7
  <2>9. Counted' =>
           weak' = ObjectRef' + Cardinality(held)' + Cardinality(watching)'
                      + Cardinality(TempWeak)' + Cardinality(NewWeak)'
    BY <1>5, <2>3, <2>4, <2>5, <2>6, <2>7
  <2> QED BY <2>5, <2>8, <2>9 DEF Count
<1>7. Life'
  BY <1>1, <1>2
     DEF RefInv, TypeOK, Shape, Life, DestroyedByOne, AllIdle, Counted,
         TempStrong, IncStrongWeak
<1>8. DestroyedByOne'
  BY <1>1
     DEF RefInv, TypeOK, Shape, Life, DestroyedByOne, Counted,
         TempStrong, IncStrongWeak
<1> QED BY <1>2, <1>3, <1>6, <1>7, <1>8 DEF RefInv

LEMMA IncStrongStrongStep ==
    ASSUME RefInv, NEW t \in Tasks, IncStrongStrong(t)
    PROVE  RefInv'
<1> USE
   DEF Goto, Start, Finish, IncWeak, DecWeak, objectVars, countVars,
       handleVars
<1>1. /\ pc[t] # "idle" => Counted
      /\ Counted /\ (t \in held \/ t \in TempStrong) => strong > 0 /\ object = "alive"
      /\ Counted /\ (t \in held \/ t \in watching \/ t \in TempWeak \/ t \in NewWeak)
            => weak > 0 /\ counter = "live"
      /\ Counted /\ object = "alive" => weak > 0 /\ counter = "live"
  BY References
<1>2. TypeOK'
  BY <1>1
     DEF RefInv, TypeOK, IncStrongStrong, Pc, Op, TempStrong, TempWeak,
         Shape
<1>3. Shape'
  BY <1>1 DEF RefInv, TypeOK, Shape, IncStrongStrong, Life
<1>5. /\ Cardinality(held) \in Nat /\ Cardinality(watching) \in Nat
      /\ Cardinality(TempStrong) \in Nat /\ Cardinality(TempWeak) \in Nat
      /\ Cardinality(NewWeak) \in Nat /\ Cardinality(LastWeak) \in Nat
  BY TaskSets, SetsOfTasks DEF RefInv, TypeOK
<1>6. Count'
  <2>1. CASE op[t] = "create"
    <3>1. /\ held' = held \cup {t}
          /\ watching' = watching
          /\ TempStrong' = TempStrong
          /\ TempWeak' = TempWeak
          /\ NewWeak' = NewWeak \ {t}
          /\ LastWeak' = LastWeak
      BY <1>1, <2>1
         DEF RefInv, TypeOK, Shape, Life, IncStrongStrong,
             TempStrong, TempWeak, NewWeak, LastWeak
    <3>2. t \notin held /\ t \in NewWeak
      BY <1>1, <2>1
         DEF RefInv, TypeOK, Shape, Life, IncStrongStrong,
             TempStrong, TempWeak, NewWeak, LastWeak, Counted
    <3>3. /\ Cardinality(held)' = Cardinality(held) + 1
          /\ Cardinality(watching)' = Cardinality(watching)
          /\ Cardinality(TempStrong)' = Cardinality(TempStrong)
          /\ Cardinality(TempWeak)' = Cardinality(TempWeak)
          /\ Cardinality(NewWeak)' = Cardinality(NewWeak) - 1
          /\ Cardinality(LastWeak)' = Cardinality(LastWeak)
      BY <3>1, <3>2, TaskSets, SetsOfTasks DEF RefInv, TypeOK
    <3>4. ObjectRef' = ObjectRef
      BY <1>1, <1>5, <3>1, <3>2, <3>3, <2>1
         DEF RefInv, TypeOK, Life, ObjectRef, IncStrongStrong
    <3>5. /\ strong' = strong + 1 /\ weak' = weak /\ (Counted' => Counted)
          /\ (Counted => (counter' = "live" <=> weak' > 0))
      BY <1>1, <1>5, <2>1
         DEF RefInv, TypeOK, Shape, Count, Counted,
             IncStrongStrong, TempWeak, TempStrong
    <3>6. ObjectRef \in Nat
      BY SetsOfTasks
    <3>7. Counted =>
             /\ strong = Cardinality(held) + Cardinality(TempStrong)
             /\ weak = ObjectRef + Cardinality(held) + Cardinality(watching)
                         + Cardinality(TempWeak) + Cardinality(NewWeak)
      BY DEF RefInv, Count
    <3>8. Counted' => strong' = Cardinality(held)' + Cardinality(TempStrong)'
      BY <1>5, <3>3, <3>5, <3>7
    <3>9. Counted' =>
             weak' = ObjectRef' + Cardinality(held)' + Cardinality(watching)'
                        + Cardinality(TempWeak)' + Cardinality(NewWeak)'
      BY <1>5, <3>3, <3>4, <3>5, <3>6, <3>7
    <3> QED BY <3>5, <3>8, <3>9 DEF Count
  <2>2. CASE op[t] = "copy"
    <3>1. /\ held' = held
          /\ watching' = watching
          /\ TempStrong' = TempStrong \cup {t}
          /\ TempWeak' = TempWeak \cup {t}
          /\ NewWeak' = NewWeak \ {t}
          /\ LastWeak' = LastWeak
      BY <1>1, <2>2
         DEF RefInv, TypeOK, Shape, Life, IncStrongStrong,
             TempStrong, TempWeak, NewWeak, LastWeak
    <3>2. t \notin TempStrong /\ t \notin TempWeak /\ t \in NewWeak
      BY <1>1, <2>2
         DEF RefInv, TypeOK, Shape, Life, IncStrongStrong,
             TempStrong, TempWeak, NewWeak, LastWeak, Counted
    <3>3. /\ Cardinality(held)' = Cardinality(held)
          /\ Cardinality(watching)' = Cardinality(watching)
          /\ Cardinality(TempStrong)' = Cardinality(TempStrong) + 1
          /\ Cardinality(TempWeak)' = Cardinality(TempWeak) + 1
          /\ Cardinality(NewWeak)' = Cardinality(NewWeak) - 1
          /\ Cardinality(LastWeak)' = Cardinality(LastWeak)
      BY <3>1, <3>2, TaskSets, SetsOfTasks DEF RefInv, TypeOK
    <3>4. ObjectRef' = ObjectRef
      BY <1>1, <1>5, <3>1, <3>2, <3>3, <2>2
         DEF RefInv, TypeOK, Life, ObjectRef, IncStrongStrong
    <3>5. /\ strong' = strong + 1 /\ weak' = weak /\ (Counted' => Counted)
          /\ (Counted => (counter' = "live" <=> weak' > 0))
      BY <1>1, <1>5, <2>2
         DEF RefInv, TypeOK, Shape, Count, Counted,
             IncStrongStrong, TempWeak, TempStrong
    <3>6. ObjectRef \in Nat
      BY SetsOfTasks
    <3>7. Counted =>
             /\ strong = Cardinality(held) + Cardinality(TempStrong)
             /\ weak = ObjectRef + Cardinality(held) + Cardinality(watching)
                         + Cardinality(TempWeak) + Cardinality(NewWeak)
      BY DEF RefInv, Count
    <3>8. Counted' => strong' = Cardinality(held)' + Cardinality(TempStrong)'
      BY <1>5, <3>3, <3>5, <3>7
    <3>9. Counted' =>
             weak' = ObjectRef' + Cardinality(held)' + Cardinality(watching)'
                        + Cardinality(TempWeak)' + Cardinality(NewWeak)'
      BY <1>5, <3>3, <3>4, <3>5, <3>6, <3>7
    <3> QED BY <3>5, <3>8, <3>9 DEF Count
  <2>3. CASE op[t] = "promote"
    <3>1. /\ held' = held \cup {t}
          /\ watching' = watching
          /\ TempStrong' = TempStrong
          /\ TempWeak' = TempWeak
          /\ NewWeak' = NewWeak \ {t}
          /\ LastWeak' = LastWeak
      BY <1>1, <2>3
         DEF RefInv, TypeOK, Shape, Life, IncStrongStrong,
             TempStrong, TempWeak, NewWeak, LastWeak
    <3>2. t \notin held /\ t \in NewWeak
      BY <1>1, <2>3
         DEF RefInv, TypeOK, Shape, Life, IncStrongStrong,
             TempStrong, TempWeak, NewWeak, LastWeak, Counted
    <3>3. /\ Cardinality(held)' = Cardinality(held) + 1
          /\ Cardinality(watching)' = Cardinality(watching)
          /\ Cardinality(TempStrong)' = Cardinality(TempStrong)
          /\ Cardinality(TempWeak)' = Cardinality(TempWeak)
          /\ Cardinality(NewWeak)' = Cardinality(NewWeak) - 1
          /\ Cardinality(LastWeak)' = Cardinality(LastWeak)
      BY <3>1, <3>2, TaskSets, SetsOfTasks DEF RefInv, TypeOK
    <3>4. ObjectRef' = ObjectRef
      BY <1>1, <1>5, <3>1, <3>2, <3>3, <2>3
         DEF RefInv, TypeOK, Life, ObjectRef, IncStrongStrong
    <3>5. /\ strong' = strong + 1 /\ weak' = weak /\ (Counted' => Counted)
          /\ (Counted => (counter' = "live" <=> weak' > 0))
      BY <1>1, <1>5, <2>3
         DEF RefInv, TypeOK, Shape, Count, Counted,
             IncStrongStrong, TempWeak, TempStrong
    <3>6. ObjectRef \in Nat
      BY SetsOfTasks
    <3>7. Counted =>
             /\ strong = Cardinality(held) + Cardinality(TempStrong)
             /\ weak = ObjectRef + Cardinality(held) + Cardinality(watching)
                         + Cardinality(TempWeak) + Cardinality(NewWeak)
      BY DEF RefInv, Count
    <3>8. Counted' => strong' = Cardinality(held)' + Cardinality(TempStrong)'
      BY <1>5, <3>3, <3>5, <3>7
    <3>9. Counted' =>
             weak' = ObjectRef' + Cardinality(held)' + Cardinality(watching)'
                        + Cardinality(TempWeak)' + Cardinality(NewWeak)'
      BY <1>5, <3>3, <3>4, <3>5, <3>6, <3>7
    <3> QED BY <3>5, <3>8, <3>9 DEF Count
  <2> QED BY <2>1, <2>2, <2>3 DEF IncStrongStrong, RefInv, Shape, TypeOK, Op
<1>7. Life'
  BY <1>1, <1>2
     DEF RefInv, TypeOK, Shape, Life, DestroyedByOne, AllIdle, Counted,
         TempStrong, IncStrongStrong
<1>8. DestroyedByOne'
  BY <1>1
     DEF RefInv, TypeOK, Shape, Life, DestroyedByOne, Counted,
         TempStrong, IncStrongStrong
<1> QED BY <1>2, <1>3, <1>6, <1>7, <1>8 DEF RefInv

LEMMA GiveStep ==
    ASSUME RefInv, NEW t \in Tasks, Give(t)
    PROVE  RefInv'
<1> USE
   DEF Goto, Start, Finish, IncWeak, DecWeak, objectVars, countVars,
       handleVars
<1>1. /\ pc[t] # "idle" => Counted
      /\ Counted /\ (t \in held \/ t \in TempStrong) => strong > 0 /\ object = "alive"
      /\ Counted /\ (t \in held \/ t \in watching \/ t \in TempWeak \/ t \in NewWeak)
            => weak > 0 /\ counter = "live"
      /\ Counted /\ object = "alive" => weak > 0 /\ counter = "live"
  BY References
<1>2. TypeOK'
  BY <1>1 DEF RefInv, TypeOK, Give, Pc, Op, TempStrong, TempWeak, Shape
<1>3. Shape'
  BY <1>1 DEF RefInv, TypeOK, Shape, Give, Life
<1>5. /\ Cardinality(held) \in Nat /\ Cardinality(watching) \in Nat
      /\ Cardinality(TempStrong) \in Nat /\ Cardinality(TempWeak) \in Nat
      /\ Cardinality(NewWeak) \in Nat /\ Cardinality(LastWeak) \in Nat
  BY TaskSets, SetsOfTasks DEF RefInv, TypeOK
<1>6. Count'
  <2>1. CASE \E u \in Tasks \ held : pc[u] = "idle" /\ held' = held \cup {u} /\ Finish(t)
    <3>0. PICK u \in Tasks \ held : pc[u] = "idle" /\ held' = held \cup {u} /\ Finish(t)
      BY <2>1 DEF Give
    <3>1. /\ held' = held \cup {u}
          /\ watching' = watching
          /\ TempStrong' = TempStrong \ {t}
          /\ TempWeak' = TempWeak \ {t}
          /\ NewWeak' = NewWeak
          /\ LastWeak' = LastWeak
      BY <1>1, <2>1, <3>0
         DEF RefInv, TypeOK, Shape, Life, Give, TempStrong,
             TempWeak, NewWeak, LastWeak
    <3>2. u \notin held /\ t \in TempStrong /\ t \in TempWeak
      BY <1>1, <2>1, <3>0
         DEF RefInv, TypeOK, Shape, Life, Give, TempStrong,
             TempWeak, NewWeak, LastWeak, Counted
    <3>3. /\ Cardinality(held)' = Cardinality(held) + 1
          /\ Cardinality(watching)' = Cardinality(watching)
          /\ Cardinality(TempStrong)' = Cardinality(TempStrong) - 1
          /\ Cardinality(TempWeak)' = Cardinality(TempWeak) - 1
          /\ Cardinality(NewWeak)' = Cardinality(NewWeak)
          /\ Cardinality(LastWeak)' = Cardinality(LastWeak)
      BY <3>1, <3>2, <3>0, TaskSets, SetsOfTasks DEF RefInv, TypeOK
    <3>4. ObjectRef' = ObjectRef
      BY <1>1, <1>5, <3>1, <3>2, <3>3, <2>1, <3>0
         DEF RefInv, TypeOK, Life, ObjectRef, Give
    <3>5. /\ strong' = strong /\ weak' = weak /\ (Counted' => Counted)
          /\ (Counted => (counter' = "live" <=> weak' > 0))
      BY <1>1, <1>5, <2>1, <3>0
         DEF RefInv, TypeOK, Shape, Count, Counted, Give, TempWeak,
             TempStrong
    <3>6. ObjectRef \in Nat
      BY SetsOfTasks
    <3>7. Counted =>
             /\ strong = Cardinality(held) + Cardinality(TempStrong)
             /\ weak = ObjectRef + Cardinality(held) + Cardinality(watching)
                         + Cardinality(TempWeak) + Cardinality(NewWeak)
      BY DEF RefInv, Count
    <3>8. Counted' => strong' = Cardinality(held)' + Cardinality(TempStrong)'
      BY <1>5, <3>3, <3>5, <3>7
    <3>9. Counted' =>
             weak' = ObjectRef' + Cardinality(held)' + Cardinality(watching)'
                        + Cardinality(TempWeak)' + Cardinality(NewWeak)'
      BY <1>5, <3>3, <3>4, <3>5, <3>6, <3>7
    <3> QED BY <3>5, <3>8, <3>9 DEF Count
  <2>2. CASE Goto(t, "dec_strong") /\ op' = [op EXCEPT ![t] = "drop"] /\ UNCHANGED held
    <3>1. /\ held' = held
          /\ watching' = watching
          /\ TempStrong' = TempStrong
          /\ TempWeak' = TempWeak
          /\ NewWeak' = NewWeak
          /\ LastWeak' = LastWeak
      BY <1>1, <2>2
         DEF RefInv, TypeOK, Shape, Life, Give, TempStrong,
             TempWeak, NewWeak, LastWeak
    <3>2. TRUE
      BY <1>1, <2>2
         DEF RefInv, TypeOK, Shape, Life, Give, TempStrong,
             TempWeak, NewWeak, LastWeak, Counted
    <3>3. /\ Cardinality(held)' = Cardinality(held)
          /\ Cardinality(watching)' = Cardinality(watching)
          /\ Cardinality(TempStrong)' = Cardinality(TempStrong)
          /\ Cardinality(TempWeak)' = Cardinality(TempWeak)
          /\ Cardinality(NewWeak)' = Cardinality(NewWeak)
          /\ Cardinality(LastWeak)' = Cardinality(LastWeak)
      BY <3>1, <3>2, TaskSets, SetsOfTasks DEF RefInv, TypeOK
    <3>4. ObjectRef' = ObjectRef
      BY <1>1, <1>5, <3>1, <3>2, <3>3, <2>2
         DEF RefInv, TypeOK, Life, ObjectRef, Give
    <3>5. /\ strong' = strong /\ weak' = weak /\ (Counted' => Counted)
          /\ (Counted => (counter' = "live" <=> weak' > 0))
      BY <1>1, <1>5, <2>2
         DEF RefInv, TypeOK, Shape, Count, Counted, Give, TempWeak,
             TempStrong
    <3>6. ObjectRef \in Nat
      BY SetsOfTasks
    <3>7. Counted =>
             /\ strong = Cardinality(held) + Cardinality(TempStrong)
             /\ weak = ObjectRef + Cardinality(held) + Cardinality(watching)
                         + Cardinality(TempWeak) + Cardinality(NewWeak)
      BY DEF RefInv, Count
    <3>8. Counted' => strong' = Cardinality(held)' + Cardinality(TempStrong)'
      BY <1>5, <3>3, <3>5, <3>7
    <3>9. Counted' =>
             weak' = ObjectRef' + Cardinality(held)' + Cardinality(watching)'
                        + Cardinality(TempWeak)' + Cardinality(NewWeak)'
      BY <1>5, <3>3, <3>4, <3>5, <3>6, <3>7
    <3> QED BY <3>5, <3>8, <3>9 DEF Count
  <2> QED BY <2>1, <2>2 DEF Give, RefInv, Shape, TypeOK, Op
<1>7. Life'
  BY <1>1, <1>2
     DEF RefInv, TypeOK, Shape, Life, DestroyedByOne, AllIdle, Counted,
         TempStrong, Give
<1>8. DestroyedByOne'
  BY <1>1
     DEF RefInv, TypeOK, Shape, Life, DestroyedByOne, Counted,
         TempStrong, Give
<1> QED BY <1>2, <1>3, <1>6, <1>7, <1>8 DEF RefInv

LEMMA DropStep ==
    ASSUME RefInv, NEW t \in Tasks, Drop(t)
    PROVE  RefInv'
<1> USE
   DEF Goto, Start, Finish, IncWeak, DecWeak, objectVars, countVars,
       handleVars
<1>1. /\ pc[t] # "idle" => Counted
      /\ Counted /\ (t \in held \/ t \in TempStrong) => strong > 0 /\ object = "alive"
      /\ Counted /\ (t \in held \/ t \in watching \/ t \in TempWeak \/ t \in NewWeak)
            => weak > 0 /\ counter = "live"
      /\ Counted /\ object = "alive" => weak > 0 /\ counter = "live"
  BY References
<1>2. TypeOK'
  BY <1>1 DEF RefInv, TypeOK, Drop, Pc, Op, TempStrong, TempWeak, Shape
<1>3. Shape'
  BY <1>1 DEF RefInv, TypeOK, Shape, Drop, Life
<1>5. /\ Cardinality(held) \in Nat /\ Cardinality(watching) \in Nat
      /\ Cardinality(TempStrong) \in Nat /\ Cardinality(TempWeak) \in Nat
      /\ Cardinality(NewWeak) \in Nat /\ Cardinality(LastWeak) \in Nat
  BY TaskSets, SetsOfTasks DEF RefInv, TypeOK
<1>6. Count'
  <2>1. /\ held' = held \ {t}
        /\ watching' = watching
        /\ TempStrong' = TempStrong \cup {t}
        /\ TempWeak' = TempWeak \cup {t}
        /\ NewWeak' = NewWeak
        /\ LastWeak' = LastWeak
    BY <1>1
       DEF RefInv, TypeOK, Shape, Life, Drop, TempStrong, TempWeak,
           NewWeak, LastWeak
  <2>2. t \in held /\ t \notin TempStrong /\ t \notin TempWeak
    BY <1>1
       DEF RefInv, TypeOK, Shape, Life, Drop, TempStrong, TempWeak,
           NewWeak, LastWeak, Counted
  <2>3. /\ Cardinality(held)' = Cardinality(held) - 1
        /\ Cardinality(watching)' = Cardinality(watching)
        /\ Cardinality(TempStrong)' = Cardinality(TempStrong) + 1
        /\ Cardinality(TempWeak)' = Cardinality(TempWeak) + 1
        /\ Cardinality(NewWeak)' = Cardinality(NewWeak)
        /\ Cardinality(LastWeak)' = Cardinality(LastWeak)
    BY <2>1, <2>2, TaskSets, SetsOfTasks DEF RefInv, TypeOK
  <2>4. ObjectRef' = ObjectRef
    BY <1>1, <1>5, <2>1, <2>2, <2>3 DEF RefInv, TypeOK, Life, ObjectRef, Drop
  <2>5. /\ strong' = strong /\ weak' = weak /\ (Counted' => Counted)
        /\ (Counted => (counter' = "live" <=> weak' > 0))
    BY <1>1, <1>5
       DEF RefInv, TypeOK, Shape, Count, Counted, Drop, TempWeak,
           TempStrong
  <2>6. ObjectRef \in Nat
    BY SetsOfTasks
  <2>7. Counted =>
           /\ strong = Cardinality(held) + Cardinality(TempStrong)
           /\ weak = ObjectRef + Cardinality(held) + Cardinality(watching)
                       + Cardinality(TempWeak) + Cardinality(NewWeak)
    BY DEF RefInv, Count
  <2>8. Counted' => strong' = Cardinality(held)' + Cardinality(TempStrong)'
    BY <1>5, <2>3, <2>5, <2>7
  <2>9. Counted' =>
           weak' = ObjectRef' + Cardinality(held)' + Cardinality(watching)'
                      + Cardinality(TempWeak)' + Cardinality(NewWeak)'
    BY <1>5, <2>3, <2>4, <2>5, <2>6, <2>7
  <2> QED BY <2>5, <2>8, <2>9 DEF Count
<1>7. Life'
  BY <1>1, <1>2
     DEF RefInv, TypeOK, Shape, Life, DestroyedByOne, AllIdle, Counted,
         TempStrong, Drop
<1>8. DestroyedByOne'
  BY <1>1
     DEF RefInv, TypeOK, Shape, Life, DestroyedByOne, Counted,
         TempStrong, Drop
<1> QED BY <1>2, <1>3, <1>6, <1>7, <1>8 DEF RefInv

LEMMA DecStrongStep ==
    ASSUME RefInv, NEW t \in Tasks, DecStrong(t)
    PROVE  RefInv'
<1> USE
   DEF Goto, Start, Finish, IncWeak, DecWeak, objectVars, countVars,
       handleVars
<1>1. /\ pc[t] # "idle" => Counted
      /\ Counted /\ (t \in held \/ t \in TempStrong) => strong > 0 /\ object = "alive"
      /\ Counted /\ (t \in held \/ t \in watching \/ t \in TempWeak \/ t \in NewWeak)
            => weak > 0 /\ counter = "live"
      /\ Counted /\ object = "alive" => weak > 0 /\ counter = "live"
  BY References
<1>2. TypeOK'
  BY <1>1 DEF RefInv, TypeOK, DecStrong, Pc, Op, TempStrong, TempWeak, Shape
<1>3. Shape'
  BY <1>1 DEF RefInv, TypeOK, Shape, DecStrong, Life
<1>5. /\ Cardinality(held) \in Nat /\ Cardinality(watching) \in Nat
      /\ Cardinality(TempStrong) \in Nat /\ Cardinality(TempWeak) \in Nat
      /\ Cardinality(NewWeak) \in Nat /\ Cardinality(LastWeak) \in Nat
  BY TaskSets, SetsOfTasks DEF RefInv, TypeOK
<1>6. Count'
  <2>1. /\ held' = held
        /\ watching' = watching
        /\ TempStrong' = TempStrong \ {t}
        /\ TempWeak' = TempWeak
        /\ NewWeak' = NewWeak
        /\ LastWeak' = LastWeak
    BY <1>1
       DEF RefInv, TypeOK, Shape, Life, DecStrong, TempStrong,
           TempWeak, NewWeak, LastWeak
  <2>2. t \in TempStrong
    BY <1>1
       DEF RefInv, TypeOK, Shape, Life, DecStrong, TempStrong,
           TempWeak, NewWeak, LastWeak, Counted
  <2>3. /\ Cardinality(held)' = Cardinality(held)
        /\ Cardinality(watching)' = Cardinality(watching)
        /\ Cardinality(TempStrong)' = Cardinality(TempStrong) - 1
        /\ Cardinality(TempWeak)' = Cardinality(TempWeak)
        /\ Cardinality(NewWeak)' = Cardinality(NewWeak)
        /\ Cardinality(LastWeak)' = Cardinality(LastWeak)
    BY <2>1, <2>2, TaskSets, SetsOfTasks DEF RefInv, TypeOK
  <2>4. ObjectRef' = ObjectRef
    BY <1>1, <1>5, <2>1, <2>2, <2>3
       DEF RefInv, TypeOK, Life, ObjectRef, DecStrong
  <2>5. /\ strong' = strong - 1 /\ weak' = weak /\ (Counted' => Counted)
        /\ (Counted => (counter' = "live" <=> weak' > 0))
    BY <1>1, <1>5
       DEF RefInv, TypeOK, Shape, Count, Counted, DecStrong,
           TempWeak, TempStrong
  <2>6. ObjectRef \in Nat
    BY SetsOfTasks
  <2>7. Counted =>
           /\ strong = Cardinality(held) + Cardinality(TempStrong)
           /\ weak = ObjectRef + Cardinality(held) + Cardinality(watching)
                       + Cardinality(TempWeak) + Cardinality(NewWeak)
    BY DEF RefInv, Count
  <2>8. Counted' => strong' = Cardinality(held)' + Cardinality(TempStrong)'
    BY <1>5, <2>3, <2>5, <2>7
  <2>9. Counted' =>
           weak' = ObjectRef' + Cardinality(held)' + Cardinality(watching)'
                      + Cardinality(TempWeak)' + Cardinality(NewWeak)'
    BY <1>5, <2>3, <2>4, <2>5, <2>6, <2>7
  <2> QED BY <2>5, <2>8, <2>9 DEF Count
<1>7. Life'
  BY <1>1, <1>2
     DEF RefInv, TypeOK, Shape, Life, DestroyedByOne, AllIdle, Counted,
         TempStrong, Last, DecStrong
<1>8. DestroyedByOne'
  BY <1>1
     DEF RefInv, TypeOK, Shape, Life, DestroyedByOne, Counted,
         TempStrong, Last, DecStrong
<1> QED BY <1>2, <1>3, <1>6, <1>7, <1>8 DEF RefInv

LEMMA DestroyStep ==
    ASSUME RefInv, NEW t \in Tasks, Destroy(t)
    PROVE  RefInv'
<1> USE
   DEF Goto, Start, Finish, IncWeak, DecWeak, objectVars, countVars,
       handleVars
<1>1. /\ pc[t] # "idle" => Counted
      /\ Counted /\ (t \in held \/ t \in TempStrong) => strong > 0 /\ object = "alive"
      /\ Counted /\ (t \in held \/ t \in watching \/ t \in TempWeak \/ t \in NewWeak)
            => weak > 0 /\ counter = "live"
      /\ Counted /\ object = "alive" => weak > 0 /\ counter = "live"
  BY References
<1>2. TypeOK'
  BY <1>1 DEF RefInv, TypeOK, Destroy, Pc, Op, TempStrong, TempWeak, Shape
<1>3. Shape'
  BY <1>1 DEF RefInv, TypeOK, Shape, Destroy, Life
<1>5. /\ Cardinality(held) \in Nat /\ Cardinality(watching) \in Nat
      /\ Cardinality(TempStrong) \in Nat /\ Cardinality(TempWeak) \in Nat
      /\ Cardinality(NewWeak) \in Nat /\ Cardinality(LastWeak) \in Nat
  BY TaskSets, SetsOfTasks DEF RefInv, TypeOK
<1>6. Count'
  <2>1. /\ held' = held
        /\ watching' = watching
        /\ TempStrong' = TempStrong
        /\ TempWeak' = TempWeak
        /\ NewWeak' = NewWeak
        /\ LastWeak' = LastWeak \cup {t}
    BY <1>1
       DEF RefInv, TypeOK, Shape, Life, Destroy, TempStrong,
           TempWeak, NewWeak, LastWeak
  <2>2. t \notin LastWeak
    BY <1>1
       DEF RefInv, TypeOK, Shape, Life, Destroy, TempStrong,
           TempWeak, NewWeak, LastWeak, Counted
  <2>3. /\ Cardinality(held)' = Cardinality(held)
        /\ Cardinality(watching)' = Cardinality(watching)
        /\ Cardinality(TempStrong)' = Cardinality(TempStrong)
        /\ Cardinality(TempWeak)' = Cardinality(TempWeak)
        /\ Cardinality(NewWeak)' = Cardinality(NewWeak)
        /\ Cardinality(LastWeak)' = Cardinality(LastWeak) + 1
    BY <2>1, <2>2, TaskSets, SetsOfTasks DEF RefInv, TypeOK
  <2>0. object = "alive" /\ LastWeak = {} /\ Cardinality(LastWeak) = 0
    <3>1. object = "alive" /\ LastWeak = {}
      BY DEF RefInv, Life, LastWeak, Destroy
    <3> QED BY <3>1, TaskSets, SetsOfTasks
  <2>4. ObjectRef' = ObjectRef
    BY <1>1, <1>5, <2>1, <2>2, <2>3, <2>0
       DEF RefInv, TypeOK, Life, ObjectRef, Destroy
  <2>5. /\ strong' = strong /\ weak' = weak /\ (Counted' => Counted)
        /\ (Counted => (counter' = "live" <=> weak' > 0))
    BY <1>1, <1>5, <2>0
       DEF RefInv, TypeOK, Shape, Count, Counted, Destroy, TempWeak,
           TempStrong
  <2>6. ObjectRef \in Nat
    BY SetsOfTasks
  <2>7. Counted =>
           /\ strong = Cardinality(held) + Cardinality(TempStrong)
           /\ weak = ObjectRef + Cardinality(held) + Cardinality(watching)
                       + Cardinality(TempWeak) + Cardinality(NewWeak)
    BY DEF RefInv, Count
  <2>8. Counted' => strong' = Cardinality(held)' + Cardinality(TempStrong)'
    BY <1>5, <2>3, <2>5, <2>7
  <2>9. Counted' =>
           weak' = ObjectRef' + Cardinality(held)' + Cardinality(watching)'
                      + Cardinality(TempWeak)' + Cardinality(NewWeak)'
    BY <1>5, <2>3, <2>4, <2>5, <2>6, <2>7
  <2> QED BY <2>5, <2>8, <2>9 DEF Count
<1>7. Life'
  BY <1>1, <1>2
     DEF RefInv, TypeOK, Shape, Life, DestroyedByOne, AllIdle, Counted,
         TempStrong, Destroy
<1>8. DestroyedByOne'
  BY <1>1
     DEF RefInv, TypeOK, Shape, Life, DestroyedByOne, Counted,
         TempStrong, Destroy
<1> QED BY <1>2, <1>3, <1>6, <1>7, <1>8 DEF RefInv

LEMMA ObjectWeakStep ==
    ASSUME RefInv, NEW t \in Tasks, ObjectWeak(t)
    PROVE  RefInv'
<1> USE
   DEF Goto, Start, Finish, IncWeak, DecWeak, objectVars, countVars,
       handleVars
<1>1. /\ pc[t] # "idle" => Counted
      /\ Counted /\ (t \in held \/ t \in TempStrong) => strong > 0 /\ object = "alive"
      /\ Counted /\ (t \in held \/ t \in watching \/ t \in TempWeak \/ t \in NewWeak)
            => weak > 0 /\ counter = "live"
      /\ Counted /\ object = "alive" => weak > 0 /\ counter = "live"
  BY References
<1>2. TypeOK'
  BY <1>1 DEF RefInv, TypeOK, ObjectWeak, Pc, Op, TempStrong, TempWeak, Shape
<1>3. Shape'
  BY <1>1 DEF RefInv, TypeOK, Shape, ObjectWeak, Life
<1>5. /\ Cardinality(held) \in Nat /\ Cardinality(watching) \in Nat
      /\ Cardinality(TempStrong) \in Nat /\ Cardinality(TempWeak) \in Nat
      /\ Cardinality(NewWeak) \in Nat /\ Cardinality(LastWeak) \in Nat
  BY TaskSets, SetsOfTasks DEF RefInv, TypeOK
<1>6. Count'
  <2>1. /\ held' = held
        /\ watching' = watching
        /\ TempStrong' = TempStrong
        /\ TempWeak' = TempWeak
        /\ NewWeak' = NewWeak
        /\ LastWeak' = LastWeak \ {t}
    BY <1>1
       DEF RefInv, TypeOK, Shape, Life, ObjectWeak, TempStrong,
           TempWeak, NewWeak, LastWeak
  <2>2. t \in LastWeak
    BY <1>1
       DEF RefInv, TypeOK, Shape, Life, ObjectWeak, TempStrong,
           TempWeak, NewWeak, LastWeak, Counted
  <2>3. /\ Cardinality(held)' = Cardinality(held)
        /\ Cardinality(watching)' = Cardinality(watching)
        /\ Cardinality(TempStrong)' = Cardinality(TempStrong)
        /\ Cardinality(TempWeak)' = Cardinality(TempWeak)
        /\ Cardinality(NewWeak)' = Cardinality(NewWeak)
        /\ Cardinality(LastWeak)' = Cardinality(LastWeak) - 1
    BY <2>1, <2>2, TaskSets, SetsOfTasks DEF RefInv, TypeOK
  <2>4. ObjectRef' = ObjectRef - 1
    BY <1>1, <1>5, <2>1, <2>2, <2>3
       DEF RefInv, TypeOK, Life, ObjectRef, ObjectWeak
  <2>5. /\ strong' = strong /\ weak' = weak - 1 /\ (Counted' => Counted)
        /\ (Counted => (counter' = "live" <=> weak' > 0))
    BY <1>1, <1>5
       DEF RefInv, TypeOK, Shape, Count, Counted, ObjectWeak,
           TempWeak, TempStrong
  <2>6. ObjectRef \in Nat
    BY SetsOfTasks
  <2>7. Counted =>
           /\ strong = Cardinality(held) + Cardinality(TempStrong)
           /\ weak = ObjectRef + Cardinality(held) + Cardinality(watching)
                       + Cardinality(TempWeak) + Cardinality(NewWeak)
    BY DEF RefInv, Count
  <2>8. Counted' => strong' = Cardinality(held)' + Cardinality(TempStrong)'
    BY <1>5, <2>3, <2>5, <2>7
  <2>9. Counted' =>
           weak' = ObjectRef' + Cardinality(held)' + Cardinality(watching)'
                      + Cardinality(TempWeak)' + Cardinality(NewWeak)'
    BY <1>5, <2>3, <2>4, <2>5, <2>6, <2>7
  <2> QED BY <2>5, <2>8, <2>9 DEF Count
<1>7. Life'
  BY <1>1, <1>2
     DEF RefInv, TypeOK, Shape, Life, DestroyedByOne, AllIdle, Counted,
         TempStrong, ObjectWeak
<1>8. DestroyedByOne'
  BY <1>1
     DEF RefInv, TypeOK, Shape, Life, DestroyedByOne, Counted,
         TempStrong, ObjectWeak
<1> QED BY <1>2, <1>3, <1>6, <1>7, <1>8 DEF RefInv

LEMMA DecStrongWeakStep ==
    ASSUME RefInv, NEW t \in Tasks, DecStrongWeak(t)
    PROVE  RefInv'
<1> USE
   DEF Goto, Start, Finish, IncWeak, DecWeak, objectVars, countVars,
       handleVars
<1>1. /\ pc[t] # "idle" => Counted
      /\ Counted /\ (t \in held \/ t \in TempStrong) => strong > 0 /\ object = "alive"
      /\ Counted /\ (t \in held \/ t \in watching \/ t \in TempWeak \/ t \in NewWeak)
            => weak > 0 /\ counter = "live"
      /\ Counted /\ object = "alive" => weak > 0 /\ counter = "live"
  BY References
<1>2. TypeOK'
  BY <1>1 DEF RefInv, TypeOK, DecStrongWeak, Pc, Op, TempStrong, TempWeak, Shape
<1>3. Shape'
  BY <1>1 DEF RefInv, TypeOK, Shape, DecStrongWeak, Life
<1>5. /\ Cardinality(held) \in Nat /\ Cardinality(watching) \in Nat
      /\ Cardinality(TempStrong) \in Nat /\ Cardinality(TempWeak) \in Nat
      /\ Cardinality(NewWeak) \in Nat /\ Cardinality(LastWeak) \in Nat
  BY TaskSets, SetsOfTasks DEF RefInv, TypeOK
<1>6. Count'
  <2>1. /\ held' = held
        /\ watching' = watching
        /\ TempStrong' = TempStrong
        /\ TempWeak' = TempWeak \ {t}
        /\ NewWeak' = NewWeak
        /\ LastWeak' = LastWeak
    BY <1>1
       DEF RefInv, TypeOK, Shape, Life, DecStrongWeak, TempStrong,
           TempWeak, NewWeak, LastWeak
  <2>2. t \in TempWeak
    BY <1>1
       DEF RefInv, TypeOK, Shape, Life, DecStrongWeak, TempStrong,
           TempWeak, NewWeak, LastWeak, Counted
  <2>3. /\ Cardinality(held)' = Cardinality(held)
        /\ Cardinality(watching)' = Cardinality(watching)
        /\ Cardinality(TempStrong)' = Cardinality(TempStrong)
        /\ Cardinality(TempWeak)' = Cardinality(TempWeak) - 1
        /\ Cardinality(NewWeak)' = Cardinality(NewWeak)
        /\ Cardinality(LastWeak)' = Cardinality(LastWeak)
    BY <2>1, <2>2, TaskSets, SetsOfTasks DEF RefInv, TypeOK
  <2>4. ObjectRef' = ObjectRef
    BY <1>1, <1>5, <2>1, <2>2, <2>3
       DEF RefInv, TypeOK, Life, ObjectRef, DecStrongWeak
  <2>5. /\ strong' = strong /\ weak' = weak - 1 /\ (Counted' => Counted)
        /\ (Counted => (counter' = "live" <=> weak' > 0))
    BY <1>1, <1>5
       DEF RefInv, TypeOK, Shape, Count, Counted, DecStrongWeak,
           TempWeak, TempStrong
  <2>6. ObjectRef \in Nat
    BY SetsOfTasks
  <2>7. Counted =>
           /\ strong = Cardinality(held) + Cardinality(TempStrong)
           /\ weak = ObjectRef + Cardinality(held) + Cardinality(watching)
                       + Cardinality(TempWeak) + Cardinality(NewWeak)
    BY DEF RefInv, Count
  <2>8. Counted' => strong' = Cardinality(held)' + Cardinality(TempStrong)'
    BY <1>5, <2>3, <2>5, <2>7
  <2>9. Counted' =>
           weak' = ObjectRef' + Cardinality(held)' + Cardinality(watching)'
                      + Cardinality(TempWeak)' + Cardinality(NewWeak)'
    BY <1>5, <2>3, <2>4, <2>5, <2>6, <2>7
  <2> QED BY <2>5, <2>8, <2>9 DEF Count
<1>7. Life'
  BY <1>1, <1>2
     DEF RefInv, TypeOK, Shape, Life, DestroyedByOne, AllIdle, Counted,
         TempStrong, DecStrongWeak
<1>8. DestroyedByOne'
  BY <1>1
     DEF RefInv, TypeOK, Shape, Life, DestroyedByOne, Counted,
         TempStrong, DecStrongWeak
<1> QED BY <1>2, <1>3, <1>6, <1>7, <1>8 DEF RefInv

LEMMA AttachStep ==
    ASSUME RefInv, NEW t \in Tasks, Attach(t)
    PROVE  RefInv'
<1> USE
   DEF Goto, Start, Finish, IncWeak, DecWeak, objectVars, countVars,
       handleVars
<1>1. /\ pc[t] # "idle" => Counted
      /\ Counted /\ (t \in held \/ t \in TempStrong) => strong > 0 /\ object = "alive"
      /\ Counted /\ (t \in held \/ t \in watching \/ t \in TempWeak \/ t \in NewWeak)
            => weak > 0 /\ counter = "live"
      /\ Counted /\ object = "alive" => weak > 0 /\ counter = "live"
  BY References
<1>2. TypeOK'
  BY <1>1 DEF RefInv, TypeOK, Attach, Pc, Op, TempStrong, TempWeak, Shape
<1>3. Shape'
  BY <1>1 DEF RefInv, TypeOK, Shape, Attach, Life
<1>5. /\ Cardinality(held) \in Nat /\ Cardinality(watching) \in Nat
      /\ Cardinality(TempStrong) \in Nat /\ Cardinality(TempWeak) \in Nat
      /\ Cardinality(NewWeak) \in Nat /\ Cardinality(LastWeak) \in Nat
  BY TaskSets, SetsOfTasks DEF RefInv, TypeOK
<1>6. Count'
  <2>1. /\ held' = held
        /\ watching' = watching
        /\ TempStrong' = TempStrong
        /\ TempWeak' = TempWeak
        /\ NewWeak' = NewWeak
        /\ LastWeak' = LastWeak
    BY <1>1
       DEF RefInv, TypeOK, Shape, Life, Attach, TempStrong, TempWeak,
           NewWeak, LastWeak
  <2>2. TRUE
    BY <1>1
       DEF RefInv, TypeOK, Shape, Life, Attach, TempStrong, TempWeak,
           NewWeak, LastWeak, Counted
  <2>3. /\ Cardinality(held)' = Cardinality(held)
        /\ Cardinality(watching)' = Cardinality(watching)
        /\ Cardinality(TempStrong)' = Cardinality(TempStrong)
        /\ Cardinality(TempWeak)' = Cardinality(TempWeak)
        /\ Cardinality(NewWeak)' = Cardinality(NewWeak)
        /\ Cardinality(LastWeak)' = Cardinality(LastWeak)
    BY <2>1, <2>2, TaskSets, SetsOfTasks DEF RefInv, TypeOK
  <2>4. ObjectRef' = ObjectRef
    BY <1>1, <1>5, <2>1, <2>2, <2>3 DEF RefInv, TypeOK, Life, ObjectRef, Attach
  <2>5. /\ strong' = strong /\ weak' = weak /\ (Counted' => Counted)
        /\ (Counted => (counter' = "live" <=> weak' > 0))
    BY <1>1, <1>5
       DEF RefInv, TypeOK, Shape, Count, Counted, Attach, TempWeak,
           TempStrong
  <2>6. ObjectRef \in Nat
    BY SetsOfTasks
  <2>7. Counted =>
           /\ strong = Cardinality(held) + Cardinality(TempStrong)
           /\ weak = ObjectRef + Cardinality(held) + Cardinality(watching)
                       + Cardinality(TempWeak) + Cardinality(NewWeak)
    BY DEF RefInv, Count
  <2>8. Counted' => strong' = Cardinality(held)' + Cardinality(TempStrong)'
    BY <1>5, <2>3, <2>5, <2>7
  <2>9. Counted' =>
           weak' = ObjectRef' + Cardinality(held)' + Cardinality(watching)'
                      + Cardinality(TempWeak)' + Cardinality(NewWeak)'
    BY <1>5, <2>3, <2>4, <2>5, <2>6, <2>7
  <2> QED BY <2>5, <2>8, <2>9 DEF Count
<1>7. Life'
  BY <1>1, <1>2
     DEF RefInv, TypeOK, Shape, Life, DestroyedByOne, AllIdle, Counted,
         TempStrong, Attach
<1>8. DestroyedByOne'
  BY <1>1
     DEF RefInv, TypeOK, Shape, Life, DestroyedByOne, Counted,
         TempStrong, Attach
<1> QED BY <1>2, <1>3, <1>6, <1>7, <1>8 DEF RefInv

LEMMA CopyWeakStep ==
    ASSUME RefInv, NEW t \in Tasks, CopyWeak(t)
    PROVE  RefInv'
<1> USE
   DEF Goto, Start, Finish, IncWeak, DecWeak, objectVars, countVars,
       handleVars
<1>1. /\ pc[t] # "idle" => Counted
      /\ Counted /\ (t \in held \/ t \in TempStrong) => strong > 0 /\ object = "alive"
      /\ Counted /\ (t \in held \/ t \in watching \/ t \in TempWeak \/ t \in NewWeak)
            => weak > 0 /\ counter = "live"
      /\ Counted /\ object = "alive" => weak > 0 /\ counter = "live"
  BY References
<1>2. TypeOK'
  BY <1>1 DEF RefInv, TypeOK, CopyWeak, Pc, Op, TempStrong, TempWeak, Shape
<1>3. Shape'
  BY <1>1 DEF RefInv, TypeOK, Shape, CopyWeak, Life
<1>5. /\ Cardinality(held) \in Nat /\ Cardinality(watching) \in Nat
      /\ Cardinality(TempStrong) \in Nat /\ Cardinality(TempWeak) \in Nat
      /\ Cardinality(NewWeak) \in Nat /\ Cardinality(LastWeak) \in Nat
  BY TaskSets, SetsOfTasks DEF RefInv, TypeOK
<1>6. Count'
  <2>1. /\ held' = held
        /\ watching' = watching
        /\ TempStrong' = TempStrong
        /\ TempWeak' = TempWeak
        /\ NewWeak' = NewWeak
        /\ LastWeak' = LastWeak
    BY <1>1
       DEF RefInv, TypeOK, Shape, Life, CopyWeak, TempStrong,
           TempWeak, NewWeak, LastWeak
  <2>2. TRUE
    BY <1>1
       DEF RefInv, TypeOK, Shape, Life, CopyWeak, TempStrong,
           TempWeak, NewWeak, LastWeak, Counted
  <2>3. /\ Cardinality(held)' = Cardinality(held)
        /\ Cardinality(watching)' = Cardinality(watching)
        /\ Cardinality(TempStrong)' = Cardinality(TempStrong)
        /\ Cardinality(TempWeak)' = Cardinality(TempWeak)
        /\ Cardinality(NewWeak)' = Cardinality(NewWeak)
        /\ Cardinality(LastWeak)' = Cardinality(LastWeak)
    BY <2>1, <2>2, TaskSets, SetsOfTasks DEF RefInv, TypeOK
  <2>4. ObjectRef' = ObjectRef
    BY <1>1, <1>5, <2>1, <2>2, <2>3
       DEF RefInv, TypeOK, Life, ObjectRef, CopyWeak
  <2>5. /\ strong' = strong /\ weak' = weak /\ (Counted' => Counted)
        /\ (Counted => (counter' = "live" <=> weak' > 0))
    BY <1>1, <1>5
       DEF RefInv, TypeOK, Shape, Count, Counted, CopyWeak, TempWeak,
           TempStrong
  <2>6. ObjectRef \in Nat
    BY SetsOfTasks
  <2>7. Counted =>
           /\ strong = Cardinality(held) + Cardinality(TempStrong)
           /\ weak = ObjectRef + Cardinality(held) + Cardinality(watching)
                       + Cardinality(TempWeak) + Cardinality(NewWeak)
    BY DEF RefInv, Count
  <2>8. Counted' => strong' = Cardinality(held)' + Cardinality(TempStrong)'
    BY <1>5, <2>3, <2>5, <2>7
  <2>9. Counted' =>
           weak' = ObjectRef' + Cardinality(held)' + Cardinality(watching)'
                      + Cardinality(TempWeak)' + Cardinality(NewWeak)'
    BY <1>5, <2>3, <2>4, <2>5, <2>6, <2>7
  <2> QED BY <2>5, <2>8, <2>9 DEF Count
<1>7. Life'
  BY <1>1, <1>2
     DEF RefInv, TypeOK, Shape, Life, DestroyedByOne, AllIdle, Counted,
         TempStrong, CopyWeak
<1>8. DestroyedByOne'
  BY <1>1
     DEF RefInv, TypeOK, Shape, Life, DestroyedByOne, Counted,
         TempStrong, CopyWeak
<1> QED BY <1>2, <1>3, <1>6, <1>7, <1>8 DEF RefInv

LEMMA WatchWeakStep ==
    ASSUME RefInv, NEW t \in Tasks, WatchWeak(t)
    PROVE  RefInv'
<1> USE
   DEF Goto, Start, Finish, IncWeak, DecWeak, objectVars, countVars,
       handleVars
<1>1. /\ pc[t] # "idle" => Counted
      /\ Counted /\ (t \in held \/ t \in TempStrong) => strong > 0 /\ object = "alive"
      /\ Counted /\ (t \in held \/ t \in watching \/ t \in TempWeak \/ t \in NewWeak)
            => weak > 0 /\ counter = "live"
      /\ Counted /\ object = "alive" => weak > 0 /\ counter = "live"
  BY References
<1>2. TypeOK'
  BY <1>1 DEF RefInv, TypeOK, WatchWeak, Pc, Op, TempStrong, TempWeak, Shape
<1>3. Shape'
  BY <1>1 DEF RefInv, TypeOK, Shape, WatchWeak, Life
<1>5. /\ Cardinality(held) \in Nat /\ Cardinality(watching) \in Nat
      /\ Cardinality(TempStrong) \in Nat /\ Cardinality(TempWeak) \in Nat
      /\ Cardinality(NewWeak) \in Nat /\ Cardinality(LastWeak) \in Nat
  BY TaskSets, SetsOfTasks DEF RefInv, TypeOK
<1>6. Count'
  <2>1. CASE op[t] = "watch"
    <3>1. /\ held' = held
          /\ watching' = watching \cup {t}
          /\ TempStrong' = TempStrong
          /\ TempWeak' = TempWeak
          /\ NewWeak' = NewWeak
          /\ LastWeak' = LastWeak
      BY <1>1, <2>1
         DEF RefInv, TypeOK, Shape, Life, WatchWeak, TempStrong,
             TempWeak, NewWeak, LastWeak
    <3>2. t \notin watching
      BY <1>1, <2>1
         DEF RefInv, TypeOK, Shape, Life, WatchWeak, TempStrong,
             TempWeak, NewWeak, LastWeak, Counted
    <3>3. /\ Cardinality(held)' = Cardinality(held)
          /\ Cardinality(watching)' = Cardinality(watching) + 1
          /\ Cardinality(TempStrong)' = Cardinality(TempStrong)
          /\ Cardinality(TempWeak)' = Cardinality(TempWeak)
          /\ Cardinality(NewWeak)' = Cardinality(NewWeak)
          /\ Cardinality(LastWeak)' = Cardinality(LastWeak)
      BY <3>1, <3>2, TaskSets, SetsOfTasks DEF RefInv, TypeOK
    <3>4. ObjectRef' = ObjectRef
      BY <1>1, <1>5, <3>1, <3>2, <3>3, <2>1
         DEF RefInv, TypeOK, Life, ObjectRef, WatchWeak
    <3>5. /\ strong' = strong /\ weak' = weak + 1 /\ (Counted' => Counted)
          /\ (Counted => (counter' = "live" <=> weak' > 0))
      BY <1>1, <1>5, <2>1
         DEF RefInv, TypeOK, Shape, Count, Counted, WatchWeak,
             TempWeak, TempStrong
    <3>6. ObjectRef \in Nat
      BY SetsOfTasks
    <3>7. Counted =>
             /\ strong = Cardinality(held) + Cardinality(TempStrong)
             /\ weak = ObjectRef + Cardinality(held) + Cardinality(watching)
                         + Cardinality(TempWeak) + Cardinality(NewWeak)
      BY DEF RefInv, Count
    <3>8. Counted' => strong' = Cardinality(held)' + Cardinality(TempStrong)'
      BY <1>5, <3>3, <3>5, <3>7
    <3>9. Counted' =>
             weak' = ObjectRef' + Cardinality(held)' + Cardinality(watching)'
                        + Cardinality(TempWeak)' + Cardinality(NewWeak)'
      BY <1>5, <3>3, <3>4, <3>5, <3>6, <3>7
    <3> QED BY <3>5, <3>8, <3>9 DEF Count
  <2>2. CASE op[t] = "copy"
    <3>1. /\ held' = held
          /\ watching' = watching
          /\ TempStrong' = TempStrong
          /\ TempWeak' = TempWeak \cup {t}
          /\ NewWeak' = NewWeak
          /\ LastWeak' = LastWeak
      BY <1>1, <2>2
         DEF RefInv, TypeOK, Shape, Life, WatchWeak, TempStrong,
             TempWeak, NewWeak, LastWeak
    <3>2. t \notin TempWeak
      BY <1>1, <2>2
         DEF RefInv, TypeOK, Shape, Life, WatchWeak, TempStrong,
             TempWeak, NewWeak, LastWeak, Counted
    <3>3. /\ Cardinality(held)' = Cardinality(held)
          /\ Cardinality(watching)' = Cardinality(watching)
          /\ Cardinality(TempStrong)' = Cardinality(TempStrong)
          /\ Cardinality(TempWeak)' = Cardinality(TempWeak) + 1
          /\ Cardinality(NewWeak)' = Cardinality(NewWeak)
          /\ Cardinality(LastWeak)' = Cardinality(LastWeak)
      BY <3>1, <3>2, TaskSets, SetsOfTasks DEF RefInv, TypeOK
    <3>4. ObjectRef' = ObjectRef
      BY <1>1, <1>5, <3>1, <3>2, <3>3, <2>2
         DEF RefInv, TypeOK, Life, ObjectRef, WatchWeak
    <3>5. /\ strong' = strong /\ weak' = weak + 1 /\ (Counted' => Counted)
          /\ (Counted => (counter' = "live" <=> weak' > 0))
      BY <1>1, <1>5, <2>2
         DEF RefInv, TypeOK, Shape, Count, Counted, WatchWeak,
             TempWeak, TempStrong
    <3>6. ObjectRef \in Nat
      BY SetsOfTasks
    <3>7. Counted =>
             /\ strong = Cardinality(held) + Cardinality(TempStrong)
             /\ weak = ObjectRef + Cardinality(held) + Cardinality(watching)
                         + Cardinality(TempWeak) + Cardinality(NewWeak)
      BY DEF RefInv, Count
    <3>8. Counted' => strong' = Cardinality(held)' + Cardinality(TempStrong)'
      BY <1>5, <3>3, <3>5, <3>7
    <3>9. Counted' =>
             weak' = ObjectRef' + Cardinality(held)' + Cardinality(watching)'
                        + Cardinality(TempWeak)' + Cardinality(NewWeak)'
      BY <1>5, <3>3, <3>4, <3>5, <3>6, <3>7
    <3> QED BY <3>5, <3>8, <3>9 DEF Count
  <2> QED BY <2>1, <2>2 DEF WatchWeak, RefInv, Shape, TypeOK, Op
<1>7. Life'
  BY <1>1, <1>2
     DEF RefInv, TypeOK, Shape, Life, DestroyedByOne, AllIdle, Counted,
         TempStrong, WatchWeak
<1>8. DestroyedByOne'
  BY <1>1
     DEF RefInv, TypeOK, Shape, Life, DestroyedByOne, Counted,
         TempStrong, WatchWeak
<1> QED BY <1>2, <1>3, <1>6, <1>7, <1>8 DEF RefInv

LEMMA GiveWeakStep ==
    ASSUME RefInv, NEW t \in Tasks, GiveWeak(t)
    PROVE  RefInv'
<1> USE
   DEF Goto, Start, Finish, IncWeak, DecWeak, objectVars, countVars,
       handleVars
<1>1. /\ pc[t] # "idle" => Counted
      /\ Counted /\ (t \in held \/ t \in TempStrong) => strong > 0 /\ object = "alive"
      /\ Counted /\ (t \in held \/ t \in watching \/ t \in TempWeak \/ t \in NewWeak)
            => weak > 0 /\ counter = "live"
      /\ Counted /\ object = "alive" => weak > 0 /\ counter = "live"
  BY References
<1>2. TypeOK'
  BY <1>1 DEF RefInv, TypeOK, GiveWeak, Pc, Op, TempStrong, TempWeak, Shape
<1>3. Shape'
  BY <1>1 DEF RefInv, TypeOK, Shape, GiveWeak, Life
<1>5. /\ Cardinality(held) \in Nat /\ Cardinality(watching) \in Nat
      /\ Cardinality(TempStrong) \in Nat /\ Cardinality(TempWeak) \in Nat
      /\ Cardinality(NewWeak) \in Nat /\ Cardinality(LastWeak) \in Nat
  BY TaskSets, SetsOfTasks DEF RefInv, TypeOK
<1>6. Count'
  <2>1. CASE \E u \in Tasks \ watching : pc[u] = "idle" /\ watching' = watching \cup {u} /\ Finish(t)
    <3>0. PICK u \in Tasks \ watching : pc[u] = "idle" /\ watching' = watching \cup {u} /\ Finish(t)
      BY <2>1 DEF GiveWeak
    <3>1. /\ held' = held
          /\ watching' = watching \cup {u}
          /\ TempStrong' = TempStrong
          /\ TempWeak' = TempWeak \ {t}
          /\ NewWeak' = NewWeak
          /\ LastWeak' = LastWeak
      BY <1>1, <2>1, <3>0
         DEF RefInv, TypeOK, Shape, Life, GiveWeak, TempStrong,
             TempWeak, NewWeak, LastWeak
    <3>2. u \notin watching /\ t \in TempWeak
      BY <1>1, <2>1, <3>0
         DEF RefInv, TypeOK, Shape, Life, GiveWeak, TempStrong,
             TempWeak, NewWeak, LastWeak, Counted
    <3>3. /\ Cardinality(held)' = Cardinality(held)
          /\ Cardinality(watching)' = Cardinality(watching) + 1
          /\ Cardinality(TempStrong)' = Cardinality(TempStrong)
          /\ Cardinality(TempWeak)' = Cardinality(TempWeak) - 1
          /\ Cardinality(NewWeak)' = Cardinality(NewWeak)
          /\ Cardinality(LastWeak)' = Cardinality(LastWeak)
      BY <3>1, <3>2, <3>0, TaskSets, SetsOfTasks DEF RefInv, TypeOK
    <3>4. ObjectRef' = ObjectRef
      BY <1>1, <1>5, <3>1, <3>2, <3>3, <2>1, <3>0
         DEF RefInv, TypeOK, Life, ObjectRef, GiveWeak
    <3>5. /\ strong' = strong /\ weak' = weak /\ (Counted' => Counted)
          /\ (Counted => (counter' = "live" <=> weak' > 0))
      BY <1>1, <1>5, <2>1, <3>0
         DEF RefInv, TypeOK, Shape, Count, Counted, GiveWeak,
             TempWeak, TempStrong
    <3>6. ObjectRef \in Nat
      BY SetsOfTasks
    <3>7. Counted =>
             /\ strong = Cardinality(held) + Cardinality(TempStrong)
             /\ weak = ObjectRef + Cardinality(held) + Cardinality(watching)
                         + Cardinality(TempWeak) + Cardinality(NewWeak)
      BY DEF RefInv, Count
    <3>8. Counted' => strong' = Cardinality(held)' + Cardinality(TempStrong)'
      BY <1>5, <3>3, <3>5, <3>7
    <3>9. Counted' =>
             weak' = ObjectRef' + Cardinality(held)' + Cardinality(watching)'
                        + Cardinality(TempWeak)' + Cardinality(NewWeak)'
      BY <1>5, <3>3, <3>4, <3>5, <3>6, <3>7
    <3> QED BY <3>5, <3>8, <3>9 DEF Count
  <2>2. CASE Goto(t, "unwatch") /\ UNCHANGED <<watching, op>>
    <3>1. /\ held' = held
          /\ watching' = watching
          /\ TempStrong' = TempStrong
          /\ TempWeak' = TempWeak
          /\ NewWeak' = NewWeak
          /\ LastWeak' = LastWeak
      BY <1>1, <2>2
         DEF RefInv, TypeOK, Shape, Life, GiveWeak, TempStrong,
             TempWeak, NewWeak, LastWeak
    <3>2. TRUE
      BY <1>1, <2>2
         DEF RefInv, TypeOK, Shape, Life, GiveWeak, TempStrong,
             TempWeak, NewWeak, LastWeak, Counted
    <3>3. /\ Cardinality(held)' = Cardinality(held)
          /\ Cardinality(watching)' = Cardinality(watching)
          /\ Cardinality(TempStrong)' = Cardinality(TempStrong)
          /\ Cardinality(TempWeak)' = Cardinality(TempWeak)
          /\ Cardinality(NewWeak)' = Cardinality(NewWeak)
          /\ Cardinality(LastWeak)' = Cardinality(LastWeak)
      BY <3>1, <3>2, TaskSets, SetsOfTasks DEF RefInv, TypeOK
    <3>4. ObjectRef' = ObjectRef
      BY <1>1, <1>5, <3>1, <3>2, <3>3, <2>2
         DEF RefInv, TypeOK, Life, ObjectRef, GiveWeak
    <3>5. /\ strong' = strong /\ weak' = weak /\ (Counted' => Counted)
          /\ (Counted => (counter' = "live" <=> weak' > 0))
      BY <1>1, <1>5, <2>2
         DEF RefInv, TypeOK, Shape, Count, Counted, GiveWeak,
             TempWeak, TempStrong
    <3>6. ObjectRef \in Nat
      BY SetsOfTasks
    <3>7. Counted =>
             /\ strong = Cardinality(held) + Cardinality(TempStrong)
             /\ weak = ObjectRef + Cardinality(held) + Cardinality(watching)
                         + Cardinality(TempWeak) + Cardinality(NewWeak)
      BY DEF RefInv, Count
    <3>8. Counted' => strong' = Cardinality(held)' + Cardinality(TempStrong)'
      BY <1>5, <3>3, <3>5, <3>7
    <3>9. Counted' =>
             weak' = ObjectRef' + Cardinality(held)' + Cardinality(watching)'
                        + Cardinality(TempWeak)' + Cardinality(NewWeak)'
      BY <1>5, <3>3, <3>4, <3>5, <3>6, <3>7
    <3> QED BY <3>5, <3>8, <3>9 DEF Count
  <2> QED BY <2>1, <2>2 DEF GiveWeak, RefInv, Shape, TypeOK, Op
<1>7. Life'
  BY <1>1, <1>2
     DEF RefInv, TypeOK, Shape, Life, DestroyedByOne, AllIdle, Counted,
         TempStrong, GiveWeak
<1>8. DestroyedByOne'
  BY <1>1
     DEF RefInv, TypeOK, Shape, Life, DestroyedByOne, Counted,
         TempStrong, GiveWeak
<1> QED BY <1>2, <1>3, <1>6, <1>7, <1>8 DEF RefInv

LEMMA DetachStep ==
    ASSUME RefInv, NEW t \in Tasks, Detach(t)
    PROVE  RefInv'
<1> USE
   DEF Goto, Start, Finish, IncWeak, DecWeak, objectVars, countVars,
       handleVars
<1>1. /\ pc[t] # "idle" => Counted
      /\ Counted /\ (t \in held \/ t \in TempStrong) => strong > 0 /\ object = "alive"
      /\ Counted /\ (t \in held \/ t \in watching \/ t \in TempWeak \/ t \in NewWeak)
            => weak > 0 /\ counter = "live"
      /\ Counted /\ object = "alive" => weak > 0 /\ counter = "live"
  BY References
<1>2. TypeOK'
  BY <1>1 DEF RefInv, TypeOK, Detach, Pc, Op, TempStrong, TempWeak, Shape
<1>3. Shape'
  BY <1>1 DEF RefInv, TypeOK, Shape, Detach, Life
<1>5. /\ Cardinality(held) \in Nat /\ Cardinality(watching) \in Nat
      /\ Cardinality(TempStrong) \in Nat /\ Cardinality(TempWeak) \in Nat
      /\ Cardinality(NewWeak) \in Nat /\ Cardinality(LastWeak) \in Nat
  BY TaskSets, SetsOfTasks DEF RefInv, TypeOK
<1>6. Count'
  <2>1. /\ held' = held
        /\ watching' = watching \ {t}
        /\ TempStrong' = TempStrong
        /\ TempWeak' = TempWeak \cup {t}
        /\ NewWeak' = NewWeak
        /\ LastWeak' = LastWeak
    BY <1>1
       DEF RefInv, TypeOK, Shape, Life, Detach, TempStrong, TempWeak,
           NewWeak, LastWeak
  <2>2. t \in watching /\ t \notin TempWeak
    BY <1>1
       DEF RefInv, TypeOK, Shape, Life, Detach, TempStrong, TempWeak,
           NewWeak, LastWeak, Counted
  <2>3. /\ Cardinality(held)' = Cardinality(held)
        /\ Cardinality(watching)' = Cardinality(watching) - 1
        /\ Cardinality(TempStrong)' = Cardinality(TempStrong)
        /\ Cardinality(TempWeak)' = Cardinality(TempWeak) + 1
        /\ Cardinality(NewWeak)' = Cardinality(NewWeak)
        /\ Cardinality(LastWeak)' = Cardinality(LastWeak)
    BY <2>1, <2>2, TaskSets, SetsOfTasks DEF RefInv, TypeOK
  <2>4. ObjectRef' = ObjectRef
    BY <1>1, <1>5, <2>1, <2>2, <2>3 DEF RefInv, TypeOK, Life, ObjectRef, Detach
  <2>5. /\ strong' = strong /\ weak' = weak /\ (Counted' => Counted)
        /\ (Counted => (counter' = "live" <=> weak' > 0))
    BY <1>1, <1>5
       DEF RefInv, TypeOK, Shape, Count, Counted, Detach, TempWeak,
           TempStrong
  <2>6. ObjectRef \in Nat
    BY SetsOfTasks
  <2>7. Counted =>
           /\ strong = Cardinality(held) + Cardinality(TempStrong)
           /\ weak = ObjectRef + Cardinality(held) + Cardinality(watching)
                       + Cardinality(TempWeak) + Cardinality(NewWeak)
    BY DEF RefInv, Count
  <2>8. Counted' => strong' = Cardinality(held)' + Cardinality(TempStrong)'
    BY <1>5, <2>3, <2>5, <2>7
  <2>9. Counted' =>
           weak' = ObjectRef' + Cardinality(held)' + Cardinality(watching)'
                      + Cardinality(TempWeak)' + Cardinality(NewWeak)'
    BY <1>5, <2>3, <2>4, <2>5, <2>6, <2>7
  <2> QED BY <2>5, <2>8, <2>9 DEF Count
<1>7. Life'
  BY <1>1, <1>2
     DEF RefInv, TypeOK, Shape, Life, DestroyedByOne, AllIdle, Counted,
         TempStrong, Detach
<1>8. DestroyedByOne'
  BY <1>1
     DEF RefInv, TypeOK, Shape, Life, DestroyedByOne, Counted,
         TempStrong, Detach
<1> QED BY <1>2, <1>3, <1>6, <1>7, <1>8 DEF RefInv

LEMMA UnwatchWeakStep ==
    ASSUME RefInv, NEW t \in Tasks, UnwatchWeak(t)
    PROVE  RefInv'
<1> USE
   DEF Goto, Start, Finish, IncWeak, DecWeak, objectVars, countVars,
       handleVars
<1>1. /\ pc[t] # "idle" => Counted
      /\ Counted /\ (t \in held \/ t \in TempStrong) => strong > 0 /\ object = "alive"
      /\ Counted /\ (t \in held \/ t \in watching \/ t \in TempWeak \/ t \in NewWeak)
            => weak > 0 /\ counter = "live"
      /\ Counted /\ object = "alive" => weak > 0 /\ counter = "live"
  BY References
<1>2. TypeOK'
  BY <1>1 DEF RefInv, TypeOK, UnwatchWeak, Pc, Op, TempStrong, TempWeak, Shape
<1>3. Shape'
  BY <1>1 DEF RefInv, TypeOK, Shape, UnwatchWeak, Life
<1>5. /\ Cardinality(held) \in Nat /\ Cardinality(watching) \in Nat
      /\ Cardinality(TempStrong) \in Nat /\ Cardinality(TempWeak) \in Nat
      /\ Cardinality(NewWeak) \in Nat /\ Cardinality(LastWeak) \in Nat
  BY TaskSets, SetsOfTasks DEF RefInv, TypeOK
<1>6. Count'
  <2>1. /\ held' = held
        /\ watching' = watching
        /\ TempStrong' = TempStrong
        /\ TempWeak' = TempWeak \ {t}
        /\ NewWeak' = NewWeak
        /\ LastWeak' = LastWeak
    BY <1>1
       DEF RefInv, TypeOK, Shape, Life, UnwatchWeak, TempStrong,
           TempWeak, NewWeak, LastWeak
  <2>2. t \in TempWeak
    BY <1>1
       DEF RefInv, TypeOK, Shape, Life, UnwatchWeak, TempStrong,
           TempWeak, NewWeak, LastWeak, Counted
  <2>3. /\ Cardinality(held)' = Cardinality(held)
        /\ Cardinality(watching)' = Cardinality(watching)
        /\ Cardinality(TempStrong)' = Cardinality(TempStrong)
        /\ Cardinality(TempWeak)' = Cardinality(TempWeak) - 1
        /\ Cardinality(NewWeak)' = Cardinality(NewWeak)
        /\ Cardinality(LastWeak)' = Cardinality(LastWeak)
    BY <2>1, <2>2, TaskSets, SetsOfTasks DEF RefInv, TypeOK
  <2>4. ObjectRef' = ObjectRef
    BY <1>1, <1>5, <2>1, <2>2, <2>3
       DEF RefInv, TypeOK, Life, ObjectRef, UnwatchWeak
  <2>5. /\ strong' = strong /\ weak' = weak - 1 /\ (Counted' => Counted)
        /\ (Counted => (counter' = "live" <=> weak' > 0))
    BY <1>1, <1>5
       DEF RefInv, TypeOK, Shape, Count, Counted, UnwatchWeak,
           TempWeak, TempStrong
  <2>6. ObjectRef \in Nat
    BY SetsOfTasks
  <2>7. Counted =>
           /\ strong = Cardinality(held) + Cardinality(TempStrong)
           /\ weak = ObjectRef + Cardinality(held) + Cardinality(watching)
                       + Cardinality(TempWeak) + Cardinality(NewWeak)
    BY DEF RefInv, Count
  <2>8. Counted' => strong' = Cardinality(held)' + Cardinality(TempStrong)'
    BY <1>5, <2>3, <2>5, <2>7
  <2>9. Counted' =>
           weak' = ObjectRef' + Cardinality(held)' + Cardinality(watching)'
                      + Cardinality(TempWeak)' + Cardinality(NewWeak)'
    BY <1>5, <2>3, <2>4, <2>5, <2>6, <2>7
  <2> QED BY <2>5, <2>8, <2>9 DEF Count
<1>7. Life'
  BY <1>1, <1>2
     DEF RefInv, TypeOK, Shape, Life, DestroyedByOne, AllIdle, Counted,
         TempStrong, UnwatchWeak
<1>8. DestroyedByOne'
  BY <1>1
     DEF RefInv, TypeOK, Shape, Life, DestroyedByOne, Counted,
         TempStrong, UnwatchWeak
<1> QED BY <1>2, <1>3, <1>6, <1>7, <1>8 DEF RefInv

LEMMA PromoteStep ==
    ASSUME RefInv, NEW t \in Tasks, Promote(t)
    PROVE  RefInv'
<1> USE
   DEF Goto, Start, Finish, IncWeak, DecWeak, objectVars, countVars,
       handleVars
<1>1. /\ pc[t] # "idle" => Counted
      /\ Counted /\ (t \in held \/ t \in TempStrong) => strong > 0 /\ object = "alive"
      /\ Counted /\ (t \in held \/ t \in watching \/ t \in TempWeak \/ t \in NewWeak)
            => weak > 0 /\ counter = "live"
      /\ Counted /\ object = "alive" => weak > 0 /\ counter = "live"
  BY References
<1>2. TypeOK'
  BY <1>1 DEF RefInv, TypeOK, Promote, Pc, Op, TempStrong, TempWeak, Shape
<1>3. Shape'
  BY <1>1 DEF RefInv, TypeOK, Shape, Promote, Life
<1>5. /\ Cardinality(held) \in Nat /\ Cardinality(watching) \in Nat
      /\ Cardinality(TempStrong) \in Nat /\ Cardinality(TempWeak) \in Nat
      /\ Cardinality(NewWeak) \in Nat /\ Cardinality(LastWeak) \in Nat
  BY TaskSets, SetsOfTasks DEF RefInv, TypeOK
<1>6. Count'
  <2>1. /\ held' = held
        /\ watching' = watching
        /\ TempStrong' = TempStrong
        /\ TempWeak' = TempWeak
        /\ NewWeak' = NewWeak
        /\ LastWeak' = LastWeak
    BY <1>1
       DEF RefInv, TypeOK, Shape, Life, Promote, TempStrong,
           TempWeak, NewWeak, LastWeak
  <2>2. TRUE
    BY <1>1
       DEF RefInv, TypeOK, Shape, Life, Promote, TempStrong,
           TempWeak, NewWeak, LastWeak, Counted
  <2>3. /\ Cardinality(held)' = Cardinality(held)
        /\ Cardinality(watching)' = Cardinality(watching)
        /\ Cardinality(TempStrong)' = Cardinality(TempStrong)
        /\ Cardinality(TempWeak)' = Cardinality(TempWeak)
        /\ Cardinality(NewWeak)' = Cardinality(NewWeak)
        /\ Cardinality(LastWeak)' = Cardinality(LastWeak)
    BY <2>1, <2>2, TaskSets, SetsOfTasks DEF RefInv, TypeOK
  <2>4. ObjectRef' = ObjectRef
    BY <1>1, <1>5, <2>1, <2>2, <2>3 DEF RefInv, TypeOK, Life, ObjectRef, Promote
  <2>5. /\ strong' = strong /\ weak' = weak /\ (Counted' => Counted)
        /\ (Counted => (counter' = "live" <=> weak' > 0))
    BY <1>1, <1>5
       DEF RefInv, TypeOK, Shape, Count, Counted, Promote, TempWeak,
           TempStrong
  <2>6. ObjectRef \in Nat
    BY SetsOfTasks
  <2>7. Counted =>
           /\ strong = Cardinality(held) + Cardinality(TempStrong)
           /\ weak = ObjectRef + Cardinality(held) + Cardinality(watching)
                       + Cardinality(TempWeak) + Cardinality(NewWeak)
    BY DEF RefInv, Count
  <2>8. Counted' => strong' = Cardinality(held)' + Cardinality(TempStrong)'
    BY <1>5, <2>3, <2>5, <2>7
  <2>9. Counted' =>
           weak' = ObjectRef' + Cardinality(held)' + Cardinality(watching)'
                      + Cardinality(TempWeak)' + Cardinality(NewWeak)'
    BY <1>5, <2>3, <2>4, <2>5, <2>6, <2>7
  <2> QED BY <2>5, <2>8, <2>9 DEF Count
<1>7. Life'
  BY <1>1, <1>2
     DEF RefInv, TypeOK, Shape, Life, DestroyedByOne, AllIdle, Counted,
         TempStrong, Promote
<1>8. DestroyedByOne'
  BY <1>1
     DEF RefInv, TypeOK, Shape, Life, DestroyedByOne, Counted,
         TempStrong, Promote
<1> QED BY <1>2, <1>3, <1>6, <1>7, <1>8 DEF RefInv

LEMMA AttemptLoadStep ==
    ASSUME RefInv, NEW t \in Tasks, AttemptLoad(t)
    PROVE  RefInv'
<1> USE
   DEF Goto, Start, Finish, IncWeak, DecWeak, objectVars, countVars,
       handleVars
<1>1. /\ pc[t] # "idle" => Counted
      /\ Counted /\ (t \in held \/ t \in TempStrong) => strong > 0 /\ object = "alive"
      /\ Counted /\ (t \in held \/ t \in watching \/ t \in TempWeak \/ t \in NewWeak)
            => weak > 0 /\ counter = "live"
      /\ Counted /\ object = "alive" => weak > 0 /\ counter = "live"
  BY References
<1>2. TypeOK'
  BY <1>1
     DEF RefInv, TypeOK, AttemptLoad, Pc, Op, Attempt, TempStrong,
         TempWeak, Shape
<1>3. Shape'
  BY <1>1 DEF RefInv, TypeOK, Shape, AttemptLoad, Attempt, Life
<1>5. /\ Cardinality(held) \in Nat /\ Cardinality(watching) \in Nat
      /\ Cardinality(TempStrong) \in Nat /\ Cardinality(TempWeak) \in Nat
      /\ Cardinality(NewWeak) \in Nat /\ Cardinality(LastWeak) \in Nat
  BY TaskSets, SetsOfTasks DEF RefInv, TypeOK
<1>6. Count'
  <2>1. /\ held' = held
        /\ watching' = watching
        /\ TempStrong' = TempStrong
        /\ TempWeak' = TempWeak
        /\ NewWeak' = NewWeak
        /\ LastWeak' = LastWeak
    BY <1>1
       DEF RefInv, TypeOK, Shape, Life, AttemptLoad, Attempt,
           TempStrong, TempWeak, NewWeak, LastWeak
  <2>2. TRUE
    BY <1>1
       DEF RefInv, TypeOK, Shape, Life, AttemptLoad, Attempt,
           TempStrong, TempWeak, NewWeak, LastWeak, Counted
  <2>3. /\ Cardinality(held)' = Cardinality(held)
        /\ Cardinality(watching)' = Cardinality(watching)
        /\ Cardinality(TempStrong)' = Cardinality(TempStrong)
        /\ Cardinality(TempWeak)' = Cardinality(TempWeak)
        /\ Cardinality(NewWeak)' = Cardinality(NewWeak)
        /\ Cardinality(LastWeak)' = Cardinality(LastWeak)
    BY <2>1, <2>2, TaskSets, SetsOfTasks DEF RefInv, TypeOK
  <2>4. ObjectRef' = ObjectRef
    BY <1>1, <1>5, <2>1, <2>2, <2>3
       DEF RefInv, TypeOK, Life, ObjectRef, AttemptLoad
  <2>5. /\ strong' = strong /\ weak' = weak /\ (Counted' => Counted)
        /\ (Counted => (counter' = "live" <=> weak' > 0))
    BY <1>1, <1>5
       DEF RefInv, TypeOK, Shape, Count, Counted, AttemptLoad,
           TempWeak, TempStrong, Attempt
  <2>6. ObjectRef \in Nat
    BY SetsOfTasks
  <2>7. Counted =>
           /\ strong = Cardinality(held) + Cardinality(TempStrong)
           /\ weak = ObjectRef + Cardinality(held) + Cardinality(watching)
                       + Cardinality(TempWeak) + Cardinality(NewWeak)
    BY DEF RefInv, Count
  <2>8. Counted' => strong' = Cardinality(held)' + Cardinality(TempStrong)'
    BY <1>5, <2>3, <2>5, <2>7
  <2>9. Counted' =>
           weak' = ObjectRef' + Cardinality(held)' + Cardinality(watching)'
                      + Cardinality(TempWeak)' + Cardinality(NewWeak)'
    BY <1>5, <2>3, <2>4, <2>5, <2>6, <2>7
  <2> QED BY <2>5, <2>8, <2>9 DEF Count
<1>7. Life'
  BY <1>1, <1>2
     DEF RefInv, TypeOK, Shape, Life, DestroyedByOne, AllIdle, Counted,
         TempStrong, Attempt, AttemptLoad
<1>8. DestroyedByOne'
  BY <1>1
     DEF RefInv, TypeOK, Shape, Life, DestroyedByOne, Counted,
         TempStrong, Attempt, AttemptLoad
<1> QED BY <1>2, <1>3, <1>6, <1>7, <1>8 DEF RefInv

LEMMA AttemptCasStep ==
    ASSUME RefInv, NEW t \in Tasks, AttemptCas(t)
    PROVE  RefInv'
<1> USE
   DEF Goto, Start, Finish, IncWeak, DecWeak, objectVars, countVars,
       handleVars
<1>1. /\ pc[t] # "idle" => Counted
      /\ Counted /\ (t \in held \/ t \in TempStrong) => strong > 0 /\ object = "alive"
      /\ Counted /\ (t \in held \/ t \in watching \/ t \in TempWeak \/ t \in NewWeak)
            => weak > 0 /\ counter = "live"
      /\ Counted /\ object = "alive" => weak > 0 /\ counter = "live"
  BY References
<1>2. TypeOK'
  BY <1>1
     DEF RefInv, TypeOK, AttemptCas, Pc, Op, Attempt, TempStrong,
         TempWeak, Shape
<1>3. Shape'
  BY <1>1 DEF RefInv, TypeOK, Shape, AttemptCas, Attempt, Life
<1>5. /\ Cardinality(held) \in Nat /\ Cardinality(watching) \in Nat
      /\ Cardinality(TempStrong) \in Nat /\ Cardinality(TempWeak) \in Nat
      /\ Cardinality(NewWeak) \in Nat /\ Cardinality(LastWeak) \in Nat
  BY TaskSets, SetsOfTasks DEF RefInv, TypeOK
<1>6. Count'
  <2>1. CASE strong = current[t] /\ strong' = strong + 1 /\ Goto(t, "attempt_weak") /\ UNCHANGED op
    <3>1. /\ held' = held
          /\ watching' = watching
          /\ TempStrong' = TempStrong \cup {t}
          /\ TempWeak' = TempWeak
          /\ NewWeak' = NewWeak
          /\ LastWeak' = LastWeak
      BY <1>1, <2>1
         DEF RefInv, TypeOK, Shape, Life, AttemptCas, Attempt,
             TempStrong, TempWeak, NewWeak, LastWeak
    <3>2. t \notin TempStrong
      BY <1>1, <2>1
         DEF RefInv, TypeOK, Shape, Life, AttemptCas, Attempt,
             TempStrong, TempWeak, NewWeak, LastWeak, Counted
    <3>3. /\ Cardinality(held)' = Cardinality(held)
          /\ Cardinality(watching)' = Cardinality(watching)
          /\ Cardinality(TempStrong)' = Cardinality(TempStrong) + 1
          /\ Cardinality(TempWeak)' = Cardinality(TempWeak)
          /\ Cardinality(NewWeak)' = Cardinality(NewWeak)
          /\ Cardinality(LastWeak)' = Cardinality(LastWeak)
      BY <3>1, <3>2, TaskSets, SetsOfTasks DEF RefInv, TypeOK
    <3>4. ObjectRef' = ObjectRef
      BY <1>1, <1>5, <3>1, <3>2, <3>3, <2>1
         DEF RefInv, TypeOK, Life, ObjectRef, AttemptCas
    <3>5. /\ strong' = strong + 1 /\ weak' = weak /\ (Counted' => Counted)
          /\ (Counted => (counter' = "live" <=> weak' > 0))
      BY <1>1, <1>5, <2>1
         DEF RefInv, TypeOK, Shape, Count, Counted, AttemptCas,
             TempWeak, TempStrong, Attempt
    <3>6. ObjectRef \in Nat
      BY SetsOfTasks
    <3>7. Counted =>
             /\ strong = Cardinality(held) + Cardinality(TempStrong)
             /\ weak = ObjectRef + Cardinality(held) + Cardinality(watching)
                         + Cardinality(TempWeak) + Cardinality(NewWeak)
      BY DEF RefInv, Count
    <3>8. Counted' => strong' = Cardinality(held)' + Cardinality(TempStrong)'
      BY <1>5, <3>3, <3>5, <3>7
    <3>9. Counted' =>
             weak' = ObjectRef' + Cardinality(held)' + Cardinality(watching)'
                        + Cardinality(TempWeak)' + Cardinality(NewWeak)'
      BY <1>5, <3>3, <3>4, <3>5, <3>6, <3>7
    <3> QED BY <3>5, <3>8, <3>9 DEF Count
  <2>2. CASE Attempt(t, strong) /\ UNCHANGED strong
    <3>1. /\ held' = held
          /\ watching' = watching
          /\ TempStrong' = TempStrong
          /\ TempWeak' = TempWeak
          /\ NewWeak' = NewWeak
          /\ LastWeak' = LastWeak
      BY <1>1, <2>2
         DEF RefInv, TypeOK, Shape, Life, AttemptCas, Attempt,
             TempStrong, TempWeak, NewWeak, LastWeak
    <3>2. TRUE
      BY <1>1, <2>2
         DEF RefInv, TypeOK, Shape, Life, AttemptCas, Attempt,
             TempStrong, TempWeak, NewWeak, LastWeak, Counted
    <3>3. /\ Cardinality(held)' = Cardinality(held)
          /\ Cardinality(watching)' = Cardinality(watching)
          /\ Cardinality(TempStrong)' = Cardinality(TempStrong)
          /\ Cardinality(TempWeak)' = Cardinality(TempWeak)
          /\ Cardinality(NewWeak)' = Cardinality(NewWeak)
          /\ Cardinality(LastWeak)' = Cardinality(LastWeak)
      BY <3>1, <3>2, TaskSets, SetsOfTasks DEF RefInv, TypeOK
    <3>4. ObjectRef' = ObjectRef
      BY <1>1, <1>5, <3>1, <3>2, <3>3, <2>2
         DEF RefInv, TypeOK, Life, ObjectRef, AttemptCas
    <3>5. /\ strong' = strong /\ weak' = weak /\ (Counted' => Counted)
          /\ (Counted => (counter' = "live" <=> weak' > 0))
      BY <1>1, <1>5, <2>2
         DEF RefInv, TypeOK, Shape, Count, Counted, AttemptCas,
             TempWeak, TempStrong, Attempt
    <3>6. ObjectRef \in Nat
      BY SetsOfTasks
    <3>7. Counted =>
             /\ strong = Cardinality(held) + Cardinality(TempStrong)
             /\ weak = ObjectRef + Cardinality(held) + Cardinality(watching)
                         + Cardinality(TempWeak) + Cardinality(NewWeak)
      BY DEF RefInv, Count
    <3>8. Counted' => strong' = Cardinality(held)' + Cardinality(TempStrong)'
      BY <1>5, <3>3, <3>5, <3>7
    <3>9. Counted' =>
             weak' = ObjectRef' + Cardinality(held)' + Cardinality(watching)'
                        + Cardinality(TempWeak)' + Cardinality(NewWeak)'
      BY <1>5, <3>3, <3>4, <3>5, <3>6, <3>7
    <3> QED BY <3>5, <3>8, <3>9 DEF Count
  <2> QED BY <2>1, <2>2 DEF AttemptCas, Attempt, RefInv, Shape, TypeOK, Op
<1>7. Life'
  BY <1>1, <1>2
     DEF RefInv, TypeOK, Shape, Life, DestroyedByOne, AllIdle, Counted,
         TempStrong, Attempt, AttemptCas
<1>8. DestroyedByOne'
  BY <1>1
     DEF RefInv, TypeOK, Shape, Life, DestroyedByOne, Counted,
         TempStrong, Attempt, AttemptCas
<1> QED BY <1>2, <1>3, <1>6, <1>7, <1>8 DEF RefInv

LEMMA AttemptWeakStep ==
    ASSUME RefInv, NEW t \in Tasks, AttemptWeak(t)
    PROVE  RefInv'
<1> USE
   DEF Goto, Start, Finish, IncWeak, DecWeak, objectVars, countVars,
       handleVars
<1>1. /\ pc[t] # "idle" => Counted
      /\ Counted /\ (t \in held \/ t \in TempStrong) => strong > 0 /\ object = "alive"
      /\ Counted /\ (t \in held \/ t \in watching \/ t \in TempWeak \/ t \in NewWeak)
            => weak > 0 /\ counter = "live"
      /\ Counted /\ object = "alive" => weak > 0 /\ counter = "live"
  BY References
<1>2. TypeOK'
  BY <1>1 DEF RefInv, TypeOK, AttemptWeak, Pc, Op, TempStrong, TempWeak, Shape
<1>3. Shape'
  BY <1>1 DEF RefInv, TypeOK, Shape, AttemptWeak, Life
<1>5. /\ Cardinality(held) \in Nat /\ Cardinality(watching) \in Nat
      /\ Cardinality(TempStrong) \in Nat /\ Cardinality(TempWeak) \in Nat
      /\ Cardinality(NewWeak) \in Nat /\ Cardinality(LastWeak) \in Nat
  BY TaskSets, SetsOfTasks DEF RefInv, TypeOK
<1>6. Count'
  <2>1. /\ held' = held
        /\ watching' = watching
        /\ TempStrong' = TempStrong
        /\ TempWeak' = TempWeak \cup {t}
        /\ NewWeak' = NewWeak
        /\ LastWeak' = LastWeak
    BY <1>1
       DEF RefInv, TypeOK, Shape, Life, AttemptWeak, TempStrong,
           TempWeak, NewWeak, LastWeak
  <2>2. t \notin TempWeak
    BY <1>1
       DEF RefInv, TypeOK, Shape, Life, AttemptWeak, TempStrong,
           TempWeak, NewWeak, LastWeak, Counted
  <2>3. /\ Cardinality(held)' = Cardinality(held)
        /\ Cardinality(watching)' = Cardinality(watching)
        /\ Cardinality(TempStrong)' = Cardinality(TempStrong)
        /\ Cardinality(TempWeak)' = Cardinality(TempWeak) + 1
        /\ Cardinality(NewWeak)' = Cardinality(NewWeak)
        /\ Cardinality(LastWeak)' = Cardinality(LastWeak)
    BY <2>1, <2>2, TaskSets, SetsOfTasks DEF RefInv, TypeOK
  <2>4. ObjectRef' = ObjectRef
    BY <1>1, <1>5, <2>1, <2>2, <2>3
       DEF RefInv, TypeOK, Life, ObjectRef, AttemptWeak
  <2>5. /\ strong' = strong /\ weak' = weak + 1 /\ (Counted' => Counted)
        /\ (Counted => (counter' = "live" <=> weak' > 0))
    BY <1>1, <1>5
       DEF RefInv, TypeOK, Shape, Count, Counted, AttemptWeak,
           TempWeak, TempStrong
  <2>6. ObjectRef \in Nat
    BY SetsOfTasks
  <2>7. Counted =>
           /\ strong = Cardinality(held) + Cardinality(TempStrong)
           /\ weak = ObjectRef + Cardinality(held) + Cardinality(watching)
                       + Cardinality(TempWeak) + Cardinality(NewWeak)
    BY DEF RefInv, Count
  <2>8. Counted' => strong' = Cardinality(held)' + Cardinality(TempStrong)'
    BY <1>5, <2>3, <2>5, <2>7
  <2>9. Counted' =>
           weak' = ObjectRef' + Cardinality(held)' + Cardinality(watching)'
                      + Cardinality(TempWeak)' + Cardinality(NewWeak)'
    BY <1>5, <2>3, <2>4, <2>5, <2>6, <2>7
  <2> QED BY <2>5, <2>8, <2>9 DEF Count
<1>7. Life'
  BY <1>1, <1>2
     DEF RefInv, TypeOK, Shape, Life, DestroyedByOne, AllIdle, Counted,
         TempStrong, AttemptWeak
<1>8. DestroyedByOne'
  BY <1>1
     DEF RefInv, TypeOK, Shape, Life, DestroyedByOne, Counted,
         TempStrong, AttemptWeak
<1> QED BY <1>2, <1>3, <1>6, <1>7, <1>8 DEF RefInv

LEMMA CreateStep ==
    ASSUME RefInv, NEW t \in Tasks, Create(t)
    PROVE  RefInv'
<1> USE DEF objectVars, countVars, handleVars
<1>1. /\ strong = 0 /\ strong' = 0 /\ held = {} /\ watching' = {} /\ object' = "alive"
      /\ \A u \in Tasks : pc[u] = "idle" /\ op[u] = "none"
      /\ UNCHANGED current
  BY DEF RefInv, TypeOK, Shape, Life, AllIdle, Create
<1>2. CASE counter' = "live" /\ weak' = 1 /\ Start(t, "inc_weak", "create") /\ UNCHANGED held
  <2>1. /\ pc' = [pc EXCEPT ![t] = "inc_weak"] /\ op' = [op EXCEPT ![t] = "create"]
        /\ held' = {}
    BY <1>1, <1>2 DEF Start, Goto
  <2>2. TypeOK'
    BY <1>1, <1>2, <2>1 DEF RefInv, TypeOK, Pc, Op
  <2>3. Shape'
    BY <1>1, <2>1 DEF RefInv, TypeOK, Shape
  <2>4. TempStrong' = {} /\ TempWeak' = {} /\ NewWeak' = {}
    BY <1>1, <2>1 DEF RefInv, TypeOK, TempStrong, TempWeak, NewWeak
  <2>5. Cardinality({}) = 0
    BY FS_EmptySet
  <2>6. Count'
    BY <1>1, <1>2, <2>1, <2>4, <2>5 DEF Count, ObjectRef
  <2>7. Life'
    BY <1>1, <1>2, <2>1 DEF RefInv, TypeOK, Life, AllIdle, Counted
  <2>8. DestroyedByOne'
    BY <1>1, <2>1 DEF RefInv, TypeOK, DestroyedByOne
  <2> QED BY <2>2, <2>3, <2>6, <2>7, <2>8 DEF RefInv
<1>3. CASE counter' = "null" /\ held' = {t} /\ UNCHANGED <<weak, pc, op>>
  <2>1. TypeOK'
    BY <1>1, <1>3 DEF RefInv, TypeOK
  <2>2. Shape'
    BY <1>1, <1>3 DEF Shape
  <2>3. Count'
    BY <1>3 DEF Count, Counted
  <2>4. Life'
    BY <1>1, <1>3 DEF RefInv, Life, AllIdle, Counted, Create
  <2>5. DestroyedByOne'
    BY <1>1, <1>3 DEF DestroyedByOne
  <2> QED BY <2>1, <2>2, <2>3, <2>4, <2>5 DEF RefInv
<1> QED BY <1>2, <1>3 DEF Create

LEMMA DropUncountedStep ==
    ASSUME RefInv, NEW t \in Tasks, DropUncounted(t)
    PROVE  RefInv'
<1> USE DEF objectVars, countVars
<1>1. /\ held' = held \ {t} /\ counter = "null" /\ strong = 0
      /\ UNCHANGED <<object, counter, strong, weak, watching, pc, op, current>>
  BY DEF RefInv, TypeOK, Life, Counted, DropUncounted
<1>2. \A u \in Tasks : pc[u] = "idle" /\ op[u] = "none"
  BY <1>1 DEF RefInv, Shape, Life, AllIdle
<1>3. TypeOK'
  BY <1>1 DEF RefInv, TypeOK
<1>4. Shape'
  BY <1>1, <1>2 DEF Shape
<1>5. Count'
  BY <1>1 DEF Count, Counted
<1>6. Life'
  BY <1>1, <1>2 DEF RefInv, Life, AllIdle, Counted
<1>7. DestroyedByOne'
  BY <1>1, <1>2 DEF DestroyedByOne
<1> QED BY <1>3, <1>4, <1>5, <1>6, <1>7 DEF RefInv

LEMMA RefInit == Init => RefInv
<1> SUFFICES ASSUME Init PROVE RefInv
  OBVIOUS
<1>1. TypeOK
  BY DEF Init, TypeOK, Pc, Op
<1>2. Shape
  BY DEF Init, Shape
<1>3. Count
  BY DEF Init, Count, Counted
<1>4. Life
  BY DEF Init, Life, AllIdle, Counted
<1>5. DestroyedByOne
  BY DEF Init, DestroyedByOne
<1> QED BY <1>1, <1>2, <1>3, <1>4, <1>5 DEF RefInv

LEMMA RefNext == RefInv /\ [Next]_vars => RefInv'
<1> SUFFICES ASSUME RefInv, [Next]_vars PROVE RefInv'
  OBVIOUS
<1>1. CASE UNCHANGED vars
  <2>1. TypeOK' /\ Shape' /\ Life' /\ DestroyedByOne'
    BY <1>1 DEF RefInv, TypeOK, Shape, Life, DestroyedByOne, AllIdle, Counted, vars,
                objectVars, countVars, handleVars
  <2>2. Count'
    BY <1>1 DEF RefInv, Count, Counted, ObjectRef, TempStrong, TempWeak, NewWeak,
                LastWeak, vars, objectVars, countVars, handleVars
  <2> QED BY <2>1, <2>2 DEF RefInv
<1>2. ASSUME NEW t \in Tasks, Begin(t) PROVE RefInv'
  BY <1>2, CreateStep, CopyStep, DropStep, DropUncountedStep, AttachStep,
     CopyWeakStep, DetachStep, PromoteStep DEF Begin
<1>3. ASSUME NEW t \in Tasks, Step(t) PROVE RefInv'
  BY <1>3, IncStrongWeakStep, IncStrongStrongStep, GiveStep, DecStrongStep,
     DestroyStep, ObjectWeakStep, DecStrongWeakStep, WatchWeakStep, GiveWeakStep,
     UnwatchWeakStep, AttemptLoadStep, AttemptCasStep, AttemptWeakStep DEF Step
<1> QED BY <1>1, <1>2, <1>3 DEF Next

-----------------------------------------------------------------------------
(* The theorems.                                                           *)

LEMMA RefAlways == Spec => []RefInv
<1>1. Init => RefInv
  BY RefInit
<1>2. RefInv /\ [Next]_vars => RefInv'
  BY RefNext
<1> QED BY <1>1, <1>2, PTL DEF Spec

\* Every variable keeps its type: in particular no count goes below zero
\* (DecStrong, DecWeak).
THEOREM PointersTypeCorrect == Spec => []TypeOK
<1>1. RefInv => TypeOK
  BY DEF RefInv
<1> QED BY <1>1, RefAlways, PTL

\* No operation touches the object or the counter after it was freed
\* (DecStrongRef, DecWeak, AttemptIncStrong, promote).
THEOREM PointersAreSafe == Spec => []NoUseAfterFree
<1>1. RefInv => NoUseAfterFree
  <2> SUFFICES ASSUME RefInv, NEW t \in Tasks
               PROVE  /\ pc[t] \in TouchesObject => object = "alive"
                      /\ pc[t] \in TouchesCounter => counter = "live"
    BY DEF NoUseAfterFree
  <2>1. /\ pc[t] # "idle" => Counted
        /\ Counted /\ (t \in held \/ t \in TempStrong) => object = "alive"
        /\ Counted /\ (t \in held \/ t \in watching \/ t \in TempWeak \/ t \in NewWeak)
              => counter = "live"
        /\ Counted /\ object = "alive" => counter = "live"
    BY References
  <2>2. pc[t] \in TouchesObject => object = "alive"
    <3>1. pc[t] \in {"inc_weak", "inc_strong"} => op[t] \in {"create", "copy", "promote"}
      BY DEF RefInv, TypeOK, Shape, Op
    <3> QED BY <2>1, <3>1 DEF RefInv, Shape, Life, TempStrong, TouchesObject
  <2>3. pc[t] \in {"load", "cas", "watch"} => t \in held \/ t \in watching
    <3>1. pc[t] = "watch" => op[t] \in {"watch", "copy"}
      BY DEF RefInv, TypeOK, Shape, Op
    <3> QED BY <3>1 DEF RefInv, Shape
  <2>4. pc[t] \in {"object_weak", "dec_weak", "unwatch"} => t \in TempWeak
    BY DEF TempWeak
  <2> QED BY <2>1, <2>2, <2>3, <2>4 DEF TouchesObject, TouchesCounter
<1> QED BY <1>1, RefAlways, PTL

\* The object is destroyed once, by the task whose DecStrong found the last
\* reference.
THEOREM DestroyedOnce == Spec => []DestroyedByOne
<1>1. RefInv => DestroyedByOne
  BY DEF RefInv
<1> QED BY <1>1, RefAlways, PTL

\* An sptr keeps the object and a wptr the counter.
THEOREM PointersKeep == Spec => []HandlesKeep
<1>1. RefInv => HandlesKeep
  <2> SUFFICES ASSUME RefInv PROVE HandlesKeep
    OBVIOUS
  <2>1. ASSUME NEW t \in held PROVE object = "alive"
    <3>1. t \in Tasks
      BY DEF RefInv, TypeOK
    <3>2. CASE Counted
      BY <3>1, <3>2, References
    <3>3. CASE ~Counted
      BY <3>3, <2>1 DEF RefInv, TypeOK, Life, Counted
    <3> QED BY <3>2, <3>3
  <2>2. ASSUME NEW t \in watching PROVE counter = "live"
    <3>1. t \in Tasks /\ Counted
      BY <2>2 DEF RefInv, TypeOK, Life, Counted
    <3> QED BY <3>1, References
  <2> QED BY <2>1, <2>2 DEF HandlesKeep
<1> QED BY <1>1, RefAlways, PTL

\* When nobody holds a pointer and no operation is in progress, the object
\* and its counter are gone.
THEOREM PointersFree == Spec => []NothingLeaks
<1>1. RefInv => NothingLeaks
  <2> SUFFICES ASSUME RefInv, Counted, AllIdle, held = {}
               PROVE  /\ object = "destroyed"
                      /\ watching = {} => counter = "freed"
    BY DEF NothingLeaks
  <2>1. TempStrong = {} /\ TempWeak = {} /\ NewWeak = {} /\ LastWeak = {}
    BY DEF RefInv, Shape, AllIdle, TempStrong, TempWeak, NewWeak, LastWeak
  <2>2. Cardinality({}) = 0
    BY FS_EmptySet
  <2>3. strong = 0
    BY <2>1, <2>2 DEF RefInv, Count
  <2>4. object = "destroyed"
    BY <2>3 DEF RefInv, TypeOK, Shape, Life, AllIdle, Counted
  <2>5. ASSUME watching = {} PROVE counter = "freed"
    <3>1. weak = 0
      BY <2>1, <2>2, <2>4, <2>5 DEF RefInv, Count, ObjectRef
    <3> QED BY <3>1 DEF RefInv, Count, Counted
  <2> QED BY <2>4, <2>5
<1> QED BY <1>1, RefAlways, PTL

\* The four together: an object shared by any number of tasks is used by none
\* of them after it was destroyed, and is destroyed once, when its last pointer
\* goes (IncStrongRef, DecStrongRef, AttemptIncStrong, ~RefBase).
THEOREM PointersAreSound == Spec => []PointersSound
<1> QED BY PointersAreSafe, PointersKeep, DestroyedOnce, PointersFree, PTL
        DEF PointersSound

-----------------------------------------------------------------------------
(***************************************************************************)
(* The record of a call.  A handler composes a few operations on it.  Each *)
(* of them keeps a record Good, and Keeps the times of its making and of   *)
(* its talk; the steps follow from that.                                   *)
(***************************************************************************)
\* A record while an operation works on it: its running state may be one of an
\* object that no step leaves behind.
Draft == [tel : TelStates, run : Running \cup {"CREATE", "CONNECTING"},
          type : CallTypes, isIn : BOOLEAN,
          video : Videos, original : Videos, answer : Answers, create : Times,
          begin : Times, end : Times, ringBegin : Times, ringEnd : Times]

Outcome(c) == /\ c.answer = "MISSED" => c.begin = 0
              /\ c.answer = "ACTIVED" => c.begin # 0
Good(c) == c \in Record /\ c.run = RunningState(c.tel) /\ Outcome(c)
Keeps(c, d) == d.create = c.create /\ (c.begin # 0 => d.begin = c.begin)

\* The clock is past 0, the value that says "not yet".
Now == clock \in Times /\ clock # 0

LEMMA NowFromType == RecordTypeOK => Now
BY CallRecordAssumption DEF RecordTypeOK, Now, Times

LEMMA RecordIsNoNoCall == ASSUME NEW c \in Record PROVE c # NoCall
<1>1. c.tel \in TelStates
  BY DEF Record
<1>2. NoCall.tel = "NONE"
  BY DEF NoCall
<1> QED BY <1>1, <1>2 DEF TelStates

LEMMA RunningStateType ==
    ASSUME NEW tel \in TelStates PROVE RunningState(tel) \in Running
BY DEF TelStates, RunningState, Running

LEMMA RecordIsDraft == ASSUME NEW c \in Record PROVE c \in Draft
BY DEF Record, Draft

LEMMA DraftIsRecord ==
    ASSUME NEW c \in Draft, c.run \in Running PROVE c \in Record
BY DEF Record, Draft

-----------------------------------------------------------------------------
(***************************************************************************)
(* The operations.                                                         *)
(***************************************************************************)
\* What a change of state does to the times and the outcome.
LEMMA StateChangesSound ==
    ASSUME Now, NEW c \in Record, Outcome(c)
    PROVE  LET d == StateChangesTo(c)
           IN  /\ d \in Record /\ d.tel = c.tel /\ d.run = c.run
               /\ Outcome(d) /\ Keeps(c, d)
<1>1. CASE c.tel \in {"INCOMING", "WAITING", "ALERTING"}
  BY <1>1 DEF StateChangesTo, Now, Record, Outcome, Keeps
<1>2. CASE c.tel = "ACTIVE"
  BY <1>2 DEF StateChangesTo, StateChangesToActive, Now, Record, Outcome,
       Keeps, Answers
<1>3. CASE c.tel = "DISCONNECTING"
  BY <1>3 DEF StateChangesTo, OrNow, Now, Record, Outcome, Keeps
<1>4. CASE c.tel = "DISCONNECTED"
  BY <1>4 DEF StateChangesTo, OrNow, Now, Record, Outcome, Keeps
<1>5. CASE c.tel \in {"DIALING", "HOLDING"}
  BY <1>5 DEF StateChangesTo, Keeps
<1> QED BY <1>1, <1>2, <1>3, <1>4, <1>5 DEF Record, TelStates

\* SetTelCallState makes a record good, unless it is left as a duplicate.
LEMMA SetTelCallStateSound ==
    ASSUME Now, NEW c \in Draft, Outcome(c), NEW next \in TelStates,
           IsDuplicate(c, next) => c.run = RunningState(c.tel)
    PROVE  LET d == SetTelCallState(c, next)
           IN  Good(d) /\ d.tel = next /\ Keeps(c, d)
<1>1. CASE IsDuplicate(c, next)
  <2>1. c \in Record
    BY <1>1, RunningStateType, DraftIsRecord DEF Draft
  <2>2. SetTelCallState(c, next) = c /\ c.tel = next
    BY <1>1 DEF SetTelCallState, IsDuplicate
  <2> QED BY <1>1, <2>1, <2>2 DEF Good, Keeps
<1>2. CASE ~IsDuplicate(c, next)
  <2> DEFINE set == [c EXCEPT !.tel = next, !.run = RunningState(next)]
  <2>1. set \in Record
    BY RunningStateType DEF Draft, Record
  <2>2. set.tel = next /\ set.run = RunningState(next)
    BY DEF Draft
  <2>3. Outcome(set) /\ Keeps(c, set)
    BY DEF Draft, Outcome, Keeps
  <2>4. SetTelCallState(c, next) = StateChangesTo(set)
    BY <1>2 DEF SetTelCallState
  <2> HIDE DEF set
  <2>5. Keeps(set, StateChangesTo(set))
    BY <2>1, <2>3, StateChangesSound
  <2>6. Keeps(c, StateChangesTo(set))
    BY <2>3, <2>5 DEF Keeps
  <2> QED BY <2>1, <2>2, <2>3, <2>4, <2>6, StateChangesSound DEF Good
<1> QED BY <1>1, <1>2

LEMMA CreateNewCallSound ==
    ASSUME Now, NEW info \in Info, NEW isIn \in BOOLEAN
    PROVE  LET c == CreateNewCall(info, isIn)
           IN  c \in Draft /\ Outcome(c) /\ c.run = "CREATE"
               /\ c.tel = info.state /\ c.type = info.type
<1>1. 0 \in Times /\ clock \in Times
  BY CallRecordAssumption DEF Now, Times
<1>2. "MISSED" \in Answers
  BY DEF Answers
<1>3. CreateNewCall(info, isIn) \in Draft
  BY <1>1, <1>2 DEF CreateNewCall, Info, Draft
<1> QED BY <1>3 DEF CreateNewCall, Outcome

\* The replacement of a call is as good as the call and in its state.
LEMMA RefreshCallSound ==
    ASSUME Now, NEW c, Good(c), NEW info \in Info
    PROVE  LET d == RefreshCall(c, info)
           IN  Good(d) /\ d.tel = c.tel /\ Keeps(c, d)
<1> DEFINE new == CreateNewCall(info, c.isIn)
           full == [new EXCEPT
        !.run = c.run, !.answer = c.answer, !.create = c.create, !.begin = c.begin,
        !.end = c.end, !.ringBegin = c.ringBegin, !.ringEnd = c.ringEnd]
<1>1. new \in Draft /\ new.tel = info.state
  BY CreateNewCallSound DEF Good, Record
<1>2. c \in Record /\ c.tel \in TelStates /\ c.run = RunningState(c.tel)
  BY DEF Good, Record
<1> HIDE DEF new
<1>3. full \in Draft
  BY <1>1, <1>2 DEF Record, Draft
<1>4. /\ full.answer = c.answer /\ full.create = c.create
      /\ full.begin = c.begin /\ full.run = c.run /\ full.tel = new.tel
  BY <1>1 DEF Draft
<1>5. RefreshCall(c, info) = SetTelCallState(full, c.tel)
  BY DEF RefreshCall, new
<1> HIDE DEF full
<1>6. Outcome(full) /\ Keeps(c, full)
  BY <1>4 DEF Outcome, Keeps, Good
<1>7. IsDuplicate(full, c.tel) => full.run = RunningState(full.tel)
  BY <1>2, <1>4 DEF IsDuplicate
<1>8. LET d == SetTelCallState(full, c.tel)
      IN  Good(d) /\ d.tel = c.tel /\ Keeps(full, d)
  BY <1>2, <1>3, <1>6, <1>7, SetTelCallStateSound
<1> QED BY <1>5, <1>6, <1>8, <1>4 DEF Keeps

\* The media modes, the type and the outcome of a good record may be set.
LEMMA ModesSound ==
    ASSUME NEW c, Good(c), NEW mode \in Videos
    PROVE  /\ LET d == [c EXCEPT !.video = mode]
              IN  Good(d) /\ d.tel = c.tel /\ Keeps(c, d)
           /\ LET d == [c EXCEPT !.original = mode]
              IN  Good(d) /\ d.tel = c.tel /\ Keeps(c, d)
           /\ \A type \in CallTypes :
                 LET d == [c EXCEPT !.video = mode, !.type = type]
                 IN  Good(d) /\ d.tel = c.tel /\ Keeps(c, d)
BY DEF Good, Record, Outcome, Keeps

LEMMA AnswerSound ==
    ASSUME NEW c, Good(c), NEW answer \in {"REJECT", "ELSEWHERE"}
    PROVE  LET d == [c EXCEPT !.answer = answer]
           IN  Good(d) /\ d.tel = c.tel /\ Keeps(c, d)
BY DEF Good, Record, Outcome, Keeps, Answers

LEMMA RefreshCallIfNecessarySound ==
    ASSUME Now, NEW c, Good(c), NEW info \in Info
    PROVE  LET d == RefreshCallIfNecessary(c, info)
           IN  Good(d) /\ d.tel = c.tel /\ Keeps(c, d)
<1>1. info.video \in Videos
  BY DEF Info
<1>2. Keeps(c, c)
  BY DEF Keeps
<1> QED BY <1>1, <1>2, RefreshCallSound, ModesSound
          DEF RefreshCallIfNecessary

LEMMA OriginalSound ==
    ASSUME NEW c, Good(c)
    PROVE  /\ LET d == OriginalWhenActive(c)
              IN  Good(d) /\ d.tel = c.tel /\ Keeps(c, d)
           /\ LET d == OriginalWhenOver(c)
              IN  Good(d) /\ d.tel = c.tel /\ Keeps(c, d)
<1>1. c.video \in Videos /\ "VOICE" \in Videos /\ "VIDEO" \in Videos
  BY DEF Good, Record, Videos
<1>2. Keeps(c, c)
  BY DEF Keeps
<1> QED BY <1>1, <1>2, ModesSound DEF OriginalWhenActive, OriginalWhenOver

\* What one operation keeps and the next one keeps, both keep.
LEMMA KeepsBoth ==
    ASSUME NEW c, NEW d, NEW e, Keeps(c, d), Keeps(d, e)
    PROVE  Keeps(c, e)
BY DEF Keeps

LEMMA GoodIsDraft ==
    ASSUME NEW c, Good(c)
    PROVE  c \in Draft /\ Outcome(c) /\ c.run = RunningState(c.tel)
BY RecordIsDraft DEF Good

\* A good record in another state.
LEMMA NextStateSound ==
    ASSUME Now, NEW c, Good(c), NEW next \in TelStates
    PROVE  LET d == SetTelCallState(c, next)
           IN  Good(d) /\ d.tel = next /\ Keeps(c, d)
BY GoodIsDraft, SetTelCallStateSound

-----------------------------------------------------------------------------
(***************************************************************************)
(* The reports.                                                            *)
(***************************************************************************)
\* A refreshed record, and what may be made of it before its next state.
LEMMA RefreshedSound ==
    ASSUME Now, NEW c, Good(c), NEW info \in Info, NEW next \in TelStates
    PROVE  LET d == SetTelCallState(RefreshCallIfNecessary(c, info), next)
           IN  Good(d) /\ d.tel = next /\ Keeps(c, d)
<1> DEFINE r == RefreshCallIfNecessary(c, info)
<1>1. Good(r) /\ Keeps(c, r)
  BY RefreshCallIfNecessarySound
<1> HIDE DEF r
<1>2. LET d == SetTelCallState(r, next)
      IN  Good(d) /\ d.tel = next /\ Keeps(r, d)
  BY <1>1, NextStateSound
<1>3. Keeps(c, SetTelCallState(r, next))
  BY <1>1, <1>2, KeepsBoth
<1> QED BY <1>2, <1>3 DEF r

LEMMA BindIndexSound ==
    ASSUME Now, NEW c, Good(c), NEW info \in Info
    PROVE  Good(BindIndex(c, info)) /\ Keeps(c, BindIndex(c, info))
<1> DEFINE d == SetTelCallState(RefreshCallIfNecessary(c, info), "DIALING")
           e == [d EXCEPT !.video = info.video, !.type = info.type]
<1>1. Good(d) /\ Keeps(c, d)
  BY RefreshedSound DEF TelStates
<1>2. info.video \in Videos /\ info.type \in CallTypes
  BY DEF Info
<1>3. BindIndex(c, info) = e
  BY DEF BindIndex
<1> HIDE DEF d
<1>4. Good(e) /\ Keeps(d, e)
  BY <1>1, <1>2, ModesSound
<1>5. Keeps(c, e)
  BY <1>1, <1>4, KeepsBoth
<1> QED BY <1>3, <1>4, <1>5

LEMMA ResolveSound ==
    ASSUME Now, Good(call), NEW info \in Info
    PROVE  Good(Resolve(info)) /\ Keeps(call, Resolve(info))
<1>1. [info EXCEPT !.state = "DIALING"] \in Info
  BY DEF Info, TelStates
<1>2. Keeps(call, call)
  BY DEF Keeps
<1> QED BY <1>1, <1>2, BindIndexSound DEF Resolve

LEMMA ActiveSound ==
    ASSUME Now, Good(call), NEW info \in Info
    PROVE  Good(ActiveHandle(info)) /\ Keeps(call, ActiveHandle(info))
<1> DEFINE a == Resolve(info)
           b == RefreshCallIfNecessary(a, info)
           c == OriginalWhenActive(b)
<1>1. Good(a) /\ Keeps(call, a)
  BY ResolveSound
<1> HIDE DEF a
<1>2. Good(b) /\ Keeps(a, b)
  BY <1>1, RefreshCallIfNecessarySound
<1> HIDE DEF b
<1>3. Good(c) /\ Keeps(b, c)
  BY <1>2, OriginalSound
<1> HIDE DEF c
<1>4. LET d == SetTelCallState(c, "ACTIVE") IN Good(d) /\ Keeps(c, d)
  BY <1>3, NextStateSound DEF TelStates
<1>5. ActiveHandle(info) = SetTelCallState(c, "ACTIVE")
  BY DEF ActiveHandle, a, b, c
<1> QED BY <1>1, <1>2, <1>3, <1>4, <1>5, KeepsBoth

LEMMA AlertSound ==
    ASSUME Now, Good(call), NEW info \in Info
    PROVE  Good(AlertHandle(info)) /\ Keeps(call, AlertHandle(info))
<1> DEFINE a == Resolve(info)
           b == SetTelCallState(RefreshCallIfNecessary(a, info), "ALERTING")
<1>1. Good(a) /\ Keeps(call, a)
  BY ResolveSound
<1> HIDE DEF a
<1>2. Good(b) /\ Keeps(a, b)
  BY <1>1, RefreshedSound DEF TelStates
<1>3. AlertHandle(info) = a \/ AlertHandle(info) = b
  BY DEF AlertHandle, a, b
<1> HIDE DEF b
<1> QED BY <1>1, <1>2, <1>3, KeepsBoth

LEMMA HoldingSound ==
    ASSUME Now, Good(call), NEW info \in Info
    PROVE  Good(HoldingHandle(info)) /\ Keeps(call, HoldingHandle(info))
BY RefreshedSound DEF HoldingHandle, TelStates

LEMMA DisconnectingSound ==
    ASSUME Now, Good(call), NEW info \in Info
    PROVE  Good(DisconnectingHandle(info))
           /\ Keeps(call, DisconnectingHandle(info))
<1> DEFINE a == RefreshCallIfNecessary(call, info)
           b == OriginalWhenOver(a)
<1>1. Good(a) /\ Keeps(call, a)
  BY RefreshCallIfNecessarySound
<1> HIDE DEF a
<1>2. Good(b) /\ Keeps(a, b)
  BY <1>1, OriginalSound
<1> HIDE DEF b
<1>3. LET d == SetTelCallState(b, "DISCONNECTING") IN Good(d) /\ Keeps(b, d)
  BY <1>2, NextStateSound DEF TelStates
<1>4. DisconnectingHandle(info) = SetTelCallState(b, "DISCONNECTING")
  BY DEF DisconnectingHandle, a, b
<1> QED BY <1>1, <1>2, <1>3, <1>4, KeepsBoth

LEMMA DisconnectedSound ==
    ASSUME Now, Good(call), NEW info \in Info
    PROVE  Good(DisconnectedHandle(info))
           /\ Keeps(call, DisconnectedHandle(info))
<1> DEFINE a == Resolve(info)
           b == RefreshCallIfNecessary(a, info)
           r == RefreshCallDisconnectReason(b, info)
           c == OriginalWhenOver(r)
<1>1. Good(a) /\ Keeps(call, a)
  BY ResolveSound
<1> HIDE DEF a
<1>2. Good(b) /\ Keeps(a, b)
  BY <1>1, RefreshCallIfNecessarySound
<1> HIDE DEF b
<1>3. Good(r) /\ Keeps(b, r)
  BY <1>2, AnswerSound DEF RefreshCallDisconnectReason, Keeps
<1> HIDE DEF r
<1>4. Good(c) /\ Keeps(r, c)
  BY <1>3, OriginalSound
<1> HIDE DEF c
<1>5. LET d == SetTelCallState(c, "DISCONNECTED") IN Good(d) /\ Keeps(c, d)
  BY <1>4, NextStateSound DEF TelStates
<1>6. DisconnectedHandle(info) = SetTelCallState(c, "DISCONNECTED")
  BY DEF DisconnectedHandle, a, b, r, c
<1>7. Keeps(call, r)
  BY <1>1, <1>2, <1>3, KeepsBoth
<1> QED BY <1>4, <1>5, <1>6, <1>7, KeepsBoth

LEMMA DialingSound ==
    ASSUME Now, Good(call), NEW info \in Info
    PROVE  Good(DialingHandle(info)) /\ Keeps(call, DialingHandle(info))
BY RefreshCallIfNecessarySound, BindIndexSound DEF DialingHandle

LEMMA IncomingSound ==
    ASSUME Now, Good(call), NEW info \in Info
    PROVE  Good(IncomingHandle(info)) /\ Keeps(call, IncomingHandle(info))
<1> DEFINE a == RefreshCallIfNecessary(call, info)
           b == SetTelCallState(a, info.state)
<1>1. Good(a) /\ Keeps(call, a)
  BY RefreshCallIfNecessarySound
<1>2. Good(b) /\ Keeps(call, b)
  BY RefreshedSound DEF Info
<1>3. Keeps(call, call)
  BY DEF Keeps
<1>4. IncomingHandle(info) \in {call, a, b}
  BY DEF IncomingHandle
<1> HIDE DEF a, b
<1> QED BY <1>1, <1>2, <1>3, <1>4

\* Whatever is reported, the record stays good and keeps its times.
LEMMA ReportSound ==
    ASSUME Now, Good(call), NEW info \in Info
    PROVE  Good(HandleCallReportInfo(info))
           /\ Keeps(call, HandleCallReportInfo(info))
<1>1. info.state \in TelStates
  BY DEF Info
<1> QED BY <1>1, ActiveSound, AlertSound, HoldingSound, DisconnectingSound,
          DisconnectedSound, DialingSound, IncomingSound
       DEF HandleCallReportInfo, TelStates

-----------------------------------------------------------------------------
(***************************************************************************)
(* The steps.                                                              *)
(***************************************************************************)
\* The inductive invariant: an object that has been made is good.
IInv == RecordTypeOK /\ (call # NoCall => Good(call))

\* A dialled or a reported call is good from its first step on.
LEMMA DialSound ==
    ASSUME Now, NEW type \in CallTypes, NEW video \in Videos
    PROVE  Good(DialedCall(type, video))
<1> DEFINE info == [state |-> "DIALING", type |-> type, video |-> video,
                    original |-> video]
           new == CreateNewCall(info, FALSE)
           set == [new EXCEPT !.run = "CONNECTING"]
<1>1. new = CreateNewCall([info EXCEPT !.type = type], FALSE)
  BY DEF CreateNewCall
<1>2. 0 \in Times /\ clock \in Times /\ "MISSED" \in Answers
  BY CallRecordAssumption DEF Now, Times, Answers
<1>3. new \in Draft /\ new.tel = "DIALING" /\ Outcome(new)
  BY <1>2 DEF CreateNewCall, Draft, TelStates, Outcome
<1>4. DialedCall(type, video) = SetTelCallState(set, "DIALING")
  BY DEF DialedCall
<1> HIDE DEF new
<1>5. set \in Draft /\ Outcome(set)
  BY <1>3 DEF Draft, Outcome
<1>6. ~IsDuplicate(set, "DIALING")
  BY DEF IsDuplicate
<1> HIDE DEF set
<1> QED BY <1>4, <1>5, <1>6, SetTelCallStateSound DEF TelStates

LEMMA NewSound ==
    ASSUME Now, NEW info \in Info PROVE Good(NewCall(info))
<1> DEFINE new == CreateNewCall(info, info.state # "DIALING")
<1>1. new \in Draft /\ Outcome(new) /\ new.run = "CREATE"
  BY CreateNewCallSound
<1>2. NewCall(info) = SetTelCallState(new, info.state)
  BY DEF NewCall
<1>3. info.state \in TelStates
  BY DEF Info
<1> HIDE DEF new
<1>4. ~IsDuplicate(new, info.state)
  BY <1>1 DEF IsDuplicate
<1> QED BY <1>1, <1>2, <1>3, <1>4, SetTelCallStateSound

LEMMA RejectSound ==
    ASSUME Good(call)
    PROVE  Good(RejectCallBase(call)) /\ Keeps(call, RejectCallBase(call))
BY AnswerSound DEF RejectCallBase

LEMMA DealFailDialSound ==
    ASSUME Now, Good(call)
    PROVE  LET d == SetTelCallState(OriginalWhenOver(call), "DISCONNECTED")
           IN  Good(d) /\ Keeps(call, d)
<1> DEFINE a == OriginalWhenOver(call)
<1>1. Good(a) /\ Keeps(call, a)
  BY OriginalSound
<1> HIDE DEF a
<1>2. LET d == SetTelCallState(a, "DISCONNECTED") IN Good(d) /\ Keeps(a, d)
  BY <1>1, NextStateSound DEF TelStates
<1>3. Keeps(call, SetTelCallState(a, "DISCONNECTED"))
  BY <1>1, <1>2, KeepsBoth
<1> QED BY <1>2, <1>3 DEF a

\* The object that is there after a step: the first one, or what the step made
\* of the one that was there.
Made == call = NoCall /\ Good(call')
Worked == Good(call') /\ (call # NoCall => Keeps(call, call'))
Left == call' = call

LEMMA StepSound ==
    ASSUME IInv, [RecordNext]_recordVars PROVE Made \/ Worked \/ Left
<1> USE NowFromType DEF IInv
<1>1. ASSUME NEW type \in CallTypes, NEW video \in Videos, Dial(type, video)
      PROVE  Made
  BY <1>1, DialSound DEF Dial, Made
<1>2. ASSUME NEW info \in Info, ReportNew(info)
      PROVE  Made
  BY <1>2, NewSound DEF ReportNew, Made
<1>3. ASSUME NEW info \in Info, Report(info)
      PROVE  Worked \/ Left
  <2>1. call # NoCall
    BY <1>3 DEF Report, RecordTypeOK
  <2> QED BY <1>3, <2>1, ReportSound DEF Report, Worked, Left
<1>4. CASE DealFailDial
  <2>1. call # NoCall
    BY <1>4 DEF DealFailDial, RecordTypeOK
  <2> QED BY <1>4, <2>1, DealFailDialSound DEF DealFailDial, Worked
<1>5. CASE RejectRequest
  <2>1. inTable => call # NoCall
    BY DEF RecordTypeOK
  <2> QED BY <1>5, <2>1, RejectSound DEF RejectRequest, Worked, Left
<1>6. CASE EccDialPolicy
  <2>1. call # NoCall
    BY <1>6 DEF EccDialPolicy, RecordTypeOK
  <2> QED BY <1>6, <2>1, RejectSound DEF EccDialPolicy, Worked
<1>7. CASE RejectCall \/ Tick \/ UNCHANGED recordVars
  BY <1>7 DEF RejectCall, Tick, recordVars, Left
<1> QED BY <1>1, <1>2, <1>3, <1>4, <1>5, <1>6, <1>7 DEF RecordNext

LEMMA InitIInv == RecordInit => IInv
<1> SUFFICES ASSUME RecordInit PROVE IInv
  OBVIOUS
<1>1. FirstTime \in FirstTime .. MaxTime /\ 0 \in 0 .. MaxRequests
  BY CallRecordAssumption
<1> QED BY <1>1 DEF RecordInit, IInv, RecordTypeOK

LEMMA NextIInv == IInv /\ [RecordNext]_recordVars => IInv'
<1> SUFFICES ASSUME IInv, [RecordNext]_recordVars PROVE IInv'
  OBVIOUS
<1>1. call' = call \/ Good(call')
  BY StepSound DEF Made, Worked, Left
<1>2. call' # NoCall => Good(call')
  BY <1>1 DEF IInv
<1>3. Good(call') => call' # NoCall
  BY RecordIsNoNoCall DEF Good
<1>4. call' = NoCall \/ call' \in Record
  BY <1>1 DEF Good, IInv, RecordTypeOK
<1> DEFINE Typed == /\ inTable \in BOOLEAN /\ bound \in BOOLEAN
                    /\ clock \in FirstTime .. MaxTime
                    /\ rejects \in 0 .. MaxRequests
                    /\ stack \in TelStates \cup {"NONE"}
<1>5. Typed'
  <2> USE CallRecordAssumption DEF IInv, RecordTypeOK
  <2>1. CASE \E type \in CallTypes, video \in Videos : Dial(type, video)
    BY <2>1 DEF Dial, TelStates
  <2>2. ASSUME NEW info \in Info, ReportNew(info) \/ Report(info)
        PROVE  Typed'
    BY <2>2 DEF ReportNew, Report, Info
  <2>3. CASE DealFailDial \/ EccDialPolicy \/ UNCHANGED recordVars
    BY <2>3 DEF DealFailDial, EccDialPolicy, recordVars
  <2>4. CASE RejectCall \/ RejectRequest \/ Tick
    BY <2>4 DEF RejectCall, RejectRequest, Tick
  <2> QED BY <2>1, <2>2, <2>3, <2>4 DEF RecordNext
<1>6. inTable' => call' # NoCall
  <2>1. CASE call' = call
    <3>1. inTable' => inTable \/ Good(call')
      <4>1. ASSUME NEW type \in CallTypes, NEW video \in Videos,
                   Dial(type, video)
            PROVE  Good(call')
        BY <4>1, DialSound, NowFromType DEF Dial, IInv
      <4>2. ASSUME NEW info \in Info, ReportNew(info)
            PROVE  Good(call')
        BY <4>2, NewSound, NowFromType DEF ReportNew, IInv
      <4> QED BY <4>1, <4>2 DEF RecordNext, Report, DealFailDial, RejectCall,
               RejectRequest, EccDialPolicy, Tick, recordVars
    <3> QED BY <2>1, <3>1, <1>3 DEF IInv, RecordTypeOK
  <2>2. CASE Good(call')
    BY <2>2, <1>3
  <2> QED BY <1>1, <2>1, <2>2
<1> QED BY <1>2, <1>4, <1>5, <1>6 DEF IInv, RecordTypeOK, Good

-----------------------------------------------------------------------------
(***************************************************************************)
(* The order of the times.  It does need the order of the reports: the     *)
(* ringing of a call begins anew only before it has ended.                 *)
(***************************************************************************)
\* The states of a call that has not been talked on and is not being ended.
Early == {"DIALING", "ALERTING", "INCOMING", "WAITING"}

\* The times are past, the ringing ends after it began and not in an early
\* state, and a call that is over has all its ends.
Timely(c) ==
    /\ c.create <= clock /\ c.begin <= clock
    /\ c.ringBegin <= clock /\ c.ringEnd <= clock
    /\ c.ringEnd # 0 => c.create <= c.ringEnd /\ c.ringBegin <= c.ringEnd
    /\ c.tel \in Early => c.ringEnd = 0
    /\ c.tel = "DISCONNECTED" =>
          c.ringEnd # 0 /\ c.ringEnd <= c.end /\ c.begin <= c.end

\* How the state of a call in the table follows the stack's: a WAITING may stay
\* for an INCOMING, an ALERTING that crosses a hang-up is not taken, and what the
\* stack says of a call that is being ended without its index is not heard.
Fits(tel, state) ==
    \/ tel = state /\ tel # "DISCONNECTED"
    \/ tel \in {"INCOMING", "WAITING"} /\ state \in {"INCOMING", "WAITING"}
    \/ tel = "DISCONNECTING" /\ state = "ALERTING"
InStep ==
    /\ bound => Fits(call.tel, stack)
    /\ ~bound => call.tel = "DIALING" /\ stack \in {"DIALING", "DISCONNECTING"}

\* A record with its times as numbers.
LEMMA TimesAreNumbers ==
    ASSUME NEW c \in Record
    PROVE  /\ c.create \in Nat /\ c.begin \in Nat /\ c.end \in Nat
           /\ c.ringBegin \in Nat /\ c.ringEnd \in Nat
BY CallRecordAssumption DEF Record, Times

\* A change of state goes forward: it sets times to now.
LEMMA StateChangesTimely ==
    ASSUME Now, NEW c \in Record,
           c.create <= clock, c.begin <= clock,
           c.ringBegin <= clock, c.ringEnd <= clock,
           c.ringEnd # 0 => c.create <= c.ringEnd /\ c.ringBegin <= c.ringEnd,
           c.tel \in Early => c.ringEnd = 0
    PROVE  Timely(StateChangesTo(c))
<1> USE TimesAreNumbers DEF Now
<1>0. clock \in Nat /\ c.tel \in TelStates
  BY CallRecordAssumption DEF Times, Record
<1>1. CASE c.tel \in {"INCOMING", "WAITING", "ALERTING"}
  BY <1>0, <1>1 DEF StateChangesTo, Record, Timely, Early
<1>2. CASE c.tel = "ACTIVE"
  BY <1>0, <1>2 DEF StateChangesTo, StateChangesToActive, Record, Timely, Early
<1>3. CASE c.tel = "DISCONNECTING"
  BY <1>0, <1>3 DEF StateChangesTo, OrNow, Record, Timely, Early
<1>4. CASE c.tel = "DISCONNECTED"
  <2> DEFINE d == StateChangesTo(c)
  <2>1. /\ d.tel = c.tel /\ d.create = c.create /\ d.begin = c.begin
        /\ d.ringBegin = c.ringBegin /\ d.end = clock
        /\ d.ringEnd = IF c.ringEnd = 0 THEN clock ELSE c.ringEnd
    BY <1>4 DEF StateChangesTo, OrNow, Record
  <2> HIDE DEF d
  <2>2. Timely(d)
    BY <1>0, <1>4, <2>1 DEF Timely, Early
  <2> QED BY <2>2 DEF d
<1>5. CASE c.tel \in {"DIALING", "HOLDING"}
  BY <1>0, <1>5 DEF StateChangesTo, Timely, Early
<1> QED BY <1>0, <1>1, <1>2, <1>3, <1>4, <1>5 DEF TelStates

\* The next state of a call, early only after an early one.
LEMMA NextStateTimely ==
    ASSUME Now, NEW c, Good(c), Timely(c), NEW next \in TelStates,
           next \in Early => c.tel \in Early
    PROVE  Timely(SetTelCallState(c, next))
<1>1. CASE IsDuplicate(c, next)
  BY <1>1 DEF SetTelCallState
<1>2. CASE ~IsDuplicate(c, next)
  <2> DEFINE set == [c EXCEPT !.tel = next, !.run = RunningState(next)]
  <2>1. set \in Record
    BY RunningStateType DEF Good, Record
  <2>2. /\ set.tel = next /\ set.create = c.create /\ set.begin = c.begin
        /\ set.ringBegin = c.ringBegin /\ set.ringEnd = c.ringEnd
    BY DEF Good, Record
  <2>3. SetTelCallState(c, next) = StateChangesTo(set)
    BY <1>2 DEF SetTelCallState
  <2> HIDE DEF set
  <2>4. /\ set.create <= clock /\ set.begin <= clock
        /\ set.ringBegin <= clock /\ set.ringEnd <= clock
        /\ set.ringEnd # 0 => set.create <= set.ringEnd /\ set.ringBegin <= set.ringEnd
        /\ set.tel \in Early => set.ringEnd = 0
    BY <2>2 DEF Timely
  <2> QED BY <2>1, <2>3, <2>4, StateChangesTimely
<1> QED BY <1>1, <1>2

\* The replacement of a call takes the times over before the state.
LEMMA RefreshCallTimely ==
    ASSUME Now, NEW c, Good(c), Timely(c), c.tel # "DISCONNECTED",
           NEW info \in Info
    PROVE  Timely(RefreshCall(c, info))
<1> DEFINE new == CreateNewCall(info, c.isIn)
           full == [new EXCEPT
        !.run = c.run, !.answer = c.answer, !.create = c.create, !.begin = c.begin,
        !.end = c.end, !.ringBegin = c.ringBegin, !.ringEnd = c.ringEnd]
           set == [full EXCEPT !.tel = c.tel, !.run = RunningState(c.tel)]
<1>1. new \in Draft
  BY CreateNewCallSound DEF Good, Record
<1>2. c \in Record /\ c.tel \in TelStates /\ c.run = RunningState(c.tel)
  BY DEF Good, Record
<1> HIDE DEF new
<1>3. full \in Draft
  BY <1>1, <1>2 DEF Record, Draft
<1>4. /\ full.create = c.create /\ full.begin = c.begin
      /\ full.ringBegin = c.ringBegin /\ full.ringEnd = c.ringEnd
  BY <1>1 DEF Draft
<1>5. RefreshCall(c, info) = SetTelCallState(full, c.tel)
  BY DEF RefreshCall, new
<1> HIDE DEF full
<1>6. CASE IsDuplicate(full, c.tel)
  <2>1. SetTelCallState(full, c.tel) = full /\ full.tel = c.tel
    BY <1>6 DEF SetTelCallState, IsDuplicate
  <2> QED BY <1>4, <1>5, <2>1 DEF Timely
<1>7. CASE ~IsDuplicate(full, c.tel)
  <2>1. set \in Record
    BY <1>2, <1>3, RunningStateType DEF Draft, Record
  <2>2. /\ set.tel = c.tel /\ set.create = c.create /\ set.begin = c.begin
        /\ set.ringBegin = c.ringBegin /\ set.ringEnd = c.ringEnd
    BY <1>3, <1>4 DEF Draft
  <2>3. SetTelCallState(full, c.tel) = StateChangesTo(set)
    BY <1>7 DEF SetTelCallState
  <2> HIDE DEF set
  <2>4. /\ set.create <= clock /\ set.begin <= clock
        /\ set.ringBegin <= clock /\ set.ringEnd <= clock
        /\ set.ringEnd # 0 => set.create <= set.ringEnd /\ set.ringBegin <= set.ringEnd
        /\ set.tel \in Early => set.ringEnd = 0
    BY <2>2 DEF Timely
  <2> QED BY <1>5, <2>1, <2>3, <2>4, StateChangesTimely
<1> QED BY <1>6, <1>7

\* Nothing else touches the state or a time.
Untimed(c, d) ==
    /\ d.tel = c.tel /\ d.create = c.create /\ d.begin = c.begin
    /\ d.end = c.end /\ d.ringBegin = c.ringBegin /\ d.ringEnd = c.ringEnd
LEMMA UntimedTimely ==
    ASSUME NEW c, NEW d, Timely(c), Untimed(c, d)
    PROVE  Timely(d)
BY DEF Timely, Untimed

\* A change of type keeps the times.
LEMMA RefreshTimely ==
    ASSUME Now, NEW c, Good(c), Timely(c), c.tel # "DISCONNECTED",
           NEW info \in Info
    PROVE  LET d == RefreshCallIfNecessary(c, info)
           IN  Good(d) /\ Timely(d) /\ d.tel = c.tel
<1>1. c.type = info.type => Untimed(c, RefreshCallIfNecessary(c, info))
  BY DEF RefreshCallIfNecessary, Untimed, Good, Record
<1>2. c.type # info.type => Timely(RefreshCallIfNecessary(c, info))
  BY RefreshCallTimely DEF RefreshCallIfNecessary
<1> QED BY <1>1, <1>2, UntimedTimely, RefreshCallIfNecessarySound

\* The media mode that a call began with is not a time.
LEMMA OriginalTimely ==
    ASSUME NEW c, Good(c), Timely(c)
    PROVE  /\ Timely(OriginalWhenActive(c)) /\ Timely(OriginalWhenOver(c))
<1>1. Untimed(c, OriginalWhenActive(c)) /\ Untimed(c, OriginalWhenOver(c))
  BY DEF OriginalWhenActive, OriginalWhenOver, Untimed, Good, Record
<1> QED BY <1>1, UntimedTimely

\* The index reaches a dialled call while it is DIALING.
LEMMA ResolveTimely ==
    ASSUME Now, Good(call), Timely(call), call.tel # "DISCONNECTED", InStep,
           NEW info \in Info
    PROVE  /\ Good(Resolve(info)) /\ Timely(Resolve(info))
           /\ Resolve(info).tel = IF bound THEN call.tel ELSE "DIALING"
<1>1. CASE bound
  BY <1>1 DEF Resolve
<1>2. ASSUME NEW i \in Info, call.tel = "DIALING"
      PROVE  Timely(BindIndex(call, i)) /\ BindIndex(call, i).tel = "DIALING"
  <2> DEFINE r == RefreshCallIfNecessary(call, i)
             d == SetTelCallState(r, "DIALING")
             e == [d EXCEPT !.video = i.video, !.type = i.type]
  <2>1. Good(r) /\ Timely(r) /\ r.tel = "DIALING"
    BY <1>2, RefreshTimely
  <2> HIDE DEF r
  <2>2. Good(d) /\ Timely(d) /\ d.tel = "DIALING"
    BY <2>1, NextStateSound, NextStateTimely DEF TelStates, Early
  <2> HIDE DEF d
  <2>3. Untimed(d, e)
    BY <2>2 DEF Untimed, Good, Record
  <2>4. BindIndex(call, i) = e
    BY DEF BindIndex, d, r
  <2> QED BY <2>2, <2>3, <2>4, UntimedTimely DEF Untimed
<1>3. CASE ~bound
  <2>1. [info EXCEPT !.state = "DIALING"] \in Info
    BY DEF Info, TelStates
  <2>2. call.tel = "DIALING"
    BY <1>3 DEF InStep
  <2> QED BY <1>2, <1>3, <2>1, <2>2, ResolveSound DEF Resolve
<1> QED BY <1>1, <1>3

\* What a report makes of a call that is in the table.
Reports(info, c) ==
    /\ Timely(c)
    /\ info.state # "DISCONNECTED" => Fits(c.tel, info.state)

\* One lemma for each of the handlers: what it reports is timely.
LEMMA ActiveTimely ==
    ASSUME Now, Good(call), Timely(call), call.tel # "DISCONNECTED", InStep,
           NEW info \in Info, info.state = "ACTIVE"
    PROVE  Reports(info, ActiveHandle(info))
<1> DEFINE a == Resolve(info)
           b == RefreshCallIfNecessary(a, info)
           c == OriginalWhenActive(b)
<1>1. Good(a) /\ Timely(a) /\ a.tel # "DISCONNECTED"
  BY ResolveTimely
<1> HIDE DEF a
<1>2. Good(b) /\ Timely(b)
  BY <1>1, RefreshTimely
<1> HIDE DEF b
<1>3. Good(c) /\ Timely(c)
  BY <1>2, OriginalSound, OriginalTimely
<1> HIDE DEF c
<1>4. /\ Timely(SetTelCallState(c, "ACTIVE"))
      /\ SetTelCallState(c, "ACTIVE").tel = "ACTIVE"
  BY <1>3, NextStateSound, NextStateTimely DEF TelStates, Early
<1>5. ActiveHandle(info) = SetTelCallState(c, "ACTIVE")
  BY DEF ActiveHandle, a, b, c
<1> QED BY <1>4, <1>5 DEF Reports, Fits

LEMMA AlertTimely ==
    ASSUME Now, Good(call), Timely(call), call.tel # "DISCONNECTED", InStep,
           NEW info \in Info, info.state = "ALERTING",
           MayFollow("ALERTING", stack)
    PROVE  Reports(info, AlertHandle(info))
<1> DEFINE a == Resolve(info)
           b == RefreshCallIfNecessary(a, info)
<1>1. Good(a) /\ Timely(a) /\ a.tel = IF bound THEN call.tel ELSE "DIALING"
  BY ResolveTimely
<1>2. AlertHandle(info) = IF call.tel = "DISCONNECTING" THEN a
                          ELSE SetTelCallState(b, "ALERTING")
  BY DEF AlertHandle
<1> HIDE DEF a
<1>3. CASE call.tel = "DISCONNECTING"
  BY <1>1, <1>2, <1>3 DEF Reports, Fits, InStep
<1>4. CASE call.tel # "DISCONNECTING"
  <2>1. a.tel \in {"DIALING", "ALERTING"}
    BY <1>1, <1>4 DEF InStep, Fits, MayFollow
  <2>2. Good(b) /\ Timely(b) /\ b.tel \in {"DIALING", "ALERTING"}
    BY <1>1, <2>1, RefreshTimely
  <2> HIDE DEF b
  <2>3. /\ Timely(SetTelCallState(b, "ALERTING"))
        /\ SetTelCallState(b, "ALERTING").tel = "ALERTING"
    BY <2>2, NextStateSound, NextStateTimely DEF TelStates, Early
  <2> QED BY <1>2, <1>4, <2>3 DEF Reports, Fits
<1> QED BY <1>3, <1>4

LEMMA EndingTimely ==
    ASSUME Now, Good(call), Timely(call), call.tel # "DISCONNECTED", InStep,
           NEW info \in Info,
           info.state \in {"HOLDING", "DISCONNECTING", "DISCONNECTED"}
    PROVE  Reports(info, HandleCallReportInfo(info))
<1> DEFINE a == RefreshCallIfNecessary(call, info)
           b == OriginalWhenOver(a)
           r == Resolve(info)
           s == RefreshCallIfNecessary(r, info)
           t == RefreshCallDisconnectReason(s, info)
           u == OriginalWhenOver(t)
<1>1. Good(a) /\ Timely(a)
  BY RefreshTimely
<1>2. HoldingHandle(info) = SetTelCallState(a, "HOLDING")
  BY DEF HoldingHandle
<1>3. DisconnectingHandle(info) = SetTelCallState(b, "DISCONNECTING")
  BY DEF DisconnectingHandle
<1>4. DisconnectedHandle(info) = SetTelCallState(u, "DISCONNECTED")
  BY DEF DisconnectedHandle
<1>5. Good(r) /\ Timely(r) /\ r.tel # "DISCONNECTED"
  BY ResolveTimely
<1> HIDE DEF a, r
<1>6. Good(b) /\ Timely(b)
  BY <1>1, OriginalSound, OriginalTimely
<1>7. Good(s) /\ Timely(s)
  BY <1>5, RefreshTimely
<1> HIDE DEF b, s
<1>8. Good(t) /\ Timely(t)
  <2>1. Good(t)
    BY <1>7, AnswerSound DEF RefreshCallDisconnectReason
  <2>2. Untimed(s, t)
    BY <1>7 DEF RefreshCallDisconnectReason, Untimed, Good, Record
  <2> QED BY <1>7, <2>1, <2>2, UntimedTimely
<1> HIDE DEF t
<1>9. Good(u) /\ Timely(u)
  BY <1>8, OriginalSound, OriginalTimely
<1> HIDE DEF u
<1>10. CASE info.state = "HOLDING"
  <2>1. /\ Timely(SetTelCallState(a, "HOLDING"))
        /\ SetTelCallState(a, "HOLDING").tel = "HOLDING"
    BY <1>1, NextStateSound, NextStateTimely DEF TelStates, Early
  <2> QED BY <1>2, <1>10, <2>1 DEF HandleCallReportInfo, Reports, Fits
<1>11. CASE info.state = "DISCONNECTING"
  <2>1. /\ Timely(SetTelCallState(b, "DISCONNECTING"))
        /\ SetTelCallState(b, "DISCONNECTING").tel = "DISCONNECTING"
    BY <1>6, NextStateSound, NextStateTimely DEF TelStates, Early
  <2> QED BY <1>3, <1>11, <2>1 DEF HandleCallReportInfo, Reports, Fits
<1>12. CASE info.state = "DISCONNECTED"
  <2>1. Timely(SetTelCallState(u, "DISCONNECTED"))
    BY <1>9, NextStateTimely DEF TelStates, Early
  <2> QED BY <1>4, <1>12, <2>1 DEF HandleCallReportInfo, Reports
<1> QED BY <1>10, <1>11, <1>12

LEMMA DialingTimely ==
    ASSUME Now, Good(call), Timely(call), call.tel # "DISCONNECTED", InStep,
           NEW info \in Info, info.state = "DIALING",
           MayFollow("DIALING", stack)
    PROVE  Reports(info, DialingHandle(info))
<1>1. call.tel = "DIALING"
  BY DEF InStep, Fits, MayFollow
<1>2. CASE bound
  BY <1>1, <1>2, RefreshTimely DEF DialingHandle, Reports, Fits
<1>3. CASE ~bound
  <2>1. [info EXCEPT !.state = "DIALING"] = info
    BY DEF Info
  <2>2. DialingHandle(info) = Resolve(info)
    BY <1>3, <2>1 DEF DialingHandle, Resolve
  <2> QED BY <1>3, <2>2, ResolveTimely DEF Reports, Fits
<1> QED BY <1>2, <1>3

LEMMA IncomingTimely ==
    ASSUME Now, Good(call), Timely(call), call.tel # "DISCONNECTED", InStep,
           NEW info \in Info, info.state \in {"INCOMING", "WAITING"},
           MayFollow(info.state, stack)
    PROVE  Reports(info, IncomingHandle(info))
<1> DEFINE a == RefreshCallIfNecessary(call, info)
           b == SetTelCallState(a, info.state)
           d == SetTelCallState(call, info.state)
<1>1. call.tel \in {"INCOMING", "WAITING"}
  BY DEF InStep, Fits, MayFollow
<1>2. Good(a) /\ Timely(a) /\ a.tel \in {"INCOMING", "WAITING"}
  BY <1>1, RefreshTimely
<1>3. IncomingHandle(info) \in {call, a, b}
  BY DEF IncomingHandle
<1> HIDE DEF a
<1>4. Timely(b) /\ b.tel = info.state
  <2>1. info.state \in TelStates /\ a.tel \in Early
    BY <1>2 DEF TelStates, Early
  <2> QED BY <1>2, <2>1, NextStateSound, NextStateTimely
<1> HIDE DEF b
<1>5. \A x \in {call, a, b} : Timely(x) /\ x.tel \in {"INCOMING", "WAITING"}
  BY <1>1, <1>2, <1>4
<1> QED BY <1>3, <1>5 DEF Reports, Fits

\* Whatever the stack may report next.
LEMMA ReportTimely ==
    ASSUME Now, Good(call), Timely(call), call.tel # "DISCONNECTED", InStep,
           NEW info \in Info, MayFollow(info.state, stack)
    PROVE  Reports(info, HandleCallReportInfo(info))
<1>1. info.state \in TelStates
  BY DEF Info
<1>2. CASE info.state \in {"HOLDING", "DISCONNECTING", "DISCONNECTED"}
  BY <1>2, EndingTimely
<1>3. CASE info.state = "ACTIVE"
  BY <1>3, ActiveTimely DEF HandleCallReportInfo
<1>4. CASE info.state = "ALERTING"
  BY <1>4, AlertTimely DEF HandleCallReportInfo
<1>5. CASE info.state = "DIALING"
  BY <1>5, DialingTimely DEF HandleCallReportInfo
<1>6. CASE info.state \in {"INCOMING", "WAITING"}
  BY <1>6, IncomingTimely DEF HandleCallReportInfo
<1> QED BY <1>1, <1>2, <1>3, <1>4, <1>5, <1>6 DEF TelStates

\* A new call has no time but now.
LEMMA NewTimely ==
    ASSUME Now, NEW info \in Info, NEW isIn \in BOOLEAN, info.state \in Early,
           NEW run \in {"CREATE", "CONNECTING"},
           run = "CONNECTING" => info.state = "DIALING"
    PROVE  LET d == SetTelCallState([CreateNewCall(info, isIn) EXCEPT !.run = run],
                                    info.state)
           IN  Timely(d) /\ d.tel = info.state
<1> DEFINE new == CreateNewCall(info, isIn)
           set == [new EXCEPT !.tel = info.state, !.run = RunningState(info.state)]
           old == [new EXCEPT !.run = run]
<1>1. /\ new \in Draft /\ new.tel = info.state /\ new.create = clock
      /\ new.begin = 0 /\ new.ringBegin = 0 /\ new.ringEnd = 0
  BY CreateNewCallSound DEF CreateNewCall
<1>2. clock \in Nat /\ info.state \in TelStates
  BY CallRecordAssumption DEF Now, Times, Info
<1> HIDE DEF new
<1>3. /\ set \in Record /\ set.tel = info.state /\ set.create = clock
      /\ set.begin = 0 /\ set.ringBegin = 0 /\ set.ringEnd = 0
  BY <1>1, <1>2, RunningStateType DEF Draft, Record
<1>4. old.run = run /\ old.tel = info.state /\ old \in Draft
  BY <1>1 DEF Draft
<1>5. [old EXCEPT !.tel = info.state, !.run = RunningState(info.state)] = set
  BY <1>1 DEF Draft
<1> HIDE DEF old, set
<1>6. ~IsDuplicate(old, info.state)
  BY <1>4 DEF IsDuplicate
<1>7. SetTelCallState(old, info.state) = StateChangesTo(set)
  BY <1>5, <1>6 DEF SetTelCallState
<1>8. StateChangesTo(set).tel = info.state
  BY <1>3 DEF StateChangesTo, Record, Early
<1>9. Timely(StateChangesTo(set))
  BY <1>2, <1>3, StateChangesTimely
<1> QED BY <1>7, <1>8, <1>9 DEF old, new

\* The inductive invariant, the record in step with the stack.
TimesInv ==
    /\ IInv /\ (call # NoCall => Timely(call))
    /\ inTable => call.tel # "DISCONNECTED" /\ InStep

LEMMA TimesInit == RecordInit => TimesInv
BY InitIInv DEF RecordInit, TimesInv

LEMMA TimesNext == TimesInv /\ [RecordNext]_recordVars => TimesInv'
<1> SUFFICES ASSUME TimesInv, [RecordNext]_recordVars PROVE TimesInv'
  OBVIOUS
<1> DEFINE Done == /\ call' # NoCall => Timely(call)'
                   /\ inTable' => call'.tel # "DISCONNECTED" /\ InStep'
<1>1. IInv' /\ Now
  BY NextIInv, NowFromType DEF TimesInv, IInv
<1>2. inTable => call # NoCall
  BY DEF TimesInv, IInv, RecordTypeOK
<1>3. call # NoCall => Good(call) /\ Timely(call)
  BY DEF TimesInv, IInv
<1>4. ASSUME clock' = clock, call' # NoCall => Timely(call'),
             inTable' => call'.tel # "DISCONNECTED" /\ InStep'
      PROVE  Done
  BY <1>4 DEF Timely
<1> HIDE DEF Done
<1>5. ASSUME NEW type \in CallTypes, NEW video \in Videos, Dial(type, video)
      PROVE  Done
  <2> DEFINE info == [state |-> "DIALING", type |-> type, video |-> video,
                      original |-> video, elsewhere |-> FALSE]
  <2>1. info \in Info /\ info.state = "DIALING"
    BY DEF Info, TelStates
  <2>2. DialedCall(type, video) =
            SetTelCallState([CreateNewCall(info, FALSE) EXCEPT !.run = "CONNECTING"],
                            "DIALING")
    BY DEF DialedCall, CreateNewCall
  <2> HIDE DEF info
  <2>3. Timely(DialedCall(type, video)) /\ DialedCall(type, video).tel = "DIALING"
    BY <1>1, <2>1, <2>2, NewTimely DEF Early
  <2> QED BY <1>4, <1>5, <2>3 DEF Dial, InStep
<1>6. ASSUME NEW info \in Info, ReportNew(info) PROVE Done
  <2> DEFINE new == CreateNewCall(info, info.state # "DIALING")
  <2>1. [new EXCEPT !.run = "CREATE"] = new
    BY DEF CreateNewCall
  <2>2. NewCall(info) = SetTelCallState([new EXCEPT !.run = "CREATE"], info.state)
    BY <2>1 DEF NewCall
  <2>3. info.state \in Early
    BY <1>6 DEF ReportNew, Early
  <2>4. Timely(NewCall(info)) /\ NewCall(info).tel = info.state
    BY <1>1, <2>2, <2>3, NewTimely
  <2> QED BY <1>4, <1>6, <2>3, <2>4 DEF ReportNew, InStep, Fits, Early
<1>7. ASSUME NEW info \in Info, Report(info) PROVE Done
  <2>1. /\ Good(call) /\ Timely(call) /\ call.tel # "DISCONNECTED" /\ InStep
        /\ MayFollow(info.state, stack)
    BY <1>2, <1>3, <1>7 DEF Report, TimesInv
  <2>2. CASE ~bound /\ info.state \in {"HOLDING", "DISCONNECTING"}
    <3>1. /\ UNCHANGED <<call, inTable, bound, clock>> /\ stack' = info.state
      BY <1>7, <2>2 DEF Report
    <3>2. info.state = "DISCONNECTING"
      BY <2>1, <2>2 DEF InStep, MayFollow
    <3> QED BY <1>4, <2>1, <2>2, <3>1, <3>2 DEF InStep
  <2>3. CASE ~(~bound /\ info.state \in {"HOLDING", "DISCONNECTING"})
    <3>1. /\ call' = HandleCallReportInfo(info) /\ bound' = TRUE
          /\ inTable' = (info.state # "DISCONNECTED")
          /\ stack' = info.state /\ clock' = clock
      BY <1>7, <2>3 DEF Report
    <3>2. Reports(info, HandleCallReportInfo(info))
      BY <1>1, <2>1, ReportTimely
    <3>3. Timely(call') /\ (inTable' => Fits(call'.tel, stack'))
      BY <3>1, <3>2 DEF Reports
    <3>4. inTable' => call'.tel # "DISCONNECTED" /\ InStep'
      BY <3>1, <3>3 DEF Fits, InStep
    <3> QED BY <1>4, <3>1, <3>3, <3>4
  <2> QED BY <2>2, <2>3
<1>8. ASSUME DealFailDial PROVE Done
  <2>1. /\ inTable /\ inTable' = FALSE /\ clock' = clock
        /\ call' = SetTelCallState(OriginalWhenOver(call), "DISCONNECTED")
    BY <1>8 DEF DealFailDial
  <2>2. Good(OriginalWhenOver(call)) /\ Timely(OriginalWhenOver(call))
    BY <1>2, <1>3, <2>1, OriginalSound, OriginalTimely
  <2>3. Timely(call')
    BY <1>1, <2>1, <2>2, NextStateTimely DEF TelStates, Early
  <2> QED BY <1>4, <2>1, <2>3
<1>9. ASSUME RejectRequest \/ EccDialPolicy PROVE Done
  <2>1. /\ UNCHANGED <<inTable, bound, clock, stack>>
        /\ call' = IF inTable THEN RejectCallBase(call) ELSE call
    BY <1>9 DEF RejectRequest, EccDialPolicy
  <2>2. CASE inTable
    <3>1. Untimed(call, call')
      BY <1>2, <1>3, <2>1, <2>2 DEF RejectCallBase, Untimed, Good, Record
    <3>2. Timely(call') /\ call'.tel = call.tel
      BY <1>2, <1>3, <2>2, <3>1, UntimedTimely DEF Untimed
    <3>3. inTable' => call'.tel # "DISCONNECTED" /\ InStep'
      BY <2>1, <3>2 DEF TimesInv, InStep
    <3> QED BY <1>4, <2>1, <3>2, <3>3
  <2>3. CASE ~inTable
    <3>1. call' # NoCall => Timely(call')
      BY <1>3, <2>1, <2>3
    <3> QED BY <1>4, <2>1, <2>3, <3>1
  <2> QED BY <2>2, <2>3
<1>10. ASSUME RejectCall \/ UNCHANGED recordVars PROVE Done
  <2>1. UNCHANGED <<call, inTable, bound, clock, stack>>
    BY <1>10 DEF RejectCall, recordVars
  <2>2. call' # NoCall => Timely(call')
    BY <1>3, <2>1
  <2>3. inTable' => call'.tel # "DISCONNECTED" /\ InStep'
    BY <2>1 DEF TimesInv, InStep
  <2> QED BY <1>4, <2>1, <2>2, <2>3
<1>11. ASSUME Tick PROVE Done
  <2>1. call' = call /\ clock' = clock + 1 /\ UNCHANGED <<inTable, bound, stack>>
    BY <1>11 DEF Tick
  <2>2. clock \in Nat
    BY <1>1, CallRecordAssumption DEF Now, Times
  <2>3. call # NoCall => call \in Record
    BY <1>3 DEF Good
  <2>4. call' # NoCall => Timely(call)'
    BY <1>3, <2>1, <2>2, <2>3, TimesAreNumbers DEF Timely
  <2>5. inTable' => call'.tel # "DISCONNECTED" /\ InStep'
    BY <2>1 DEF TimesInv, InStep
  <2> QED BY <2>4, <2>5 DEF Done
<1>12. Done
  BY <1>5, <1>6, <1>7, <1>8, <1>9, <1>10, <1>11 DEF RecordNext
<1> QED BY <1>1, <1>12 DEF TimesInv, Done

-----------------------------------------------------------------------------
(***************************************************************************)
(* The theorems.                                                           *)
(***************************************************************************)
\* The invariant of the sections above holds of every reachable record.
THEOREM IsIInv == RecordSpec => []IInv
BY InitIInv, NextIInv, PTL DEF RecordSpec

\* Every variable has its type, and no step leaves an object CREATE or
\* CONNECTING.
THEOREM RecordTypeCorrect == RecordSpec => []RecordTypeOK
<1>1. IInv => RecordTypeOK
  BY DEF IInv
<1> QED BY <1>1, IsIInv, PTL

\* The running state that the policies look at is that of the reported state.
THEOREM StatesAgree == RecordSpec => []RunningMatchesReport
<1>1. IInv => RunningMatchesReport
  BY DEF IInv, Good, RunningMatchesReport
<1> QED BY <1>1, IsIInv, PTL

\* A call is recorded as missed or answered by whether it was talked on.
THEOREM OutcomeIsTalk == RecordSpec => []OutcomeMatchesTalk
<1>1. IInv => OutcomeMatchesTalk
  BY DEF IInv, Good, Outcome, OutcomeMatchesTalk
<1> QED BY <1>1, IsIInv, PTL

\* The times of the making and of the talk are set once.
THEOREM TalkBegins == RecordSpec => TalkBeginsOnce
<1> DEFINE Same == call # NoCall => /\ call'.create = call.create
                                    /\ call.begin # 0 => call'.begin = call.begin
<1>1. IInv /\ [RecordNext]_recordVars => [Same]_recordVars
  BY StepSound DEF Made, Worked, Left, Keeps
<1> QED BY <1>1, IsIInv, PTL DEF RecordSpec, TalkBeginsOnce

\* In the record of a call that is over the ringing ended after it began, and
\* the talk lies between that and the end (CallBase::StateChangesTo...), in every
\* order in which a stack that obeys MayFollow reports.
THEOREM TimesAreOrdered == RecordSpec => []TimesOrdered
<1>1. TimesInv => TimesOrdered
  <2> SUFFICES ASSUME TimesInv, call # NoCall, call.tel = "DISCONNECTED"
               PROVE  /\ call.create <= call.ringEnd
                      /\ call.ringBegin <= call.ringEnd
                      /\ call.ringEnd <= call.end
                      /\ call.begin # 0 => call.begin <= call.end
    BY DEF TimesOrdered
  <2> QED BY DEF TimesInv, Timely
<1> QED BY <1>1, TimesInit, TimesNext, PTL DEF RecordSpec

-----------------------------------------------------------------------------
(***************************************************************************)
(* The conferences.  The kinds of a table are the ids and types of its     *)
(* calls, which is all that a conference knows of them.                    *)
(***************************************************************************)
ConferenceRecord ==
    [main : {Conf!NoId} \cup Conf!Ids, state : Conf!ConferenceState,
     old : Conf!ConferenceState, members : SUBSET Conf!Ids]
Conferences == [Conf!CarrierTypes -> ConferenceRecord]
Commands == [cmd : {"HangUp", "HangUpActive", "HangUpHoldWait", "UnHold"}, id : Conf!Ids]
Managers == [table : Seq(Conf!Call), conf : Conferences, sent : SUBSET Commands]

KindOf(c) == [id |-> c.id, slot |-> c.slot, type |-> c.type]
Kinds(t) == {KindOf(c) : c \in Conf!Range(t)}
Cs(kinds) == {k.id : k \in {j \in kinds : j.type = "CS"}}
IdsDiffer(t) == \A i, j \in DOMAIN t : t[i].id = t[j].id => i = j

\* Nobody ever joins the IMS conference, and the CS conference has those who
\* came from IMS, and those that a stop of the service left there. Of these
\* there is no call any more.
Hosted(conferences, kinds) ==
    LET cs == conferences["CS"]
    IN  /\ conferences["IMS"] = Conf!NewConference
        /\ cs.state \in {"IDLE", "HOLDING"} /\ cs.old \in {"IDLE", "HOLDING"}
        /\ cs.members = {} => cs = Conf!NewConference
        /\ cs.members # {} => cs.main \in cs.members
        /\ \A id \in cs.members : id \in Cs(kinds) \/ id <= stoppedAt
        /\ \A k \in kinds : ~(k.id <= stoppedAt)

InOrder(m) == m \in Managers /\ IdsDiffer(m.table) /\ Hosted(m.conf, Kinds(m.table))

LEMMA LeastExists ==
    ASSUME NEW S, S \subseteq Nat, S # {}
    PROVE  \E x \in S : \A y \in S : x <= y
<1>1. \A x, y \in Nat : y < x => <<y, x>> \in OpToRel(<, Nat)
  BY Zenon DEF OpToRel
<1>2. \E x \in S : \A y \in S : ~(<<y, x>> \in OpToRel(<, Nat))
  BY NatLessThanWellFounded, WFMin
<1>3. \E x \in S : \A y \in S : ~(y < x)
  <2>1. \A x \in S : x \in Nat
    OBVIOUS
  <2> QED BY <1>1, <1>2, <2>1, Zenon
<1> QED BY <1>3

LEMMA LeastIsMember ==
    ASSUME NEW S, S \subseteq Nat, S # {}
    PROVE  Conf!Min(S) \in S
BY LeastExists DEF Conf!Min

LEMMA GreatestIsMember ==
    ASSUME NEW n \in Nat, NEW S, S \subseteq 0..n, S # {}
    PROVE  Conf!Max(S) \in S /\ \A y \in S : y <= Conf!Max(S)
<1> DEFINE above == {k \in Nat : \A y \in S : y <= k}
<1>1. above \subseteq Nat /\ n \in above
  OBVIOUS
<1>2. PICK x \in above : \A y \in above : x <= y
  <2> HIDE DEF above
  <2> QED BY <1>1, LeastExists
<1>3. x \in S
  <2> SUFFICES ASSUME x \notin S PROVE FALSE
    OBVIOUS
  <2>1. PICK y \in S : TRUE
    OBVIOUS
  <2>2. x \in Nat /\ y \in Nat /\ y >= 0 /\ y <= x /\ y # x
    BY <2>1
  <2>3. x - 1 \in above
    BY <2>2
  <2> QED BY <1>2, <2>2, <2>3
<1>4. \A y \in S : x >= y
  OBVIOUS
<1> QED BY <1>3, <1>4 DEF Conf!Max

LEMMA CallsOfTable ==
    ASSUME NEW t \in Seq(Conf!Call)
    PROVE  \A c \in Conf!Range(t) : c \in Conf!Call /\ c.id \in Conf!Ids
                                 /\ c.type \in Conf!CarrierTypes /\ c # Conf!NoCall
<1>1. \A c \in Conf!Call : c.id \in Conf!Ids /\ c.type \in Conf!CarrierTypes
  BY DEF Conf!Call
<1>2. \A c \in Conf!Call : c # Conf!NoCall
  BY <1>1, ObjectsAssumption DEF Conf!NoCall, Conf!NoId, Conf!Ids
<1> QED BY <1>1, <1>2 DEF Conf!Range

LEMMA CallByIdFact ==
    ASSUME NEW t \in Seq(Conf!Call), NEW id
    PROVE  \/ /\ Conf!CallById(t, id) \in Conf!Range(t) /\ Conf!CallById(t, id) \in Conf!Call
              /\ Conf!CallById(t, id).id = id
              /\ Conf!CallById(t, id) # Conf!NoCall
           \/ /\ Conf!CallById(t, id) = Conf!NoCall
              /\ \A c \in Conf!Range(t) : c.id # id
BY CallsOfTable DEF Conf!CallById

LEMMA CallByIdIs ==
    ASSUME NEW t \in Seq(Conf!Call), IdsDiffer(t), NEW c \in Conf!Range(t)
    PROVE  Conf!CallById(t, c.id) = c
BY CallByIdFact DEF IdsDiffer, Conf!Range

LEMMA NewestFact ==
    ASSUME NEW t \in Seq(Conf!Call), NEW tel, Conf!Newest(t, tel) # Conf!NoCall
    PROVE  Conf!Newest(t, tel) \in Conf!Range(t)
<1> DEFINE at == {i \in DOMAIN t : t[i].tel = tel}
<1>1. at # {} /\ Conf!Newest(t, tel) = t[Conf!Max(at)]
  BY DEF Conf!Newest
<1>2. at \subseteq 0..Len(t) /\ Len(t) \in Nat
  OBVIOUS
<1>3. Conf!Max(at) \in at
  <2> HIDE DEF at
  <2> QED BY <1>1, <1>2, GreatestIsMember
<1> QED BY <1>1, <1>3 DEF Conf!Range

LEMMA RemoveAtOf ==
    ASSUME NEW S, NEW t \in Seq(S), NEW k \in 1..Len(t)
    PROVE  /\ Conf!RemoveAt(t, k) \in Seq(S)
           /\ Len(Conf!RemoveAt(t, k)) = Len(t) - 1
           /\ \A i \in 1..Len(t) - 1 :
                 Conf!RemoveAt(t, k)[i] = IF i < k THEN t[i] ELSE t[i + 1]
<1>1. /\ SubSeq(t, 1, k-1) \in Seq(S) /\ Len(SubSeq(t, 1, k-1)) = k - 1
      /\ \A i \in 1..k-1 : SubSeq(t, 1, k-1)[i] = t[i]
  OBVIOUS
<1>2. /\ SubSeq(t, k+1, Len(t)) \in Seq(S) /\ Len(SubSeq(t, k+1, Len(t))) = Len(t) - k
      /\ \A i \in 1..Len(t)-k : SubSeq(t, k+1, Len(t))[i] = t[i + k]
  OBVIOUS
<1> DEFINE a == SubSeq(t, 1, k-1)
           b == SubSeq(t, k+1, Len(t))
<1>3. Conf!RemoveAt(t, k) = a \o b
  BY DEF Conf!RemoveAt
<1> HIDE DEF a, b
<1>4. /\ a \in Seq(S) /\ Len(a) = k - 1 /\ \A i \in 1..k-1 : a[i] = t[i]
      /\ b \in Seq(S) /\ Len(b) = Len(t) - k /\ \A i \in 1..Len(t)-k : b[i] = t[i + k]
  BY <1>1, <1>2 DEF a, b
<1>5. /\ a \o b \in Seq(S) /\ Len(a \o b) = Len(t) - 1
      /\ \A i \in 1..Len(t) - 1 : (a \o b)[i] = IF i <= Len(a) THEN a[i] ELSE b[i - Len(a)]
  <2>1. /\ a \o b \in Seq(S) /\ Len(a \o b) = Len(a) + Len(b)
        /\ \A i \in 1..Len(a) + Len(b) :
              (a \o b)[i] = IF i <= Len(a) THEN a[i] ELSE b[i - Len(a)]
    BY <1>4, ConcatProperties
  <2>3. Len(a) + Len(b) = Len(t) - 1
    BY <1>4
  <2> QED BY <2>1, <2>3
<1>6. \A i \in 1..Len(t) - 1 : (a \o b)[i] = IF i < k THEN t[i] ELSE t[i + 1]
  BY <1>4, <1>5
<1> QED BY <1>3, <1>5, <1>6

LEMMA WithoutFact ==
    ASSUME NEW t \in Seq(Conf!Call), IdsDiffer(t), NEW c \in Conf!Range(t)
    PROVE  /\ Conf!Without(t, c.id) \in Seq(Conf!Call)
           /\ IdsDiffer(Conf!Without(t, c.id))
           /\ Conf!Range(Conf!Without(t, c.id)) = {d \in Conf!Range(t) : d.id # c.id}
<1> DEFINE k == CHOOSE i \in DOMAIN t : t[i].id = c.id
           r == Conf!Without(t, c.id)
<1>1. k \in 1..Len(t) /\ t[k].id = c.id
  BY DEF Conf!Range
<1>2. \A i \in 1..Len(t) : t[i].id = c.id => i = k
  BY <1>1 DEF IdsDiffer
<1>3. r = Conf!RemoveAt(t, k)
  BY DEF Conf!Without
<1> HIDE DEF k, r
<1>4. /\ r \in Seq(Conf!Call) /\ Len(r) = Len(t) - 1
      /\ \A i \in 1..Len(t) - 1 : r[i] = IF i < k THEN t[i] ELSE t[i + 1]
  BY <1>1, <1>3, RemoveAtOf
<1>5. IdsDiffer(r)
  <2> DEFINE at(i) == IF i < k THEN i ELSE i + 1
  <2>1. \A i \in 1..Len(t) - 1 : at(i) \in 1..Len(t) /\ r[i] = t[at(i)]
    BY <1>1, <1>4
  <2>2. \A i, j \in 1..Len(t) - 1 : at(i) = at(j) => i = j
    BY <1>1
  <2>3. DOMAIN r = 1..Len(t) - 1 /\ DOMAIN t = 1..Len(t)
    BY <1>4
  <2> HIDE DEF at
  <2> QED BY <2>1, <2>2, <2>3 DEF IdsDiffer
<1>6. ASSUME NEW d \in Conf!Range(r) PROVE d \in Conf!Range(t) /\ d.id # c.id
  <2>1. PICK i \in 1..Len(t) - 1 : d = r[i]
    BY <1>4 DEF Conf!Range
  <2>2. PICK n \in 1..Len(t) : n # k /\ d = t[n]
    BY <1>1, <1>4, <2>1
  <2> QED BY <1>2, <2>2 DEF Conf!Range
<1>7. ASSUME NEW d \in Conf!Range(t), d.id # c.id PROVE d \in Conf!Range(r)
  <2>1. PICK n \in 1..Len(t) : d = t[n]
    BY DEF Conf!Range
  <2>2. n # k
    BY <1>1, <1>7, <2>1
  <2>3. PICK i \in 1..Len(t) - 1 : r[i] = t[n]
    <3>1. CASE n < k
      BY <1>1, <1>4, <3>1
    <3>2. CASE n > k
      <4>1. n - 1 \in 1..Len(t) - 1 /\ ~(n - 1 < k) /\ (n - 1) + 1 = n
        BY <1>1, <3>2
      <4> QED BY <1>4, <4>1
    <3> QED BY <1>1, <2>2, <3>1, <3>2
  <2> QED BY <1>4, <2>1, <2>3 DEF Conf!Range
<1> QED BY <1>4, <1>5, <1>6, <1>7 DEF r

LEMMA AppendFact ==
    ASSUME NEW t \in Seq(Conf!Call), IdsDiffer(t), NEW c \in Conf!Call,
           \A d \in Conf!Range(t) : d.id # c.id
    PROVE  /\ Append(t, c) \in Seq(Conf!Call) /\ IdsDiffer(Append(t, c))
           /\ Conf!Range(Append(t, c)) = Conf!Range(t) \cup {c}
<1> DEFINE r == Append(t, c)
<1>1. /\ r \in Seq(Conf!Call) /\ Len(r) = Len(t) + 1 /\ r[Len(t) + 1] = c
      /\ \A i \in 1..Len(t) : r[i] = t[i]
  OBVIOUS
<1> HIDE DEF r
<1>2. \A i \in 1..Len(t) : t[i] \in Conf!Range(t)
  BY DEF Conf!Range
<1>3. IdsDiffer(r)
  BY <1>1, <1>2 DEF IdsDiffer
<1>4. Conf!Range(r) = Conf!Range(t) \cup {c}
  BY <1>1 DEF Conf!Range
<1> QED BY <1>1, <1>3, <1>4 DEF r

LEMMA CsCalls ==
    \A t, id : id \in Cs(Kinds(t)) <=> \E c \in Conf!Range(t) : c.id = id /\ c.type = "CS"
<1> TAKE t, id
<1>1. ASSUME id \in Cs(Kinds(t)) PROVE \E c \in Conf!Range(t) : c.id = id /\ c.type = "CS"
  <2>1. PICK k \in Kinds(t) : k.id = id /\ k.type = "CS"
    BY <1>1 DEF Cs
  <2>2. PICK c \in Conf!Range(t) : k = KindOf(c)
    BY DEF Kinds
  <2> QED BY <2>1, <2>2 DEF KindOf
<1>2. ASSUME NEW c \in Conf!Range(t), c.id = id, c.type = "CS" PROVE id \in Cs(Kinds(t))
  <2>1. KindOf(c) \in Kinds(t) /\ KindOf(c).id = id /\ KindOf(c).type = "CS"
    BY <1>2 DEF Kinds, KindOf
  <2> QED BY <2>1 DEF Cs
<1> QED BY <1>1, <1>2

\* Replacing a call by one of its id and type leaves everything in order.
LEMMA TableMapped ==
    ASSUME NEW t \in Seq(Conf!Call), IdsDiffer(t), NEW r, DOMAIN r = DOMAIN t,
           \A i \in DOMAIN t : r[i] \in Conf!Call /\ KindOf(r[i]) = KindOf(t[i]),
           r = [i \in DOMAIN t |-> r[i]]
    PROVE  r \in Seq(Conf!Call) /\ IdsDiffer(r) /\ Kinds(r) = Kinds(t)
<1>1. r \in Seq(Conf!Call)
  OBVIOUS
<1>2. IdsDiffer(r)
  <2>1. \A i \in DOMAIN t : r[i].id = t[i].id
    BY DEF KindOf
  <2> QED BY <2>1 DEF IdsDiffer
<1>3. \A k : k \in Kinds(r) <=> \E i \in DOMAIN t : k = KindOf(r[i])
  BY DEF Kinds, KindOf, Conf!Range
<1>4. \A k : k \in Kinds(t) <=> \E i \in DOMAIN t : k = KindOf(t[i])
  BY DEF Kinds, KindOf, Conf!Range
<1>6. ASSUME NEW k PROVE k \in Kinds(r) <=> k \in Kinds(t)
  <2>1. ASSUME k \in Kinds(r) PROVE k \in Kinds(t)
    <3>1. PICK i \in DOMAIN t : k = KindOf(r[i])
      BY <1>3, <2>1
    <3>2. k = KindOf(t[i])
      BY <3>1
    <3> QED BY <1>4, <3>2
  <2>2. ASSUME k \in Kinds(t) PROVE k \in Kinds(r)
    <3>1. PICK i \in DOMAIN t : k = KindOf(t[i])
      BY <1>4, <2>2
    <3>2. k = KindOf(r[i])
      BY <3>1
    <3> QED BY <1>3, <3>2
  <2> QED BY <2>1, <2>2
<1>7. Kinds(r) = Kinds(t)
  BY <1>6, Zenon
<1> QED BY <1>1, <1>2, <1>7

LEMMA WriteKeeps ==
    ASSUME NEW m, InOrder(m), NEW c \in Conf!Call, KindOf(c) \in Kinds(m.table)
    PROVE  /\ InOrder(Conf!Write(m, c))
           /\ Kinds(Conf!Write(m, c).table) = Kinds(m.table)
           /\ Conf!Write(m, c).conf = m.conf
<1> DEFINE t == m.table
           r == [i \in DOMAIN t |-> IF t[i].id = c.id THEN c ELSE t[i]]
<1>1. m \in Managers /\ t \in Seq(Conf!Call) /\ IdsDiffer(t)
  BY DEF InOrder, Managers
<1>2. Conf!Write(m, c) = [m EXCEPT !.table = r]
  BY DEF Conf!Write
<1>3. \A i \in DOMAIN t : t[i].id = c.id => KindOf(t[i]) = KindOf(c)
  <2>1. PICK k \in DOMAIN t : KindOf(t[k]) = KindOf(c)
    BY DEF Kinds, Conf!Range
  <2>2. t[k].id = c.id
    BY <2>1 DEF KindOf
  <2> QED BY <1>1, <2>1, <2>2 DEF IdsDiffer
<1>4. r \in Seq(Conf!Call) /\ IdsDiffer(r) /\ Kinds(r) = Kinds(t)
  <2>1. DOMAIN r = DOMAIN t /\ r = [i \in DOMAIN t |-> r[i]]
    OBVIOUS
  <2>2. \A i \in DOMAIN t : r[i] \in Conf!Call /\ KindOf(r[i]) = KindOf(t[i])
    BY <1>1, <1>3
  <2> HIDE DEF r, t
  <2> QED BY <1>1, <2>1, <2>2, TableMapped
<1> HIDE DEF r
<1>5. /\ [m EXCEPT !.table = r] \in Managers
      /\ [m EXCEPT !.table = r].table = r /\ [m EXCEPT !.table = r].conf = m.conf
  BY <1>1, <1>4 DEF Managers
<1> QED BY <1>2, <1>4, <1>5 DEF InOrder

\* A conference that is changed and stays in order.
LEMMA WithConfKeeps ==
    ASSUME NEW m, InOrder(m), NEW type \in Conf!CarrierTypes, NEW c \in ConferenceRecord,
           Hosted([m.conf EXCEPT ![type] = c], Kinds(m.table))
    PROVE  /\ InOrder(Conf!WithConf(m, type, c))
           /\ Conf!WithConf(m, type, c).table = m.table
           /\ Conf!WithConf(m, type, c).conf = [m.conf EXCEPT ![type] = c]
<1> DEFINE conferences == [m.conf EXCEPT ![type] = c]
<1>1. m \in Managers /\ conferences \in Conferences
  BY DEF InOrder, Managers, Conferences
<1>2. Conf!WithConf(m, type, c) = [m EXCEPT !.conf = conferences]
  BY <1>1 DEF Conf!WithConf, Managers
<1> HIDE DEF conferences
<1>3. /\ [m EXCEPT !.conf = conferences] \in Managers
      /\ [m EXCEPT !.conf = conferences].conf = conferences
      /\ [m EXCEPT !.conf = conferences].table = m.table
  BY <1>1 DEF Managers
<1> QED BY <1>2, <1>3 DEF InOrder, conferences

LEMMA SendKeeps ==
    ASSUME NEW m, InOrder(m), NEW c \in Conf!Call,
           NEW cmd \in {"HangUp", "HangUpActive", "HangUpHoldWait", "UnHold"}
    PROVE  /\ InOrder(Conf!Send(m, cmd, c))
           /\ Conf!Send(m, cmd, c).table = m.table /\ Conf!Send(m, cmd, c).conf = m.conf
<1>1. [cmd |-> cmd, id |-> c.id] \in Commands /\ m \in Managers
  BY DEF Commands, Conf!Call, InOrder
<1>2. Conf!Send(m, cmd, c) = [m EXCEPT !.sent = m.sent \cup {[cmd |-> cmd, id |-> c.id]}]
  BY <1>1 DEF Conf!Send, Managers
<1> DEFINE x == m.sent \cup {[cmd |-> cmd, id |-> c.id]}
<1>3. x \in SUBSET Commands
  BY <1>1 DEF Managers
<1> HIDE DEF x
<1>4. /\ [m EXCEPT !.sent = x] \in Managers
      /\ [m EXCEPT !.sent = x].conf = m.conf /\ [m EXCEPT !.sent = x].table = m.table
  BY <1>1, <1>3 DEF Managers
<1> QED BY <1>2, <1>4 DEF InOrder, x

LEMMA KindKnown ==
    ASSUME NEW m, InOrder(m), NEW c \in Conf!Range(m.table)
    PROVE  c \in Conf!Call /\ KindOf(c) \in Kinds(m.table)
BY CallsOfTable DEF InOrder, Managers, Kinds, KindOf

LEMMA SetTelFact ==
    ASSUME NEW c \in Conf!Call, NEW tel \in Conf!TelStates
    PROVE  /\ Conf!SetTel(c, tel) \in Conf!Call
           /\ KindOf(Conf!SetTel(c, tel)) = KindOf(c)
BY DEF KindOf, Conf!SetTel, Conf!Call, Conf!TelConferenceState

LEMMA UpdateKeeps ==
    ASSUME NEW m, InOrder(m), NEW c \in Conf!Range(m.table), NEW tel \in Conf!TelStates
    PROVE  /\ InOrder(Conf!UpdateCallState(m, c.id, tel))
           /\ Kinds(Conf!UpdateCallState(m, c.id, tel).table) = Kinds(m.table)
           /\ Conf!UpdateCallState(m, c.id, tel).conf = m.conf
<1>1. Conf!CallById(m.table, c.id) = c
  BY CallByIdIs DEF InOrder, Managers
<1>2. c \in Conf!Call /\ KindOf(c) \in Kinds(m.table)
  BY KindKnown
<1> DEFINE d == Conf!SetTel(c, tel)
<1>3. d \in Conf!Call /\ KindOf(d) \in Kinds(m.table)
  BY <1>2, SetTelFact
<1>4. Conf!UpdateCallState(m, c.id, tel) = Conf!Write(m, d)
  BY <1>1 DEF Conf!UpdateCallState
<1> HIDE DEF d
<1> QED BY <1>3, <1>4, WriteKeeps

\* A call that came from IMS does not go back.
LEMMA RefreshKeeps ==
    ASSUME NEW m, InOrder(m), NEW info \in Conf!Info, NEW c \in Conf!Range(m.table),
           c.id = info.id, c.slot = info.slot, c.type = "CS" => info.type = "CS"
    PROVE  /\ InOrder(Conf!Refresh(m, info))
           /\ Kinds(Conf!Refresh(m, info).table)
                 \subseteq Kinds(m.table) \cup {KindOf(info)}
           /\ \E d \in Conf!Range(Conf!Refresh(m, info).table) :
                 d.id = info.id /\ d.type = info.type
<1> DEFINE t == m.table
           d == [c EXCEPT !.type = info.type]
           rest == Conf!Without(t, info.id)
           n == Append(rest, d)
           moved == [m EXCEPT !.table = n]
<1>1. m \in Managers /\ t \in Seq(Conf!Call) /\ IdsDiffer(t) /\ Hosted(m.conf, Kinds(t))
  BY DEF InOrder, Managers
<1>2. Conf!CallById(t, info.id) = c /\ c \in Conf!Call
  BY <1>1, CallByIdIs, CallsOfTable
<1>3. CASE c.type = info.type
  <2>1. Conf!Refresh(m, info) = m
    BY <1>2, <1>3 DEF Conf!Refresh
  <2> QED BY <1>3, <2>1
<1>4. CASE c.type # info.type
  <2>1. c.type = "IMS" /\ info.type = "CS"
    BY <1>2, <1>4 DEF Conf!Call, Conf!Info, Conf!CarrierTypes
  <2>2. d \in Conf!Call /\ d.id = info.id /\ d.type = "CS" /\ d.slot = info.slot
    BY <1>2, <2>1 DEF Conf!Call, Conf!CarrierTypes
  <2>3. /\ rest \in Seq(Conf!Call) /\ IdsDiffer(rest)
        /\ Conf!Range(rest) = {e \in Conf!Range(t) : e.id # info.id}
    BY <1>1, WithoutFact
  <2>4. n \in Seq(Conf!Call) /\ IdsDiffer(n) /\ Conf!Range(n) = Conf!Range(rest) \cup {d}
    <3> HIDE DEF d, rest
    <3> QED BY <2>2, <2>3, AppendFact
  <2>5. d \in Conf!Range(n)
    BY <2>4
  <2>6. Kinds(n) \subseteq Kinds(t) \cup {KindOf(info)}
    <3> HIDE DEF d, rest, n
    <3> QED BY <2>1, <2>2, <2>3, <2>4 DEF Kinds, KindOf
  <2>7. /\ \A id : id \in Cs(Kinds(t)) => id \in Cs(Kinds(n))
        /\ info.id \notin Cs(Kinds(t))
        /\ info.id \in Cs(Kinds(n))
    <3>1. \A e \in Conf!Range(t) : e.id = info.id => e = c
      BY <1>1, <1>2, CallByIdIs
    <3> HIDE DEF d, rest, n
    <3>2. info.id \notin Cs(Kinds(t))
      BY <2>1, <3>1, CsCalls
    <3>3. info.id \in Cs(Kinds(n))
      BY <2>2, <2>5, CsCalls
    <3>4. ASSUME NEW id, id \in Cs(Kinds(t)) PROVE id \in Cs(Kinds(n))
      <4>1. PICK e \in Conf!Range(t) : e.id = id /\ e.type = "CS"
        BY <3>4, CsCalls
      <4>2. e \in Conf!Range(n)
        BY <2>1, <2>3, <2>4, <3>1, <4>1
      <4> QED BY <4>1, <4>2, CsCalls
    <3> QED BY <3>2, <3>3, <3>4
  <2>8. InOrder(moved) /\ moved.table = n /\ moved.conf = m.conf
    <3>1. moved \in Managers /\ moved.table = n /\ moved.conf = m.conf
      <4> HIDE DEF n
      <4> QED BY <1>1, <2>4 DEF Managers
    <3>2. \A k \in Kinds(n) : ~(k.id <= stoppedAt)
      <4>1. KindOf(c) \in Kinds(t) /\ KindOf(c).id = info.id /\ KindOf(info).id = info.id
        BY DEF Kinds, KindOf
      <4> HIDE DEF n, t
      <4> QED BY <1>1, <2>6, <4>1 DEF Hosted
    <3>3. Hosted(m.conf, Kinds(n))
      <4> HIDE DEF n
      <4> QED BY <1>1, <2>7, <3>2 DEF Hosted
    <3> HIDE DEF n, moved
    <3> QED BY <2>4, <3>1, <3>3 DEF InOrder
  <2>9. Conf!Refresh(m, info) =
           IF Conf!EntersConference(c, info)
           THEN Conf!WithConf(moved, "CS", Conf!UpdateConferenceId(m.conf.CS, info.id))
           ELSE moved
    BY <1>2, <1>4 DEF Conf!Refresh
  <2> DEFINE joined == Conf!UpdateConferenceId(m.conf.CS, info.id)
  <2>10. joined \in ConferenceRecord /\ Hosted([m.conf EXCEPT !["CS"] = joined], Kinds(n))
    <3>1. m.conf \in [Conf!CarrierTypes -> ConferenceRecord] /\ m.conf["CS"] \in ConferenceRecord
      BY <1>1 DEF Managers, Conferences, Conf!CarrierTypes
    <3>2. info.id \in Conf!Ids
      BY DEF Conf!Info
    <3>3. /\ joined.members = m.conf["CS"].members \cup {info.id}
          /\ joined.main = IF m.conf["CS"].main = Conf!NoId THEN info.id ELSE m.conf["CS"].main
          /\ joined.state = m.conf["CS"].state /\ joined.old = m.conf["CS"].old
          /\ joined \in ConferenceRecord
      <4> HIDE DEF n
      <4> QED BY <3>1, <3>2 DEF Conf!UpdateConferenceId, ConferenceRecord
    <3> DEFINE conferences == [m.conf EXCEPT !["CS"] = joined]
    <3>4. conferences["CS"] = joined /\ conferences["IMS"] = m.conf["IMS"]
      <4> HIDE DEF joined
      <4> QED BY <3>1, <3>3 DEF Conf!CarrierTypes
    <3>5. joined.main \in joined.members
      BY <1>1, <3>2, <3>3 DEF Hosted, Conf!NewConference
    <3>6. \A id \in joined.members : id \in Cs(Kinds(n)) \/ id <= stoppedAt
      <4> HIDE DEF joined, n
      <4> QED BY <1>1, <2>7, <3>3 DEF Hosted
    <3> HIDE DEF joined, n, conferences
    <3>7. Hosted(conferences, Kinds(n))
      BY <1>1, <2>8, <3>3, <3>4, <3>5, <3>6 DEF Hosted, InOrder
    <3> QED BY <3>3, <3>7 DEF conferences
  <2> HIDE DEF moved, joined, n
  <2>11. InOrder(Conf!Refresh(m, info)) /\ Conf!Refresh(m, info).table = n
    <3>1. CASE Conf!EntersConference(c, info)
      <4>1. /\ InOrder(Conf!WithConf(moved, "CS", joined))
            /\ Conf!WithConf(moved, "CS", joined).table = moved.table
        BY <2>8, <2>10, WithConfKeeps DEF Conf!CarrierTypes
      <4> QED BY <2>8, <2>9, <3>1, <4>1 DEF joined
    <3>2. CASE ~Conf!EntersConference(c, info)
      BY <2>8, <2>9, <3>2
    <3> QED BY <3>1, <3>2
  <2> QED BY <2>1, <2>2, <2>5, <2>6, <2>11
<1> QED BY <1>3, <1>4

LEMMA CsConference ==
    ASSUME NEW m, InOrder(m)
    PROVE  /\ m.conf \in [Conf!CarrierTypes -> ConferenceRecord]
           /\ m.conf["CS"] \in ConferenceRecord
           /\ m.conf["IMS"] = Conf!NewConference
           /\ Conf!NewConference \in ConferenceRecord
           /\ m.conf.CS = m.conf["CS"] /\ Hosted(m.conf, Kinds(m.table))
<1>1. m.conf \in [Conf!CarrierTypes -> ConferenceRecord] /\ Hosted(m.conf, Kinds(m.table))
  BY DEF InOrder, Managers, Conferences
<1>2. m.conf["IMS"] = Conf!NewConference
  BY <1>1 DEF Hosted
<1> QED BY <1>1, <1>2 DEF Conf!CarrierTypes

\* A conference of CS calls put in the place of the one there is.
LEMMA HostedAgain ==
    ASSUME NEW m, InOrder(m), NEW c \in ConferenceRecord,
           c.state \in {"IDLE", "HOLDING"}, c.old \in {"IDLE", "HOLDING"},
           c.members = {} => c = Conf!NewConference,
           c.members # {} => c.main \in c.members,
           c.members \subseteq m.conf["CS"].members
    PROVE  /\ InOrder(Conf!WithConf(m, "CS", c))
           /\ Conf!WithConf(m, "CS", c).table = m.table
           /\ Conf!WithConf(m, "CS", c).conf = [m.conf EXCEPT !["CS"] = c]
           /\ Conf!WithConf(m, "CS", c).conf["CS"] = c
<1> DEFINE conferences == [m.conf EXCEPT !["CS"] = c]
<1>1. conferences["CS"] = c /\ conferences["IMS"] = m.conf["IMS"]
  BY CsConference DEF Conf!CarrierTypes
<1>2. Hosted(m.conf, Kinds(m.table))
  BY CsConference
<1> HIDE DEF conferences
<1>3. Hosted(conferences, Kinds(m.table))
  BY <1>1, <1>2 DEF Hosted
<1>4. "CS" \in Conf!CarrierTypes
  BY DEF Conf!CarrierTypes
<1>5. /\ InOrder(Conf!WithConf(m, "CS", c))
      /\ Conf!WithConf(m, "CS", c).table = m.table
      /\ Conf!WithConf(m, "CS", c).conf = [m.conf EXCEPT !["CS"] = c]
  BY <1>3, <1>4, WithConfKeeps DEF conferences
<1> QED BY <1>1, <1>5 DEF conferences

LEMMA ConfOfCall ==
    ASSUME NEW c \in Conf!Call, NEW state \in Conf!TelConferenceState
    PROVE  /\ [c EXCEPT !.conf = state] \in Conf!Call
           /\ KindOf([c EXCEPT !.conf = state]) = KindOf(c)
BY DEF KindOf, Conf!Call

LEMMA ExitKeeps ==
    ASSUME NEW m, InOrder(m), NEW c \in Conf!Range(m.table)
    PROVE  /\ InOrder(Conf!ExitConference(m, c))
           /\ Kinds(Conf!ExitConference(m, c).table) = Kinds(m.table)
           /\ c.id \notin Conf!ExitConference(m, c).conf["CS"].members
<1> DEFINE mine == m.conf[c.type]
           cs == m.conf["CS"]
<1>1. c \in Conf!Call /\ KindOf(c) \in Kinds(m.table) /\ c.type \in {"CS", "IMS"}
  BY KindKnown DEF KindOf, Conf!Call, Conf!CarrierTypes
<1>2. cs \in ConferenceRecord /\ Hosted(m.conf, Kinds(m.table))
  BY CsConference
<1>3. CASE c.id \in mine.members
  <2>1. c.type = "CS"
    BY <1>1, <1>3, CsConference DEF Conf!NewConference
  <2> DEFINE left == cs.members \ {c.id}
             next == Conf!LeaveFromConference(cs, c.id)
  <2>2. left # {} => Conf!Min(left) \in left
    <3>1. left \subseteq Nat
      BY <1>2 DEF ConferenceRecord, Conf!Ids
    <3> HIDE DEF left
    <3> QED BY <3>1, LeastIsMember
  <2>3. /\ next \in ConferenceRecord
        /\ next.state \in {"IDLE", "HOLDING"} /\ next.old \in {"IDLE", "HOLDING"}
        /\ next.members = left
        /\ next.members = {} => next = Conf!NewConference
        /\ next.members # {} => next.main \in next.members
    <3>1. CASE left = {}
      BY <3>1, CsConference DEF Conf!LeaveFromConference, Conf!NewConference
    <3>2. CASE left # {}
      <4>1. next = [cs EXCEPT !.members = left,
                              !.main = IF @ = c.id THEN Conf!Min(left) ELSE @]
        BY <3>2 DEF Conf!LeaveFromConference
      <4>2. cs.main \in cs.members /\ cs.state \in {"IDLE", "HOLDING"}
            /\ cs.old \in {"IDLE", "HOLDING"} /\ left \subseteq Conf!Ids
        BY <1>2, <3>2 DEF Hosted, ConferenceRecord
      <4> DEFINE host == IF cs.main = c.id THEN Conf!Min(left) ELSE cs.main
      <4>3. host \in left
        BY <2>2, <3>2, <4>2
      <4>4. next = [cs EXCEPT !.members = left, !.main = host]
        BY <1>2, <4>1 DEF ConferenceRecord
      <4> HIDE DEF next, host, left
      <4>5. /\ next \in ConferenceRecord /\ next.state = cs.state /\ next.old = cs.old
            /\ next.members = left /\ next.main = host
        BY <1>2, <4>2, <4>3, <4>4 DEF ConferenceRecord
      <4> QED BY <3>2, <4>2, <4>3, <4>5
    <3> QED BY <3>1, <3>2
  <2> DEFINE w == Conf!WithConf(m, "CS", next)
             d == [c EXCEPT !.conf = "IDLE"]
  <2>4. InOrder(w) /\ w.table = m.table /\ w.conf["CS"] = next
    <3>1. next.members \subseteq m.conf["CS"].members
      BY <2>3
    <3> HIDE DEF next
    <3> QED BY <2>3, <3>1, HostedAgain
  <2>5. d \in Conf!Call /\ KindOf(d) \in Kinds(m.table)
    <3>1. "IDLE" \in Conf!TelConferenceState
      BY DEF Conf!TelConferenceState
    <3> QED BY <1>1, <3>1, ConfOfCall
  <2>6. Conf!ExitConference(m, c) = Conf!Write(w, d)
    BY <1>3, <2>1 DEF Conf!ExitConference
  <2>7. c.id \notin next.members
    BY <2>3
  <2> HIDE DEF next, w, d
  <2> QED BY <2>4, <2>5, <2>6, <2>7, WriteKeeps
<1>4. CASE c.id \notin mine.members
  <2>1. Conf!ExitConference(m, c) = m
    BY <1>4 DEF Conf!ExitConference
  <2>2. c.id \notin cs.members
    <3> SUFFICES ASSUME c.id \in cs.members PROVE FALSE
      OBVIOUS
    <3>0. ~(c.id <= stoppedAt)
      BY <1>1, <1>2 DEF Hosted, KindOf
    <3>1. PICK e \in Conf!Range(m.table) : e.id = c.id /\ e.type = "CS"
      BY <1>2, <3>0, CsCalls DEF Hosted
    <3>2. e = c
      BY <3>1, CallByIdIs DEF InOrder, Managers
    <3> QED BY <1>4, <3>1, <3>2
  <2> QED BY <2>1, <2>2
<1> QED BY <1>3, <1>4

LEMMA HoldKeeps ==
    ASSUME NEW m, InOrder(m), NEW c \in Conf!Range(m.table)
    PROVE  /\ InOrder(Conf!HoldConference(m, c))
           /\ Kinds(Conf!HoldConference(m, c).table) = Kinds(m.table)
<1> DEFINE mine == m.conf[c.type]
           cs == m.conf["CS"]
           d == [c EXCEPT !.conf = "HOLDING"]
           onHold == Conf!HeldConference(cs)
           w == Conf!WithConf(m, "CS", onHold)
<1>1. c \in Conf!Call /\ KindOf(c) \in Kinds(m.table) /\ c.type \in {"CS", "IMS"}
  BY KindKnown DEF KindOf, Conf!Call, Conf!CarrierTypes
<1>2. cs \in ConferenceRecord /\ Hosted(m.conf, Kinds(m.table))
  BY CsConference
<1>3. d \in Conf!Call /\ KindOf(d) \in Kinds(m.table)
  <2>1. "HOLDING" \in Conf!TelConferenceState
    BY DEF Conf!TelConferenceState
  <2> QED BY <1>1, <2>1, ConfOfCall
<1>4. CASE ~Conf!MayHold(mine, c.id)
  <2>1. Conf!HoldConference(m, c) = m
    BY <1>4 DEF Conf!HoldConference
  <2> QED BY <2>1
<1>5. CASE Conf!MayHold(mine, c.id) /\ mine.state = "HOLDING"
  <2>1. Conf!HoldConference(m, c) = Conf!Write(m, d)
    BY <1>5 DEF Conf!HoldConference
  <2> HIDE DEF d
  <2> QED BY <1>3, <2>1, WriteKeeps
<1>6. CASE Conf!MayHold(mine, c.id) /\ mine.state # "HOLDING"
  <2>1. c.id \in mine.members /\ c.type = "CS"
    BY <1>1, <1>6, CsConference DEF Conf!NewConference, Conf!MayHold
  <2>2. Conf!HoldConference(m, c) = Conf!Write(w, d)
    BY <1>6, <2>1 DEF Conf!HoldConference
  <2>3. /\ onHold \in ConferenceRecord /\ onHold.state = "HOLDING" /\ onHold.old = "HOLDING"
        /\ onHold.members = cs.members /\ onHold.main = cs.main
    BY <1>2 DEF Conf!HeldConference, ConferenceRecord, Conf!ConferenceState
  <2>4. cs.members # {} /\ cs.main \in cs.members
    BY <1>2, <2>1 DEF Hosted
  <2>5. InOrder(w) /\ w.table = m.table
    <3> HIDE DEF onHold
    <3> QED BY <2>3, <2>4, HostedAgain
  <2> HIDE DEF w, d
  <2> QED BY <1>3, <2>2, <2>5, WriteKeeps
<1> QED BY <1>4, <1>5, <1>6

LEMMA LaunchKeeps ==
    ASSUME NEW m, InOrder(m), NEW calls, calls \subseteq Conf!Range(m.table)
    PROVE  /\ InOrder(Conf!Launch(m, calls))
           /\ Kinds(Conf!Launch(m, calls).table) = Kinds(m.table)
<1> DEFINE t == m.table
           cs == m.conf["CS"]
           told(c) == [c EXCEPT !.conf =
                          IF Conf!MayJoin(Conf!Launching(m, c.type)) THEN "ACTIVE" ELSE "IDLE"]
           r == [i \in DOMAIN t |-> IF t[i] \in calls THEN told(t[i]) ELSE t[i]]
           reset == [cs EXCEPT !.state = "IDLE"]
           ids(k) == {c.id : c \in {d \in calls : d.type = k}}
           joined(k) == IF Conf!MayJoin(Conf!Launching(m, k))
                        THEN Conf!JoinToConference(Conf!Launching(m, k), ids(k))
                        ELSE Conf!Launching(m, k)
           next == [k \in Conf!CarrierTypes |-> IF ids(k) = {} THEN m.conf[k] ELSE joined(k)]
<1>1. /\ m \in Managers /\ t \in Seq(Conf!Call) /\ IdsDiffer(t)
      /\ cs \in ConferenceRecord /\ Hosted(m.conf, Kinds(t)) /\ m.conf["IMS"] = Conf!NewConference
  BY CsConference DEF InOrder, Managers
<1>2. /\ Conf!Launching(m, "CS") = reset /\ reset.state = "IDLE"
      /\ reset.old = cs.old /\ reset.members = cs.members /\ reset.main = cs.main
      /\ reset \in ConferenceRecord
  BY <1>1 DEF Conf!Launching, ConferenceRecord, Conf!ConferenceState
<1>3. Conf!Launching(m, "IMS") = m.conf["IMS"] /\ m.conf["IMS"].state = "IDLE"
  BY <1>1 DEF Conf!Launching, Conf!NewConference
<1>4. \A k \in Conf!CarrierTypes : ~Conf!MayJoin(Conf!Launching(m, k))
  BY <1>2, <1>3 DEF Conf!MayJoin, Conf!CarrierTypes
<1>5. Conf!Launch(m, calls) = [m EXCEPT !.conf = next, !.table = r]
  BY <1>1 DEF Conf!Launch, Managers
<1>6. r \in Seq(Conf!Call) /\ IdsDiffer(r) /\ Kinds(r) = Kinds(t)
  <2>1. DOMAIN r = DOMAIN t /\ r = [i \in DOMAIN t |-> r[i]]
    OBVIOUS
  <2>2. \A c \in Conf!Call : told(c) \in Conf!Call /\ KindOf(told(c)) = KindOf(c)
    BY DEF KindOf, Conf!Call, Conf!TelConferenceState
  <2>3. \A i \in DOMAIN t : r[i] \in Conf!Call /\ KindOf(r[i]) = KindOf(t[i])
    <3> HIDE DEF told
    <3> QED BY <1>1, <2>2
  <2> HIDE DEF r, t
  <2> QED BY <1>1, <2>1, <2>3, TableMapped
<1>7. /\ next["IMS"] = m.conf["IMS"]
      /\ next["CS"] = cs \/ next["CS"] = reset
      /\ next \in Conferences
  <2>1. \A k \in Conf!CarrierTypes : joined(k) = Conf!Launching(m, k)
    BY <1>4
  <2> HIDE DEF ids, joined
  <2>2. next["IMS"] = m.conf["IMS"] /\ (next["CS"] = cs \/ next["CS"] = reset)
    BY <1>2, <1>3, <2>1 DEF Conf!CarrierTypes
  <2>3. next = [k \in Conf!CarrierTypes |-> next[k]]
    OBVIOUS
  <2> HIDE DEF next, reset
  <2> QED BY <1>1, <1>2, <2>2, <2>3, CsConference DEF Conferences, Conf!CarrierTypes
<1> HIDE DEF next, r, reset
<1>8. Hosted(next, Kinds(r))
  <2>1. CASE next["CS"] = cs
    BY <1>1, <1>6, <1>7, <2>1 DEF Hosted
  <2>2. CASE next["CS"] = reset
    <3>1. cs.members = {} => reset = cs
      BY <1>1 DEF Hosted, Conf!NewConference, reset
    <3> QED BY <1>1, <1>2, <1>6, <1>7, <2>2, <3>1 DEF Hosted
  <2> QED BY <1>7, <2>1, <2>2
<1>9. /\ [m EXCEPT !.conf = next, !.table = r] \in Managers
      /\ [m EXCEPT !.conf = next, !.table = r].table = r
      /\ [m EXCEPT !.conf = next, !.table = r].conf = next
  BY <1>1, <1>6, <1>7 DEF Managers
<1> QED BY <1>5, <1>6, <1>8, <1>9 DEF InOrder

-----------------------------------------------------------------------------
(***************************************************************************)
(* The reports about a call.                                               *)
(***************************************************************************)
Follows(k, info) ==
    k.id = info.id => k.slot = info.slot /\ (k.type = "CS" => info.type = "CS")
ComesLater(m, info) == \A k \in Kinds(m.table) : Follows(k, info)
Handled(m, n, info) ==
    InOrder(n) /\ Kinds(n.table) \subseteq Kinds(m.table) \cup {KindOf(info)}

\* The call after its refresh.
LEMMA Refreshed ==
    ASSUME NEW m, InOrder(m), NEW info \in Conf!Info, ComesLater(m, info),
           Conf!CallById(m.table, info.id) # Conf!NoCall
    PROVE  /\ Handled(m, Conf!Refresh(m, info), info)
           /\ \E c \in Conf!Range(Conf!Refresh(m, info).table) :
                 /\ c = Conf!CallById(Conf!Refresh(m, info).table, info.id)
                 /\ c.id = info.id /\ c.type = info.type
<1> DEFINE c == Conf!CallById(m.table, info.id)
           r == Conf!Refresh(m, info)
<1>1. m.table \in Seq(Conf!Call)
  BY DEF InOrder, Managers
<1>2. c \in Conf!Range(m.table) /\ c.id = info.id
  BY <1>1, CallByIdFact
<1>3. c.slot = info.slot /\ (c.type = "CS" => info.type = "CS")
  <2>1. KindOf(c) \in Kinds(m.table)
    BY <1>2 DEF Kinds
  <2> QED BY <1>2, <2>1 DEF ComesLater, Follows, KindOf
<1> HIDE DEF c, r
<1>4. /\ InOrder(r) /\ Kinds(r.table) \subseteq Kinds(m.table) \cup {KindOf(info)}
      /\ \E d \in Conf!Range(r.table) : d.id = info.id /\ d.type = info.type
  BY <1>2, <1>3, RefreshKeeps DEF r
<1>5. PICK d \in Conf!Range(r.table) : d.id = info.id /\ d.type = info.type
  BY <1>4
<1>6. Conf!CallById(r.table, info.id) = d
  BY <1>4, <1>5, CallByIdIs DEF InOrder, Managers
<1> QED BY <1>4, <1>5, <1>6 DEF Handled, r

LEMMA SameCall ==
    ASSUME NEW m, InOrder(m), NEW n, InOrder(n), Kinds(n.table) = Kinds(m.table),
           NEW c \in Conf!Range(m.table)
    PROVE  \E d \in Conf!Range(n.table) : d.id = c.id /\ d.type = c.type
<1>1. KindOf(c) \in Kinds(n.table)
  BY KindKnown
<1> QED BY <1>1 DEF Kinds, KindOf

LEMMA ActiveKeeps ==
    ASSUME NEW m, InOrder(m), NEW info \in Conf!Info, ComesLater(m, info),
           Conf!CallById(m.table, info.id) # Conf!NoCall
    PROVE  Handled(m, Conf!ActiveHandle(m, info), info)
<1> DEFINE r == Conf!Refresh(m, info)
           all == Conf!ConferenceCalls(r.table, info.slot)
           launches == info.mpty /\ Conf!Cardinality(all) > 1
           j == IF launches THEN Conf!Launch(r, all)
                ELSE Conf!ExitConference(r, Conf!CallById(r.table, info.id))
<1>1. Handled(m, r, info)
  BY Refreshed
<1>2. PICK c \in Conf!Range(r.table) : c = Conf!CallById(r.table, info.id) /\ c.id = info.id
  BY Refreshed
<1>3. InOrder(j) /\ Kinds(j.table) = Kinds(r.table)
  <2>1. InOrder(r)
    BY <1>1 DEF Handled
  <2>2. all \subseteq Conf!Range(r.table)
    BY DEF Conf!ConferenceCalls
  <2>3. CASE launches
    <3> HIDE DEF r, all
    <3> QED BY <2>1, <2>2, <2>3, LaunchKeeps
  <2>4. CASE ~launches
    <3> HIDE DEF r, launches
    <3> QED BY <1>2, <2>1, <2>4, ExitKeeps
  <2> QED BY <2>3, <2>4
<1>4. Conf!ActiveHandle(m, info) = Conf!UpdateCallState(j, info.id, "ACTIVE")
  BY DEF Conf!ActiveHandle
<1> HIDE DEF r, j
<1>5. PICK d \in Conf!Range(j.table) : d.id = info.id
  BY <1>1, <1>2, <1>3, SameCall DEF Handled
<1>6. "ACTIVE" \in Conf!TelStates
  BY DEF Conf!TelStates, Conf!Reported
<1> QED BY <1>1, <1>3, <1>4, <1>5, <1>6, UpdateKeeps DEF Handled

LEMMA HoldingKeeps ==
    ASSUME NEW m, InOrder(m), NEW info \in Conf!Info, ComesLater(m, info),
           Conf!CallById(m.table, info.id) # Conf!NoCall
    PROVE  Handled(m, Conf!HoldingHandle(m, info), info)
<1> DEFINE r == Conf!Refresh(m, info)
           h == IF info.mpty THEN Conf!HoldConference(r, Conf!CallById(r.table, info.id)) ELSE r
<1>1. Handled(m, r, info) /\ InOrder(r)
  BY Refreshed DEF Handled
<1>2. PICK c \in Conf!Range(r.table) : c = Conf!CallById(r.table, info.id) /\ c.id = info.id
  BY Refreshed
<1>3. InOrder(h) /\ Kinds(h.table) = Kinds(r.table)
  <2> HIDE DEF r
  <2> QED BY <1>1, <1>2, HoldKeeps
<1>4. Conf!HoldingHandle(m, info) = Conf!UpdateCallState(h, info.id, "HOLDING")
  BY DEF Conf!HoldingHandle
<1> HIDE DEF r, h
<1>5. PICK d \in Conf!Range(h.table) : d.id = info.id
  BY <1>1, <1>2, <1>3, SameCall
<1>6. "HOLDING" \in Conf!TelStates
  BY DEF Conf!TelStates, Conf!Reported
<1> QED BY <1>1, <1>3, <1>4, <1>5, <1>6, UpdateKeeps DEF Handled

LEMMA DisconnectingKeeps ==
    ASSUME NEW m, InOrder(m), NEW info \in Conf!Info, ComesLater(m, info),
           Conf!CallById(m.table, info.id) # Conf!NoCall
    PROVE  Handled(m, Conf!DisconnectingHandle(m, info), info)
<1> DEFINE r == Conf!Refresh(m, info)
<1>1. Handled(m, r, info) /\ InOrder(r)
  BY Refreshed DEF Handled
<1>2. PICK c \in Conf!Range(r.table) : c.id = info.id
  BY Refreshed
<1>3. Conf!DisconnectingHandle(m, info) = Conf!UpdateCallState(r, info.id, "DISCONNECTING")
  BY DEF Conf!DisconnectingHandle
<1>4. "DISCONNECTING" \in Conf!TelStates
  BY DEF Conf!TelStates, Conf!Reported
<1> HIDE DEF r
<1> QED BY <1>1, <1>2, <1>3, <1>4, UpdateKeeps DEF Handled

LEMMA UnHoldKeeps ==
    ASSUME NEW m, InOrder(m), NEW prior, NEW c, NEW others
    PROVE  LET u == Conf!AutoUnHold(m, prior, c, others)
           IN  InOrder(u) /\ u.table = m.table /\ u.conf = m.conf
<1> DEFINE onHold == Conf!Newest(m.table, "HOLDING")
           u == Conf!AutoUnHold(m, prior, c, others)
<1>1. u = m \/ (onHold # Conf!NoCall /\ u = Conf!Send(m, "UnHold", onHold))
  BY DEF Conf!AutoUnHold
<1>2. CASE u = m
  BY <1>2
<1>3. CASE onHold # Conf!NoCall /\ u = Conf!Send(m, "UnHold", onHold)
  <2>1. onHold \in Conf!Range(m.table)
    BY <1>3, NewestFact DEF InOrder, Managers
  <2>2. onHold \in Conf!Call
    BY <2>1, KindKnown
  <2> HIDE DEF onHold
  <2> QED BY <1>3, <2>2, SendKeeps
<1> QED BY <1>1, <1>2, <1>3

LEMMA LastKeeps ==
    ASSUME NEW m, InOrder(m), NEW s
    PROVE  InOrder(Conf!LeaveLast(m, s)) /\ Kinds(Conf!LeaveLast(m, s).table) = Kinds(m.table)
<1> DEFINE all == Conf!ConferenceCalls(m.table, s)
           c == CHOOSE d \in all : TRUE
<1>1. Conf!LeaveLast(m, s) = IF Conf!Cardinality(all) # 1 THEN m
                             ELSE Conf!Write(m, [c EXCEPT !.conf = "IDLE"])
  BY DEF Conf!LeaveLast
<1>2. CASE Conf!Cardinality(all) # 1
  BY <1>1, <1>2
<1>3. CASE Conf!Cardinality(all) = 1
  <2>1. all # {}
    <3>1. Conf!Cardinality({}) = 0
      BY FS_EmptySet DEF Conf!Cardinality, Cardinality, Conf!IsFiniteSet, IsFiniteSet
    <3> HIDE DEF all
    <3> QED BY <1>3, <3>1
  <2>2. c \in Conf!Range(m.table)
    BY <2>1 DEF Conf!ConferenceCalls
  <2> DEFINE d == [c EXCEPT !.conf = "IDLE"]
  <2>3. d \in Conf!Call /\ KindOf(d) \in Kinds(m.table)
    <3>1. "IDLE" \in Conf!TelConferenceState
      BY DEF Conf!TelConferenceState
    <3> HIDE DEF c
    <3> QED BY <2>2, <3>1, KindKnown, ConfOfCall
  <2>4. Conf!LeaveLast(m, s) = Conf!Write(m, d)
    BY <1>1, <1>3
  <2> HIDE DEF d
  <2> QED BY <2>3, <2>4, WriteKeeps
<1> QED BY <1>2, <1>3

\* A call that left its conference leaves the table.
LEMMA RemovalKeeps ==
    ASSUME NEW m, InOrder(m), NEW c \in Conf!Range(m.table),
           c.id \notin m.conf["CS"].members
    PROVE  /\ InOrder([m EXCEPT !.table = Conf!Without(@, c.id)])
           /\ Kinds([m EXCEPT !.table = Conf!Without(@, c.id)].table) \subseteq Kinds(m.table)
<1> DEFINE r == Conf!Without(m.table, c.id)
           n == [m EXCEPT !.table = Conf!Without(@, c.id)]
<1>1. m \in Managers /\ m.table \in Seq(Conf!Call) /\ IdsDiffer(m.table)
  BY DEF InOrder, Managers
<1>2. /\ r \in Seq(Conf!Call) /\ IdsDiffer(r)
      /\ Conf!Range(r) = {d \in Conf!Range(m.table) : d.id # c.id}
  BY <1>1, WithoutFact
<1>3. n = [m EXCEPT !.table = r]
  BY <1>1 DEF Managers
<1> HIDE DEF r, n
<1>4. n \in Managers /\ n.table = r /\ n.conf = m.conf
  BY <1>1, <1>2, <1>3 DEF Managers
<1>5. Kinds(r) \subseteq Kinds(m.table)
  BY <1>2 DEF Kinds, KindOf
<1>6. Hosted(m.conf, Kinds(r))
  <2>1. ASSUME NEW id \in m.conf["CS"].members, ~(id <= stoppedAt)
        PROVE  id \in Cs(Kinds(r))
    <3>1. PICK e \in Conf!Range(m.table) : e.id = id /\ e.type = "CS"
      BY <2>1, CsConference, CsCalls DEF Hosted
    <3> QED BY <1>2, <2>1, <3>1, CsCalls
  <2> QED BY <1>5, <2>1, CsConference DEF Hosted
<1> QED BY <1>2, <1>4, <1>5, <1>6 DEF InOrder, n

LEMMA DisconnectedKeeps ==
    ASSUME NEW m, InOrder(m), NEW info \in Conf!Info, ComesLater(m, info),
           Conf!CallById(m.table, info.id) # Conf!NoCall
    PROVE  Handled(m, Conf!DisconnectedHandle(m, info), info)
<1> DEFINE r == Conf!Refresh(m, info)
           c == Conf!CallById(r.table, info.id)
           members == r.conf[c.type].members
           others == IF c.id \in members THEN members ELSE {}
           x == Conf!ExitConference(r, c)
           ended == Conf!UpdateCallState(x, c.id, "DISCONNECTED")
           u == Conf!AutoUnHold(ended, c.tel, c, others)
           w == [u EXCEPT !.table = Conf!Without(@, c.id)]
<1>1. Handled(m, r, info) /\ InOrder(r)
  BY Refreshed DEF Handled
<1>2. c \in Conf!Range(r.table) /\ c.id = info.id
  BY Refreshed
<1>3. Conf!DisconnectedHandle(m, info) = Conf!LeaveLast(w, info.slot)
  BY DEF Conf!DisconnectedHandle
<1> HIDE DEF r, c
<1>4. /\ InOrder(x) /\ Kinds(x.table) = Kinds(r.table)
      /\ c.id \notin x.conf["CS"].members
  BY <1>1, <1>2, ExitKeeps
<1>5. PICK d \in Conf!Range(x.table) : d.id = c.id
  <2> HIDE DEF x
  <2> QED BY <1>1, <1>2, <1>4, SameCall
<1>6. InOrder(ended) /\ Kinds(ended.table) = Kinds(x.table) /\ ended.conf = x.conf
  <2>1. "DISCONNECTED" \in Conf!TelStates
    BY DEF Conf!TelStates, Conf!Reported
  <2> HIDE DEF x
  <2> QED BY <1>4, <1>5, <2>1, UpdateKeeps
<1>7. PICK e \in Conf!Range(ended.table) : e.id = c.id
  <2> HIDE DEF x, ended
  <2> QED BY <1>4, <1>5, <1>6, SameCall
<1>8. InOrder(u) /\ u.table = ended.table /\ u.conf = ended.conf
  <2> HIDE DEF ended, others
  <2> QED BY <1>6, UnHoldKeeps
<1>9. InOrder(w) /\ Kinds(w.table) \subseteq Kinds(u.table)
  <2> HIDE DEF u, ended, x
  <2> QED BY <1>4, <1>6, <1>7, <1>8, RemovalKeeps
<1>10. InOrder(Conf!LeaveLast(w, info.slot))
       /\ Kinds(Conf!LeaveLast(w, info.slot).table) = Kinds(w.table)
  <2> HIDE DEF w
  <2> QED BY <1>9, LastKeeps
<1> HIDE DEF w, u, ended, x
<1> QED BY <1>1, <1>3, <1>4, <1>6, <1>8, <1>9, <1>10 DEF Handled

LEMMA AppendKeeps ==
    ASSUME NEW m, InOrder(m), NEW c \in Conf!Call, ~(c.id <= stoppedAt),
           \A d \in Conf!Range(m.table) : d.id # c.id
    PROVE  /\ InOrder([m EXCEPT !.table = Append(m.table, c)])
           /\ Kinds([m EXCEPT !.table = Append(m.table, c)].table)
                 = Kinds(m.table) \cup {KindOf(c)}
<1> DEFINE r == Append(m.table, c)
           n == [m EXCEPT !.table = r]
<1>1. m \in Managers /\ m.table \in Seq(Conf!Call) /\ IdsDiffer(m.table)
  BY DEF InOrder, Managers
<1>2. /\ r \in Seq(Conf!Call) /\ IdsDiffer(r)
      /\ Conf!Range(r) = Conf!Range(m.table) \cup {c}
  BY <1>1, AppendFact
<1> HIDE DEF r
<1>3. n \in Managers /\ n.table = r /\ n.conf = m.conf
  BY <1>1, <1>2 DEF Managers
<1>4. Kinds(r) = Kinds(m.table) \cup {KindOf(c)}
  BY <1>2 DEF Kinds
<1>5. Hosted(m.conf, Kinds(r))
  BY <1>4, CsConference DEF Hosted, Cs, KindOf
<1> QED BY <1>2, <1>3, <1>4, <1>5 DEF InOrder, r

LEMMA NewCallFact ==
    ASSUME NEW id \in Conf!Ids, NEW s \in Slots, NEW type \in Conf!CarrierTypes,
           NEW tel \in Conf!TelStates
    PROVE  /\ Conf!NewCall(id, s, type, tel) \in Conf!Call
           /\ Conf!NewCall(id, s, type, tel).id = id
           /\ KindOf(Conf!NewCall(id, s, type, tel)) = [id |-> id, slot |-> s, type |-> type]
BY DEF KindOf, Conf!NewCall, Conf!Call, Conf!TelConferenceState

LEMMA ReportKeeps ==
    ASSUME NEW m, InOrder(m), NEW info \in Conf!Info, ComesLater(m, info),
           ~(info.id <= stoppedAt)
    PROVE  Handled(m, Conf!HandleCallReportInfo(m, info), info)
<1> DEFINE n == Conf!HandleCallReportInfo(m, info)
<1>0. Handled(m, m, info)
  BY DEF Handled
<1>1. CASE Conf!CallById(m.table, info.id) = Conf!NoCall
  <2>1. CASE info.state = "INCOMING"
    <3> DEFINE c == Conf!NewCall(info.id, info.slot, info.type, "INCOMING")
    <3>1. n = [m EXCEPT !.table = Append(m.table, c)]
      BY <1>1, <2>1 DEF Conf!HandleCallReportInfo
    <3>2. \A d \in Conf!Range(m.table) : d.id # info.id
      BY <1>1, CallByIdFact DEF InOrder, Managers
    <3>3. /\ info.id \in Conf!Ids /\ info.slot \in Slots /\ info.type \in Conf!CarrierTypes
          /\ "INCOMING" \in Conf!TelStates
      BY DEF Conf!Info, Conf!TelStates, Conf!Reported
    <3>4. /\ c \in Conf!Call /\ c.id = info.id
          /\ KindOf(c) = [id |-> info.id, slot |-> info.slot, type |-> info.type]
      BY <3>3, NewCallFact
    <3> HIDE DEF n, c
    <3>5. InOrder(n) /\ Kinds(n.table) = Kinds(m.table) \cup {KindOf(c)}
      BY <3>1, <3>2, <3>4, AppendKeeps
    <3> QED BY <3>4, <3>5 DEF Handled, KindOf, n
  <2>2. CASE info.state # "INCOMING"
    BY <1>0, <1>1, <2>2 DEF Conf!HandleCallReportInfo
  <2> QED BY <2>1, <2>2
<1>2. CASE Conf!CallById(m.table, info.id) # Conf!NoCall
  <2>1. \/ n = Conf!ActiveHandle(m, info) \/ n = Conf!HoldingHandle(m, info)
        \/ n = Conf!DisconnectingHandle(m, info) \/ n = Conf!DisconnectedHandle(m, info)
        \/ n = m
    BY <1>2 DEF Conf!HandleCallReportInfo
  <2> HIDE DEF n
  <2>2. Handled(m, n, info)
    BY <1>0, <1>2, <2>1, ActiveKeeps, HoldingKeeps, DisconnectingKeeps, DisconnectedKeeps
  <2> QED BY <2>2 DEF n
<1> QED BY <1>1, <1>2

-----------------------------------------------------------------------------
(***************************************************************************)
(* The lists.  What is known of a call agrees wherever it is kept: in the  *)
(* table (kinds), in the entries to handle (q) and in the last lists, and  *)
(* it is of calls made since the service started.                          *)
(***************************************************************************)
Listed(lists, s, id) == lists[s][id] # Conf!Absent
Says(lists, s, id) == Conf!AsInfo(s, id, lists[s][id])

Since(first, id, last) == ~(id <= first) /\ id <= last

Agree(kinds, q, lists, first, last) ==
    /\ first <= last
    /\ \A k \in kinds : k.id <= last
    /\ \A i \in DOMAIN q : Since(first, q[i].id, last)
    /\ \A s \in Slots, id \in Conf!Ids :
          Listed(lists, s, id) => Since(first, id, last)
    /\ IdsDiffer(q)
    /\ \A k \in kinds : \A i \in DOMAIN q : Follows(k, q[i])
    /\ \A k \in kinds : \A s \in Slots, id \in Conf!Ids :
          Listed(lists, s, id) => Follows(k, Says(lists, s, id))
    /\ \A i \in DOMAIN q : \A s \in Slots, id \in Conf!Ids :
          Listed(lists, s, id) => Follows(q[i], Says(lists, s, id))
    /\ \A r, s \in Slots, id \in Conf!Ids :
          Listed(lists, r, id) /\ Listed(lists, s, id) => r = s

ListsTyped ==
    /\ details \in [Slots -> [Conf!Ids -> Conf!Entry \cup {Conf!Absent}]]
    /\ mpty \in [Slots -> SUBSET Conf!Ids]
    /\ todo \in Seq(Conf!Info)
    /\ lastCallId \in {Conf!NoId} \cup Conf!Ids
    /\ dialled \in {Conf!NoId} \cup Conf!Ids
    /\ stoppedAt \in {Conf!NoId} \cup Conf!Ids
    /\ sent \in SUBSET Commands

ConfInv ==
    /\ InOrder(Conf!Now)
    /\ ListsTyped
    /\ Agree(Kinds(table), todo, details, stoppedAt, lastCallId)

-----------------------------------------------------------------------------
(***************************************************************************)
(* The steps.                                                              *)
(***************************************************************************)
LEMMA NowInOrder ==
    ASSUME NEW m, InOrder(m), NEW t, NEW c, t = m.table, c = m.conf
    PROVE  InOrder([table |-> t, conf |-> c, sent |-> {}])
BY DEF InOrder, Managers

LEMMA NowKeeps ==
    ASSUME NEW m, InOrder(m), Conf!Apply(m), UNCHANGED stoppedAt
    PROVE  /\ InOrder(Conf!Now)' /\ Kinds(table)' = Kinds(m.table)
           /\ sent' \in SUBSET Commands
<1>1. table' = m.table /\ conf' = m.conf /\ sent' = m.sent
  BY DEF Conf!Apply
<1>2. InOrder([table |-> table', conf |-> conf', sent |-> {}])
  BY <1>1, NowInOrder
<1>3. sent' \in SUBSET Commands
  BY <1>1 DEF InOrder, Managers
<1>4. InOrder(Conf!Now)'
  BY <1>2 DEF InOrder, Hosted, Conf!Now
<1> QED BY <1>1, <1>3, <1>4

\* Less is known: an entry is handled, a call is gone.
LEMMA AgreeLess ==
    ASSUME NEW kinds, NEW q \in Seq(Conf!Info), NEW lists, NEW first, NEW last,
           Agree(kinds, q, lists, first, last), q # <<>>,
           NEW less, less \subseteq kinds \cup {KindOf(Head(q))}
    PROVE  Agree(less, Tail(q), lists, first, last)
<1> DEFINE h == Head(q)
           r == Tail(q)
<1>1. /\ Len(q) \in Nat \ {0} /\ DOMAIN q = 1..Len(q) /\ h = q[1]
      /\ DOMAIN r = 1..Len(q) - 1 /\ \A i \in DOMAIN r : r[i] = q[i + 1]
  OBVIOUS
<1>2. 1 \in DOMAIN q /\ \A i \in DOMAIN r : i + 1 \in DOMAIN q /\ i + 1 # 1
  BY <1>1
<1> HIDE DEF h, r
<1>3. \A i \in DOMAIN r : r[i].id # h.id
  BY <1>1, <1>2 DEF Agree, IdsDiffer
<1>4. \A k \in less : k \in kinds \/ k = KindOf(h)
  BY DEF h
<1>5. KindOf(h).id = h.id /\ \A x : Follows(KindOf(h), x) <=> Follows(h, x)
  BY DEF KindOf, Follows
<1>6. \A k \in less : k.id <= last
  BY <1>1, <1>2, <1>4, <1>5 DEF Agree, Since
<1>7. \A k \in less : \A i \in DOMAIN r : Follows(k, r[i])
  <2>1. ASSUME NEW k \in kinds, NEW i \in DOMAIN r PROVE Follows(k, r[i])
    BY <1>1, <1>2 DEF Agree
  <2>2. ASSUME NEW i \in DOMAIN r PROVE Follows(h, r[i])
    BY <1>3 DEF Follows
  <2> QED BY <1>4, <1>5, <2>1, <2>2
<1>8. \A k \in less : \A s \in Slots, id \in Conf!Ids :
         Listed(lists, s, id) => Follows(k, Says(lists, s, id))
  <2>1. \A s \in Slots, id \in Conf!Ids :
           Listed(lists, s, id) => Follows(h, Says(lists, s, id))
    BY <1>1, <1>2 DEF Agree
  <2> QED BY <1>4, <1>5, <2>1 DEF Agree
<1>9. first <= last /\ \A i \in DOMAIN r : Since(first, r[i].id, last)
  BY <1>1, <1>2 DEF Agree
<1>10. \A i \in DOMAIN r : \A s \in Slots, id \in Conf!Ids :
          Listed(lists, s, id) => Follows(r[i], Says(lists, s, id))
  BY <1>1, <1>2 DEF Agree
<1>11. IdsDiffer(r)
  BY <1>1, <1>2 DEF Agree, IdsDiffer
<1> QED BY <1>6, <1>7, <1>8, <1>9, <1>10, <1>11 DEF Agree, r

LEMMA HandleKeeps == ConfInv /\ Conf!HandleEntry => ConfInv'
<1> SUFFICES ASSUME ConfInv, Conf!HandleEntry PROVE ConfInv'
  OBVIOUS
<1> DEFINE m == Conf!Now
           info == Head(todo)
           n == Conf!HandleCallReportInfo(m, info)
<1>1. /\ InOrder(m) /\ ListsTyped /\ m.table = table
      /\ Agree(Kinds(table), todo, details, stoppedAt, lastCallId)
  BY DEF ConfInv, Conf!Now
<1>2. /\ todo # <<>> /\ Conf!Apply(n) /\ todo' = Tail(todo) /\ dialled' = Conf!NoId
      /\ UNCHANGED <<details, mpty, lastCallId, stoppedAt>>
  BY DEF Conf!HandleEntry
<1>3. todo \in Seq(Conf!Info) /\ info \in Conf!Info /\ info = todo[1] /\ 1 \in DOMAIN todo
  BY <1>1, <1>2 DEF ListsTyped
<1>4. ComesLater(m, info) /\ ~(info.id <= stoppedAt)
  BY <1>1, <1>3 DEF ComesLater, Agree, Since
<1> HIDE DEF m
<1>5. InOrder(n) /\ Kinds(n.table) \subseteq Kinds(table) \cup {KindOf(info)}
  BY <1>1, <1>3, <1>4, ReportKeeps DEF Handled
<1> HIDE DEF n
<1>6. InOrder(Conf!Now)' /\ Kinds(table)' = Kinds(n.table) /\ sent' \in SUBSET Commands
  BY <1>2, <1>5, NowKeeps
<1>7. Agree(Kinds(table)', todo', details', stoppedAt', lastCallId')
  BY <1>1, <1>2, <1>3, <1>5, <1>6, AgreeLess
<1>8. ListsTyped'
  BY <1>1, <1>2, <1>6 DEF ListsTyped
<1> QED BY <1>6, <1>7, <1>8 DEF ConfInv

LEMMA CombineKeeps ==
    ASSUME NEW m, InOrder(m), NEW type \in Conf!CarrierTypes
    PROVE  LET x == Conf!WithConf(m, type, Conf!CombineFailed(m.conf[type]))
           IN  InOrder(x) /\ x.table = m.table
<1> DEFINE cs == m.conf["CS"]
           x(c) == Conf!CombineFailed(c)
<1>1. /\ cs \in ConferenceRecord /\ Hosted(m.conf, Kinds(m.table))
      /\ m.conf \in [Conf!CarrierTypes -> ConferenceRecord]
      /\ m.conf["IMS"] = Conf!NewConference /\ Conf!NewConference \in ConferenceRecord
  BY CsConference
<1>2. x(Conf!NewConference) = Conf!NewConference
  <2> DEFINE n == Conf!NewConference
  <2>1. n.members = {} /\ n.old = "IDLE"
    BY DEF Conf!NewConference
  <2>2. x(n) = [n EXCEPT !.main = Conf!NoId, !.state = "IDLE"]
    <3> HIDE DEF n
    <3> QED BY <2>1 DEF Conf!CombineFailed
  <2> HIDE DEF x
  <2> QED BY <2>2 DEF Conf!NewConference
<1>3. CASE type = "IMS"
  <2>1. x(m.conf[type]) = Conf!NewConference
    BY <1>1, <1>2, <1>3
  <2>2. [m.conf EXCEPT !["IMS"] = Conf!NewConference] = m.conf
    BY <1>1 DEF Conf!CarrierTypes
  <2>3. Hosted([m.conf EXCEPT !["IMS"] = Conf!NewConference], Kinds(m.table))
    BY <1>1, <2>2
  <2>4. /\ InOrder(Conf!WithConf(m, "IMS", Conf!NewConference))
        /\ Conf!WithConf(m, "IMS", Conf!NewConference).table = m.table
    BY <1>1, <2>3, WithConfKeeps DEF Conf!CarrierTypes
  <2> HIDE DEF x
  <2> QED BY <1>3, <2>1, <2>4 DEF x
<1>4. CASE type = "CS"
  <2> DEFINE c == x(cs)
  <2>1. cs.members # {} => Conf!Min(cs.members) \in cs.members
    <3>1. cs.members \subseteq Nat
      BY <1>1 DEF ConferenceRecord, Conf!Ids
    <3> QED BY <3>1, LeastIsMember
  <2>2. /\ c.members = cs.members /\ c.state = cs.old /\ c.old = cs.old
        /\ c.main = IF cs.members = {} THEN Conf!NoId ELSE Conf!Min(cs.members)
        /\ c \in ConferenceRecord
    BY <1>1, <2>1 DEF Conf!CombineFailed, ConferenceRecord
  <2>3. c.members = {} => c = Conf!NewConference
    <3>1. cs.members = {} => cs = Conf!NewConference
      BY <1>1 DEF Hosted
    <3> QED BY <1>2, <2>2, <3>1
  <2>4. /\ c.state \in {"IDLE", "HOLDING"} /\ c.old \in {"IDLE", "HOLDING"}
        /\ c.members # {} => c.main \in c.members
    BY <1>1, <2>1, <2>2 DEF Hosted
  <2> HIDE DEF c
  <2>5. InOrder(Conf!WithConf(m, "CS", c)) /\ Conf!WithConf(m, "CS", c).table = m.table
    BY <2>2, <2>3, <2>4, HostedAgain
  <2> QED BY <1>4, <2>5 DEF c
<1> QED BY <1>3, <1>4 DEF Conf!CarrierTypes

\* A step that leaves the lists alone.
LEMMA OrderKeeps ==
    ASSUME ConfInv, NEW m, InOrder(m), Conf!Apply(m), Kinds(m.table) \subseteq Kinds(table),
           dialled' = Conf!NoId, UNCHANGED <<details, mpty, todo, lastCallId, stoppedAt>>
    PROVE  ConfInv'
<1>1. InOrder(Conf!Now)' /\ Kinds(table)' = Kinds(m.table) /\ sent' \in SUBSET Commands
  BY NowKeeps
<1>2. ListsTyped'
  BY <1>1 DEF ConfInv, ListsTyped
<1>3. Agree(Kinds(m.table), todo, details, stoppedAt, lastCallId)
  BY DEF ConfInv, Agree
<1> QED BY <1>1, <1>2, <1>3 DEF ConfInv

\* The dialled call fails.
LEMMA DealFailKeeps ==
    ASSUME ConfInv
    PROVE  LET m == Conf!DealFailDial(Conf!Now)
           IN  InOrder(m) /\ Kinds(m.table) \subseteq Kinds(table)
<1> DEFINE m == Conf!Now
           c == Conf!Newest(table, "DIALING")
           info == [id |-> c.id, slot |-> c.slot, type |-> c.type,
                    state |-> "DISCONNECTED", mpty |-> FALSE]
           n == Conf!HandleCallReportInfo(m, info)
<1>1. InOrder(m) /\ m.table = table /\ table \in Seq(Conf!Call) /\ IdsDiffer(table)
      /\ Hosted(m.conf, Kinds(table))
  BY DEF ConfInv, Conf!Now, InOrder, Managers
<1>2. Conf!DealFailDial(m) = IF c = Conf!NoCall THEN m ELSE n
  BY <1>1 DEF Conf!DealFailDial
<1> HIDE DEF m
<1>3. CASE c = Conf!NoCall
  BY <1>1, <1>2, <1>3 DEF m
<1>4. CASE c # Conf!NoCall
  <2>1. c \in Conf!Range(table) /\ c \in Conf!Call
    BY <1>1, <1>4, NewestFact, CallsOfTable
  <2>2. KindOf(c) \in Kinds(table) /\ KindOf(info) = KindOf(c)
    BY <2>1 DEF Kinds, KindOf
  <2>3. info \in Conf!Info /\ info.id = c.id /\ info.slot = c.slot /\ info.type = c.type
    <3>1. "DISCONNECTED" \in Conf!Reported
      BY DEF Conf!Reported
    <3> HIDE DEF c
    <3> QED BY <2>1, <3>1 DEF Conf!Call, Conf!Info
  <2>4. ~(info.id <= stoppedAt)
    BY <1>1, <2>2 DEF Hosted, KindOf
  <2>5. ComesLater(m, info)
    <3>1. ASSUME NEW k \in Kinds(table), k.id = c.id PROVE k = KindOf(c)
      <4>1. PICK d \in Conf!Range(table) : k = KindOf(d)
        BY DEF Kinds
      <4>2. d.id = c.id
        BY <3>1, <4>1 DEF KindOf
      <4>3. d = c
        BY <1>1, <2>1, <4>2 DEF IdsDiffer, Conf!Range
      <4> QED BY <4>1, <4>3
    <3>2. KindOf(c).slot = c.slot /\ KindOf(c).type = c.type
      BY DEF KindOf
    <3> HIDE DEF c, info
    <3> QED BY <1>1, <2>3, <3>1, <3>2 DEF ComesLater, Follows
  <2> HIDE DEF info, c
  <2>6. InOrder(n) /\ Kinds(n.table) \subseteq Kinds(table) \cup {KindOf(info)}
    BY <1>1, <2>3, <2>4, <2>5, ReportKeeps DEF Handled
  <2> HIDE DEF n
  <2> QED BY <1>2, <1>4, <2>2, <2>6 DEF m
<1> QED BY <1>3, <1>4

LEMMA EventKeeps ==
    ASSUME ConfInv, NEW combine \in BOOLEAN, Conf!HandleEventResultReportInfo(combine)
    PROVE  ConfInv'
<1> DEFINE m == Conf!DealFailDial(Conf!Now)
           c == Conf!Newest(m.table, "ACTIVE")
           failed == Conf!WithConf(m, c.type, Conf!CombineFailed(m.conf[c.type]))
           n == IF combine /\ c # Conf!NoCall THEN failed ELSE m
<1>1. InOrder(m) /\ Kinds(m.table) \subseteq Kinds(table)
  BY DealFailKeeps
<1>2. /\ Conf!Apply(n) /\ dialled' = Conf!NoId
      /\ UNCHANGED <<details, mpty, todo, lastCallId, stoppedAt>>
  BY DEF Conf!HandleEventResultReportInfo
<1> HIDE DEF m
<1>3. ASSUME c # Conf!NoCall PROVE InOrder(failed) /\ failed.table = m.table
  <2>1. m.table \in Seq(Conf!Call)
    BY <1>1 DEF InOrder, Managers
  <2>2. c.type \in Conf!CarrierTypes
    BY <1>3, <2>1, NewestFact, CallsOfTable
  <2> HIDE DEF c
  <2> QED BY <1>1, <2>2, CombineKeeps
<1> HIDE DEF c, failed
<1>4. InOrder(n) /\ Kinds(n.table) \subseteq Kinds(table)
  BY <1>1, <1>3
<1> HIDE DEF n
<1> QED BY <1>2, <1>4, OrderKeeps

LEMMA HangUpKeeps ==
    ASSUME ConfInv, NEW c \in Conf!Range(table), Conf!HangUpRequest(c)
    PROVE  ConfInv'
<1> DEFINE m == Conf!Now
           d == [c EXCEPT !.flags = @ \cup Conf!HangUpFlags(c)]
           cmd == IF "ACTIVE" \in d.flags THEN "HangUpActive"
                  ELSE IF "HOLD_WAIT" \in d.flags THEN "HangUpHoldWait" ELSE "HangUp"
           w == Conf!Write(m, d)
           n == Conf!Send(w, cmd, d)
<1>1. InOrder(m) /\ m.table = table
  BY DEF ConfInv, Conf!Now
<1>2. /\ Conf!Apply(n) /\ dialled' = Conf!NoId
      /\ UNCHANGED <<details, mpty, todo, lastCallId, stoppedAt>>
  BY DEF Conf!HangUpRequest
<1>3. c \in Conf!Call /\ KindOf(c) \in Kinds(table)
  BY <1>1, KindKnown
<1>4. Conf!HangUpFlags(c) \subseteq {"ACTIVE", "HOLD_WAIT"}
  BY DEF Conf!HangUpFlags
<1>5. d \in Conf!Call /\ KindOf(d) = KindOf(c)
  BY <1>3, <1>4 DEF Conf!Call, KindOf
<1>6. cmd \in {"HangUp", "HangUpActive", "HangUpHoldWait", "UnHold"}
  OBVIOUS
<1> HIDE DEF m, d, cmd
<1>7. InOrder(w) /\ Kinds(w.table) = Kinds(table)
  BY <1>1, <1>3, <1>5, WriteKeeps
<1> HIDE DEF w
<1>8. InOrder(n) /\ n.table = w.table
  BY <1>5, <1>6, <1>7, SendKeeps
<1> HIDE DEF n
<1> QED BY <1>2, <1>7, <1>8, OrderKeeps

\* A call that nothing is known of.
LEMMA AgreeMore ==
    ASSUME NEW kinds, NEW q \in Seq(Conf!Info), NEW lists, NEW first \in Nat,
           NEW last \in Nat, Agree(kinds, q, lists, first, last), NEW k,
           k.id = last + 1, \A j \in kinds : j.id \in Nat
    PROVE  Agree(kinds \cup {k}, q, lists, first, last + 1)
<1>1. \A i \in DOMAIN q : q[i].id \in Nat
  <2>1. \A i \in DOMAIN q : q[i] \in Conf!Info
    OBVIOUS
  <2> QED BY <2>1 DEF Conf!Info, Conf!Ids
<1>2. Conf!Ids \subseteq Nat
  BY DEF Conf!Ids
<1>3. /\ \A j \in kinds \cup {k} : j.id <= last + 1
      /\ \A i \in DOMAIN q : Since(first, q[i].id, last + 1) /\ q[i].id # k.id
      /\ first <= last + 1
  BY <1>1 DEF Agree, Since
<1>4. \A s \in Slots, id \in Conf!Ids :
         Listed(lists, s, id) => Since(first, id, last + 1) /\ id # k.id
  BY <1>2 DEF Agree, Since
<1>5. \A i \in DOMAIN q : Follows(k, q[i])
  BY <1>3 DEF Follows
<1>6. \A s \in Slots, id \in Conf!Ids : Listed(lists, s, id) => Follows(k, Says(lists, s, id))
  BY <1>4 DEF Follows, Says, Conf!AsInfo
<1> QED BY <1>3, <1>4, <1>5, <1>6 DEF Agree

LEMMA DialKeeps ==
    ASSUME ConfInv, NEW s \in Slots, NEW type \in Conf!CarrierTypes, Conf!DialCall(s, type)
    PROVE  ConfInv'
<1> DEFINE m == Conf!Now
           id == lastCallId + 1
           c == Conf!NewCall(id, s, type, "DIALING")
           n == [m EXCEPT !.table = Append(m.table, c)]
<1>1. /\ InOrder(m) /\ m.table = table /\ m.conf = conf /\ ListsTyped
      /\ Agree(Kinds(table), todo, details, stoppedAt, lastCallId)
  BY DEF ConfInv, Conf!Now
<1>2. /\ lastCallId < MaxCallId /\ table' = Append(table, c) /\ conf' = conf /\ sent' = {}
      /\ lastCallId' = id /\ dialled' = id
      /\ UNCHANGED <<details, mpty, todo, stoppedAt>>
  BY DEF Conf!DialCall
<1>3. /\ lastCallId \in Nat /\ id \in Conf!Ids /\ stoppedAt \in Nat
      /\ ~(id <= stoppedAt)
  BY <1>1, <1>2, ObjectsAssumption DEF ListsTyped, Agree, Conf!Ids, Conf!NoId
<1>4. c \in Conf!Call /\ c.id = id /\ KindOf(c).id = id
  <2>1. "DIALING" \in Conf!TelStates
    BY DEF Conf!TelStates
  <2> HIDE DEF id
  <2> QED BY <1>3, <2>1, NewCallFact
<1>5. \A d \in Conf!Range(table) : KindOf(d) \in Kinds(table) /\ d.id \in Nat
                                  /\ d.id # id
  <2>1. ASSUME NEW d \in Conf!Range(table) PROVE d.id <= lastCallId /\ d.id \in Nat
    <3>1. d \in Conf!Call /\ KindOf(d) \in Kinds(table)
      BY <1>1, KindKnown
    <3>2. KindOf(d).id <= lastCallId
      BY <1>1, <3>1 DEF Agree
    <3> QED BY <3>1, <3>2 DEF KindOf, Conf!Call, Conf!Ids
  <2> QED BY <1>3, <2>1 DEF Kinds
<1>6. \A k \in Kinds(table) : k.id \in Nat
  BY <1>5 DEF Kinds, KindOf
<1> HIDE DEF m, c
<1>7. /\ InOrder(n) /\ n.table = table' /\ n.conf = conf'
      /\ Kinds(table)' = Kinds(table) \cup {KindOf(c)}
  <2>1. InOrder(n) /\ Kinds(n.table) = Kinds(m.table) \cup {KindOf(c)}
    BY <1>1, <1>3, <1>4, <1>5, AppendKeeps
  <2>2. n.table = table' /\ n.conf = conf'
    BY <1>1, <1>2 DEF InOrder, Managers
  <2> QED BY <1>1, <2>1, <2>2
<1>8. InOrder(Conf!Now)'
  <2> HIDE DEF n
  <2>1. InOrder([table |-> table', conf |-> conf', sent |-> {}])
    BY <1>7, NowInOrder
  <2> QED BY <1>2, <2>1 DEF InOrder, Hosted, Conf!Now
<1>9. Agree(Kinds(table)', todo', details', stoppedAt', lastCallId')
  <2>1. todo \in Seq(Conf!Info)
    BY <1>1 DEF ListsTyped
  <2>2. Agree(Kinds(table) \cup {KindOf(c)}, todo, details, stoppedAt, lastCallId + 1)
    BY <1>1, <1>3, <1>4, <1>6, <2>1, AgreeMore
  <2> QED BY <1>2, <1>7, <2>2
<1>10. ListsTyped'
  BY <1>1, <1>2, <1>3 DEF ListsTyped
<1> QED BY <1>8, <1>9, <1>10 DEF ConfInv

LEMMA FewIds == IsFiniteSet(Conf!Ids)
BY FS_Interval, ObjectsAssumption DEF Conf!Ids

LEMMA FewCalls ==
    ASSUME NEW S, \A x \in S : x.id \in Conf!Ids, \A x, y \in S : x.id = y.id => x = y
    PROVE  IsFiniteSet(S)
<1> DEFINE f == [x \in S |-> x.id]
<1>1. f \in Injection(S, Conf!Ids)
  BY DEF Injection, IsInjective
<1> HIDE DEF f
<1> QED BY <1>1, FewIds, FS_Injection

LEMMA SequenceOf ==
    ASSUME NEW S, NEW f \in Conf!SetToSeqs(S),
           \A x \in S : x.id \in Conf!Ids, \A x, y \in S : x.id = y.id => x = y
    PROVE  f \in Seq(S) /\ IdsDiffer(f)
<1>1. Conf!Cardinality(S) \in Nat
  <2>1. Conf!Cardinality(S) = Cardinality(S)
    BY DEF Conf!Cardinality, Cardinality, Conf!IsFiniteSet, IsFiniteSet
  <2> QED BY <2>1, FewCalls, FS_CardinalityType
<1>2. f \in [1..Conf!Cardinality(S) -> S]
      /\ \A i, j \in 1..Conf!Cardinality(S) : i # j => f[i] # f[j]
  BY DEF Conf!SetToSeqs
<1> QED BY <1>1, <1>2 DEF IdsDiffer

\* One list of entries after the other.
LEMMA Joined ==
    ASSUME NEW A, NEW B, NEW f \in Seq(A), NEW g \in Seq(B), IdsDiffer(f), IdsDiffer(g),
           \A x \in A, y \in B : x.id # y.id
    PROVE  /\ f \o g \in Seq(A \cup B) /\ IdsDiffer(f \o g)
           /\ \A i \in DOMAIN (f \o g) : (f \o g)[i] \in A \cup B
<1> DEFINE h == f \o g
<1>1. /\ f \in Seq(A \cup B) /\ g \in Seq(A \cup B) /\ Len(f) \in Nat /\ Len(g) \in Nat
      /\ \A i \in 1..Len(f) : f[i] \in A
      /\ \A i \in 1..Len(g) : g[i] \in B
      /\ DOMAIN f = 1..Len(f) /\ DOMAIN g = 1..Len(g)
  OBVIOUS
<1>2. /\ h \in Seq(A \cup B) /\ Len(h) = Len(f) + Len(g)
      /\ \A i \in 1..Len(f) + Len(g) : h[i] = IF i <= Len(f) THEN f[i] ELSE g[i - Len(f)]
  BY <1>1, ConcatProperties
<1> HIDE DEF h
<1>3. DOMAIN h = 1..Len(f) + Len(g) /\ \A i \in DOMAIN h : h[i] \in A \cup B
  BY <1>1, <1>2
<1>4. ASSUME NEW i \in DOMAIN h, NEW j \in DOMAIN h, h[i].id = h[j].id PROVE i = j
  <2>1. i \in Nat /\ j \in Nat /\ 1 <= i /\ 1 <= j
        /\ i <= Len(f) + Len(g) /\ j <= Len(f) + Len(g)
    BY <1>1, <1>3
  <2>2. CASE i <= Len(f) /\ j <= Len(f)
    <3>1. h[i] = f[i] /\ h[j] = f[j] /\ i \in 1..Len(f) /\ j \in 1..Len(f)
      BY <1>1, <1>2, <1>3, <2>1, <2>2
    <3> QED BY <1>1, <1>4, <3>1 DEF IdsDiffer
  <2>3. CASE ~(i <= Len(f)) /\ ~(j <= Len(f))
    <3>1. /\ h[i] = g[i - Len(f)] /\ h[j] = g[j - Len(f)]
          /\ i - Len(f) \in 1..Len(g) /\ j - Len(f) \in 1..Len(g)
      BY <1>1, <1>2, <1>3, <2>1, <2>3
    <3>2. i - Len(f) = j - Len(f)
      BY <1>1, <1>4, <3>1 DEF IdsDiffer
    <3> QED BY <1>1, <2>1, <3>2
  <2>4. CASE i <= Len(f) /\ ~(j <= Len(f))
    <3>1. h[i] \in A /\ h[j] \in B
      <4>1. h[i] = f[i] /\ i \in 1..Len(f)
        BY <1>1, <1>2, <1>3, <2>1, <2>4
      <4>2. h[j] = g[j - Len(f)] /\ j - Len(f) \in 1..Len(g)
        BY <1>1, <1>2, <1>3, <2>1, <2>4
      <4> QED BY <1>1, <4>1, <4>2
    <3> QED BY <1>4, <3>1
  <2>5. CASE ~(i <= Len(f)) /\ j <= Len(f)
    <3>1. h[j] \in A /\ h[i] \in B
      <4>1. h[j] = f[j] /\ j \in 1..Len(f)
        BY <1>1, <1>2, <1>3, <2>1, <2>5
      <4>2. h[i] = g[i - Len(f)] /\ i - Len(f) \in 1..Len(g)
        BY <1>1, <1>2, <1>3, <2>1, <2>5
      <4> QED BY <1>1, <4>1, <4>2
    <3> QED BY <1>4, <3>1
  <2> QED BY <2>2, <2>3, <2>4, <2>5
<1> QED BY <1>2, <1>3, <1>4 DEF IdsDiffer, h

\* What a list says of a call: it is on the slot of the call and of its type
\* or a later one, and the call is known or new.
LEMMA ListFollows ==
    ASSUME ConfInv, NEW s, NEW i \in Conf!Ids, NEW e \in Conf!Entries(s, i),
           e # Conf!Absent
    PROVE  /\ e \in Conf!Entry
           /\ \A k \in Kinds(table) : Follows(k, Conf!AsInfo(s, i, e))
           /\ (\E k \in Kinds(table) : k.id = i) \/ i = lastCallId + 1
<1> DEFINE c == Conf!CallById(table, i)
           types == {c.type} \cup
                       {t \in Conf!CarrierTypes : <<c.type, t>> \in {<<"IMS", "CS">>}}
           known == [state : StackStates \ {"INCOMING"}, type : types, mpty : BOOLEAN]
           in == [state : StackStates \cap {"INCOMING"}, type : Conf!CarrierTypes,
                  mpty : {FALSE}]
<1>1. table \in Seq(Conf!Call) /\ InOrder(Conf!Now) /\ Conf!Now.table = table
  BY DEF ConfInv, InOrder, Managers, Conf!Now
<1>2. in \subseteq Conf!Entry
  BY ObjectsAssumption DEF Conf!Entry
<1>3. CASE c # Conf!NoCall
  <2>1. c \in Conf!Range(table) /\ c \in Conf!Call /\ c.id = i
    BY <1>1, <1>3, CallByIdFact
  <2>2. KindOf(c) \in Kinds(table) /\ KindOf(c).id = i
    BY <2>1 DEF Kinds, KindOf
  <2>3. \A k \in Kinds(table) : k.id = i => k = KindOf(c)
    <3>1. ASSUME NEW k \in Kinds(table), k.id = i PROVE k = KindOf(c)
      <4>1. PICK d \in Conf!Range(table) : k = KindOf(d)
        BY DEF Kinds
      <4>2. d.id = i
        BY <3>1, <4>1 DEF KindOf
      <4>3. d = c
        BY <1>1, <4>2, CallByIdIs DEF InOrder
      <4> QED BY <4>1, <4>3
    <3> QED BY <3>1
  <2>4. /\ c.slot = s
        /\ e \in known \cup {d \in in : c.tel = "INCOMING" /\ d.type = c.type}
    BY <1>3 DEF Conf!Entries
  <2>5. types \subseteq Conf!CarrierTypes /\ (c.type = "CS" => types = {"CS"})
    BY <2>1 DEF Conf!Call
  <2>6. known \subseteq Conf!Entry /\ \A d \in known : d.type \in types
    <3> HIDE DEF types
    <3> QED BY <2>5, ObjectsAssumption DEF Conf!Entry
  <2>7. e \in Conf!Entry /\ (c.type = "CS" => e.type = "CS")
    <3> HIDE DEF known, in, types
    <3> QED BY <1>2, <2>4, <2>5, <2>6
  <2>8. Follows(KindOf(c), Conf!AsInfo(s, i, e))
    BY <2>4, <2>7 DEF Follows, KindOf, Conf!AsInfo
  <2>9. \A k \in Kinds(table) : Follows(k, Conf!AsInfo(s, i, e))
    BY <2>3, <2>8 DEF Follows, Conf!AsInfo
  <2> QED BY <2>2, <2>7, <2>9
<1>4. CASE c = Conf!NoCall
  <2>1. \A d \in Conf!Range(table) : d.id # i
    BY <1>1, <1>4, CallByIdFact
  <2>2. \A k \in Kinds(table) : k.id # i
    BY <2>1 DEF Kinds, KindOf
  <2>3. e \in in /\ i = lastCallId + 1
    BY <1>4 DEF Conf!Entries
  <2> HIDE DEF in
  <2> QED BY <1>2, <2>2, <2>3 DEF Follows, Conf!AsInfo
<1> QED BY <1>3, <1>4

LEMMA ReportCallsKeeps ==
    ASSUME ConfInv, NEW s \in Slots,
           NEW list \in [Conf!Ids -> UNION {Conf!Entries(s, i) : i \in Conf!Ids}],
           Conf!ReportCalls(s, list)
    PROVE  ConfInv'
<1> DEFINE ids == {i \in Conf!Ids : list[i] # Conf!Absent}
           U == Conf!Changed(s, list)
           G == Conf!Gone(s, list)
           next == [i \in Conf!Ids |->
                       IF list[i] # Conf!Absent /\ list[i].state = "DISCONNECTED"
                       THEN Conf!Absent ELSE list[i]]
           lists == [details EXCEPT ![s] = next]
           last == Conf!Max({lastCallId} \cup ids)
           kinds == Kinds(table)
<1>1. /\ InOrder(Conf!Now) /\ ListsTyped
      /\ Agree(kinds, todo, details, stoppedAt, lastCallId)
      /\ details \in [Slots -> [Conf!Ids -> Conf!Entry \cup {Conf!Absent}]]
      /\ lastCallId \in Nat /\ lastCallId <= MaxCallId /\ MaxCallId \in Nat
      /\ stoppedAt \in Nat
  <2>1. ListsTyped /\ MaxCallId \in Nat
    BY ObjectsAssumption DEF ConfInv
  <2>2. lastCallId \in Nat /\ lastCallId <= MaxCallId /\ stoppedAt \in Nat
    BY <2>1 DEF ListsTyped, Conf!NoId, Conf!Ids
  <2> QED BY <2>1, <2>2 DEF ConfInv, ListsTyped
<1>2. /\ \A i \in Conf!Ids : list[i] \in Conf!Entries(s, i)
      /\ details' = lists /\ lastCallId' = last /\ Conf!Apply(Conf!Now)
      /\ dialled' = Conf!NoId /\ UNCHANGED stoppedAt
      /\ mpty' = [mpty EXCEPT ![s] = {i \in Conf!Ids : list[i] # Conf!Absent /\ list[i].mpty}]
  BY DEF Conf!ReportCalls
<1>3. PICK first \in Conf!SetToSeqs(U), end \in Conf!SetToSeqs(G) : todo' = first \o end
  BY DEF Conf!ReportCalls
<1>4. \A i \in ids :
         /\ list[i] \in Conf!Entry
         /\ \A k \in kinds : Follows(k, Conf!AsInfo(s, i, list[i]))
         /\ (\E k \in kinds : k.id = i) \/ i = lastCallId + 1
  BY <1>2, ListFollows
<1>5. \A i \in ids : ~(i <= stoppedAt) /\ (i <= lastCallId \/ i = lastCallId + 1)
  <2>1. (\A k \in kinds : ~(k.id <= stoppedAt)) /\ stoppedAt <= lastCallId
    BY <1>1 DEF InOrder, Hosted, Agree, Conf!Now
  <2> QED BY <1>1, <1>4, <2>1 DEF Agree
<1>6. \A i \in ids, r \in Slots : Listed(details, r, i) => r = s
  <2> SUFFICES ASSUME NEW i \in ids, NEW r \in Slots, Listed(details, r, i) PROVE r = s
    OBVIOUS
  <2>1. i <= lastCallId /\ i \in Nat
    BY <1>1 DEF Agree, Since, Conf!Ids
  <2>2. PICK k \in kinds : k.id = i
    BY <1>1, <1>4, <2>1
  <2>3. Follows(k, Conf!AsInfo(s, i, list[i])) /\ Follows(k, Says(details, r, i))
    BY <1>1, <1>4 DEF Agree
  <2> QED BY <2>2, <2>3 DEF Follows, Says, Conf!AsInfo
<1>7. /\ last \in {lastCallId} \cup ids /\ \A i \in ids : i <= last
      /\ lastCallId <= last /\ last \in Nat /\ last <= MaxCallId
  <2> DEFINE S == {lastCallId} \cup ids
  <2>1. S \subseteq 0..MaxCallId /\ S # {}
    BY <1>1 DEF Conf!Ids
  <2> HIDE DEF S
  <2>2. Conf!Max(S) \in S /\ \A y \in S : y <= Conf!Max(S)
    BY <1>1, <2>1, GreatestIsMember
  <2>3. last = Conf!Max(S) /\ S = {lastCallId} \cup ids
    BY DEF S
  <2>4. \A y \in S : y \in Nat /\ y <= MaxCallId
    BY <1>1, <2>1
  <2> HIDE DEF ids, last
  <2> QED BY <2>2, <2>3, <2>4
<1>8. /\ \A i \in Conf!Ids : Listed(lists, s, i) =>
            i \in ids /\ Says(lists, s, i) = Conf!AsInfo(s, i, list[i])
      /\ \A r \in Slots, i \in Conf!Ids : r # s =>
            /\ Listed(lists, r, i) <=> Listed(details, r, i)
            /\ Says(lists, r, i) = Says(details, r, i)
  BY <1>1 DEF Listed, Says
<1>9. \A x \in U : /\ x.id \in ids /\ x = Conf!AsInfo(s, x.id, list[x.id])
                  /\ x.slot = s
  BY DEF Conf!Changed, Conf!AsInfo
<1>10. \A x \in G : /\ x.id \in Conf!Ids /\ x.id \notin ids /\ Listed(details, s, x.id)
                   /\ x = [Conf!AsInfo(s, x.id, details[s][x.id]) EXCEPT !.state = "DISCONNECTED"]
                   /\ x.slot = s /\ x.type = Says(details, s, x.id).type
  BY DEF Conf!Gone, Conf!AsInfo, Listed, Says
<1>11. todo' \in Seq(U \cup G) /\ IdsDiffer(todo')
       /\ \A i \in DOMAIN todo' : todo'[i] \in U \cup G
  <2>1. ids \subseteq Conf!Ids
    OBVIOUS
  <2> HIDE DEF U, G, ids
  <2>2. /\ \A x \in U : x.id \in Conf!Ids
        /\ \A x, y \in U : x.id = y.id => x = y
    BY <1>9, <2>1
  <2>3. /\ \A x \in G : x.id \in Conf!Ids
        /\ \A x, y \in G : x.id = y.id => x = y
    BY <1>10
  <2>4. first \in Seq(U) /\ IdsDiffer(first) /\ end \in Seq(G) /\ IdsDiffer(end)
    BY <2>2, <2>3, SequenceOf
  <2>5. \A x \in U, y \in G : x.id # y.id
    BY <1>9, <1>10
  <2> QED BY <1>3, <2>4, <2>5, Joined
<1>12. U \cup G \subseteq Conf!Info
  <2>1. ASSUME NEW x \in U PROVE x \in Conf!Info
    BY <1>4, <1>9 DEF Conf!AsInfo, Conf!Entry, Conf!Info
  <2>2. ASSUME NEW x \in G PROVE x \in Conf!Info
    <3>1. details[s][x.id] \in Conf!Entry
      BY <1>1, <1>10 DEF Listed
    <3> QED BY <1>10, <3>1 DEF Conf!AsInfo, Conf!Entry, Conf!Info, Conf!Reported
  <2> QED BY <2>1, <2>2
<1> HIDE DEF U, G, lists, last, ids, kinds
<1>13. \A x \in U \cup G : Since(stoppedAt, x.id, last)
  <2>1. \A x \in G : Since(stoppedAt, x.id, lastCallId) /\ x.id \in Nat
    BY <1>1, <1>10 DEF Agree, Conf!Ids
  <2> QED BY <1>1, <1>5, <1>7, <1>9, <2>1 DEF Since
<1>14. \A r \in Slots, i \in Conf!Ids : Listed(lists, r, i) =>
          \/ i \in ids /\ r = s
          \/ i \notin ids /\ r # s /\ Listed(details, r, i)
  BY <1>6, <1>8
<1>15. \A x \in U \cup G : \A r \in Slots, i \in Conf!Ids :
          Listed(lists, r, i) => Follows(x, Says(lists, r, i))
  <2> SUFFICES ASSUME NEW x \in U \cup G, NEW r \in Slots, NEW i \in Conf!Ids,
                      Listed(lists, r, i), x.id = i
               PROVE  Follows(x, Says(lists, r, i))
    BY DEF Follows, Says, Conf!AsInfo
  <2>1. CASE x \in U
    <3>1. r = s /\ x = Says(lists, r, i)
      BY <1>8, <1>9, <1>14, <2>1
    <3> QED BY <1>9, <2>1, <3>1 DEF Follows
  <2>2. CASE x \in G
    BY <1>1, <1>10, <1>14, <2>2 DEF Agree
  <2> QED BY <2>1, <2>2
<1>16. \A k \in kinds : \A x \in U \cup G : Follows(k, x)
  <2>1. ASSUME NEW k \in kinds, NEW x \in U PROVE Follows(k, x)
    BY <1>4, <1>9
  <2>2. ASSUME NEW k \in kinds, NEW x \in G PROVE Follows(k, x)
    <3>1. Follows(k, Says(details, s, x.id))
      BY <1>1, <1>10 DEF Agree
    <3>2. x.type = Says(details, s, x.id).type /\ x.slot = Says(details, s, x.id).slot
          /\ x.id = Says(details, s, x.id).id
      BY <1>10 DEF Says, Conf!AsInfo
    <3> QED BY <3>1, <3>2 DEF Follows
  <2> QED BY <2>1, <2>2
<1>17. \A k \in kinds : \A r \in Slots, i \in Conf!Ids :
          Listed(lists, r, i) => Follows(k, Says(lists, r, i))
  <2> SUFFICES ASSUME NEW k \in kinds, NEW r \in Slots, NEW i \in Conf!Ids,
                      Listed(lists, r, i)
               PROVE  Follows(k, Says(lists, r, i))
    OBVIOUS
  <2>1. CASE i \in ids /\ r = s
    BY <1>4, <1>8, <2>1
  <2>2. CASE r # s /\ Listed(details, r, i)
    BY <1>1, <1>8, <2>2 DEF Agree
  <2> QED BY <1>14, <2>1, <2>2
<1>18. \A k \in kinds : k.id <= last
  <2>1. \A k \in kinds : k.id \in Nat
    <3>1. \A c \in Conf!Range(table) : c.id \in Nat
      BY <1>1, CallsOfTable DEF InOrder, Managers, Conf!Now, Conf!Ids
    <3> QED BY <3>1 DEF Kinds, KindOf, kinds
  <2> QED BY <1>1, <1>7, <2>1 DEF Agree
<1>19. \A r \in Slots, i \in Conf!Ids : Listed(lists, r, i) => Since(stoppedAt, i, last)
  <2> SUFFICES ASSUME NEW r \in Slots, NEW i \in Conf!Ids, Listed(lists, r, i)
               PROVE  Since(stoppedAt, i, last)
    OBVIOUS
  <2>1. CASE i \in ids
    BY <1>5, <1>7, <2>1 DEF Since
  <2>2. CASE Listed(details, r, i)
    <3>1. Since(stoppedAt, i, lastCallId)
      BY <1>1, <2>2 DEF Agree
    <3>2. i \in Nat
      BY DEF Conf!Ids
    <3> QED BY <1>1, <1>7, <3>1, <3>2 DEF Since
  <2> QED BY <1>14, <2>1, <2>2
<1>20. \A q, r \in Slots, i \in Conf!Ids : Listed(lists, q, i) /\ Listed(lists, r, i) => q = r
  BY <1>1, <1>14 DEF Agree
<1>21. Agree(kinds, todo', lists, stoppedAt, last)
  <2>1. stoppedAt <= last
    BY <1>1, <1>7 DEF Agree
  <2> QED BY <2>1, <1>11, <1>13, <1>15, <1>16, <1>17, <1>18, <1>19, <1>20 DEF Agree
<1>22. InOrder(Conf!Now)' /\ Kinds(table)' = kinds /\ sent' \in SUBSET Commands
  <2>1. Kinds(Conf!Now.table) = kinds
    BY DEF Conf!Now, kinds
  <2> QED BY <1>1, <1>2, <2>1, NowKeeps
<1>23. ListsTyped'
  <2>1. todo' \in Seq(Conf!Info)
    BY <1>11, <1>12
  <2>2. lists \in [Slots -> [Conf!Ids -> Conf!Entry \cup {Conf!Absent}]]
    <3>1. \A i \in Conf!Ids : list[i] # Conf!Absent => list[i] \in Conf!Entry
      BY <1>4 DEF ids
    <3>2. next \in [Conf!Ids -> Conf!Entry \cup {Conf!Absent}]
      BY <3>1
    <3> HIDE DEF next
    <3> QED BY <1>1, <3>2 DEF lists
  <2>3. last \in {Conf!NoId} \cup Conf!Ids
    BY <1>1, <1>7 DEF Conf!NoId, Conf!Ids
  <2>4. mpty' \in [Slots -> SUBSET Conf!Ids]
    BY <1>1, <1>2 DEF ListsTyped
  <2>5. stoppedAt' \in {Conf!NoId} \cup Conf!Ids
    BY <1>1, <1>2 DEF ListsTyped
  <2>6. dialled' \in {Conf!NoId} \cup Conf!Ids
    BY <1>2
  <2> HIDE DEF lists, last
  <2> QED BY <1>2, <1>22, <2>1, <2>2, <2>3, <2>4, <2>5, <2>6 DEF ListsTyped
<1> QED BY <1>2, <1>21, <1>22, <1>23 DEF ConfInv

\* A service that knows no call agrees with itself.
LEMMA NothingKnown ==
    ASSUME NEW last \in Nat, NEW lists, NEW q,
           lists = Conf!NoDetails, q = <<>>
    PROVE  Agree({}, q, lists, last, last)
<1>1. \A s \in Slots, i \in Conf!Ids : ~Listed(lists, s, i)
  BY DEF Listed, Conf!NoDetails
<1>2. DOMAIN q = {} /\ IdsDiffer(q)
  BY DEF IdsDiffer
<1> QED BY <1>1, <1>2 DEF Agree

LEMMA NoTable == Kinds(<<>>) = {} /\ <<>> \in Seq(Conf!Call) /\ IdsDiffer(<<>>)
BY DEF Kinds, Conf!Range, IdsDiffer

LEMMA ListsEmpty ==
    /\ Conf!NoDetails \in [Slots -> [Conf!Ids -> Conf!Entry \cup {Conf!Absent}]]
    /\ Conf!NoMpty \in [Slots -> SUBSET Conf!Ids]
BY DEF Conf!NoDetails, Conf!NoMpty

\* The calls are deleted: every participant is one that is left behind.
LEMMA StopKeeps ==
    ASSUME ConfInv, Conf!StopService
    PROVE  ConfInv'
<1> DEFINE m == Conf!Now
           n == [m EXCEPT !.table = <<>>]
<1>1. /\ todo = <<>> /\ Conf!Apply(n) /\ details' = Conf!NoDetails /\ mpty' = Conf!NoMpty
      /\ stoppedAt' = lastCallId /\ dialled' = Conf!NoId /\ UNCHANGED <<todo, lastCallId>>
  BY DEF Conf!StopService, Conf!Idle
<1>2. /\ m \in Managers /\ m.table = table /\ m.conf = conf /\ m.sent = {}
      /\ conf \in Conferences /\ Hosted(conf, Kinds(table)) /\ ListsTyped
      /\ Agree(Kinds(table), todo, details, stoppedAt, lastCallId)
  BY DEF ConfInv, InOrder, Managers, Conf!Now
<1> HIDE DEF m
<1>3. table' = <<>> /\ conf' = conf /\ sent' = {}
  BY <1>1, <1>2 DEF Conf!Apply, Managers
<1>4. lastCallId \in Nat /\ stoppedAt \in Nat /\ stoppedAt <= lastCallId
  BY <1>2 DEF ListsTyped, Agree, Conf!NoId, Conf!Ids
<1>5. \A id \in conf["CS"].members : id <= lastCallId
  <2>1. \A id \in Cs(Kinds(table)) : id <= lastCallId
    BY <1>2 DEF Agree, Cs
  <2>2. \A id \in conf["CS"].members : id \in Nat
    BY <1>2 DEF Conferences, ConferenceRecord, Conf!CarrierTypes, Conf!Ids
  <2> QED BY <1>2, <1>4, <2>1, <2>2 DEF Hosted
<1>6. Hosted(conf, Kinds(<<>>))'
  BY <1>1, <1>2, <1>3, <1>5, NoTable DEF Hosted
<1>7. InOrder(Conf!Now)'
  <2>1. [table |-> <<>>, conf |-> conf, sent |-> {}] \in Managers
    BY <1>2, NoTable DEF Managers
  <2> QED BY <1>3, <1>6, <2>1, NoTable DEF InOrder, Conf!Now
<1>8. ListsTyped'
  BY <1>1, <1>2, <1>3, ListsEmpty DEF ListsTyped
<1>9. Agree({}, todo', details', lastCallId, lastCallId)
  BY <1>1, <1>4, NothingKnown
<1> QED BY <1>1, <1>3, <1>7, <1>8, <1>9, NoTable DEF ConfInv

LEMMA ConfInvInit == Conf!Init => ConfInv
<1> SUFFICES ASSUME Conf!Init PROVE ConfInv
  OBVIOUS
<1>1. /\ table = <<>> /\ conf = [t \in Conf!CarrierTypes |-> Conf!NewConference]
      /\ details = Conf!NoDetails /\ mpty = Conf!NoMpty
      /\ todo = <<>> /\ lastCallId = Conf!NoId
      /\ sent = {} /\ dialled = Conf!NoId /\ stoppedAt = Conf!NoId
  BY DEF Conf!Init
<1>2. /\ Conf!NewConference \in ConferenceRecord
      /\ Conf!NewConference.state = "IDLE" /\ Conf!NewConference.old = "IDLE"
      /\ Conf!NewConference.members = {}
  BY DEF Conf!NewConference, ConferenceRecord, Conf!ConferenceState
<1>3. conf \in Conferences /\ conf["CS"] = Conf!NewConference
      /\ conf["IMS"] = Conf!NewConference
  BY <1>1, <1>2 DEF Conferences, Conf!CarrierTypes
<1>4. InOrder(Conf!Now)
  <2>1. Hosted(conf, Kinds(table))
    BY <1>1, <1>2, <1>3, NoTable DEF Hosted
  <2>2. Conf!Now \in Managers
    BY <1>1, <1>3 DEF Conf!Now, Managers
  <2> QED BY <1>1, <2>1, <2>2, NoTable DEF InOrder, Conf!Now
<1>5. ListsTyped
  BY <1>1, ListsEmpty DEF ListsTyped
<1>6. Agree({}, todo, details, lastCallId, lastCallId)
  BY <1>1, NothingKnown DEF Conf!NoId
<1> QED BY <1>1, <1>4, <1>5, <1>6, NoTable DEF ConfInv

LEMMA ConfInvNext == ConfInv /\ [Conf!Next]_conferenceVars => ConfInv'
<1> SUFFICES ASSUME ConfInv, [Conf!Next]_conferenceVars PROVE ConfInv'
  OBVIOUS
<1>1. CASE Conf!HandleEntry
  BY <1>1, HandleKeeps
<1>2. CASE \E combine \in BOOLEAN : Conf!HandleEventResultReportInfo(combine)
  BY <1>2, EventKeeps
<1>3. CASE \E c \in Conf!Range(table) : Conf!HangUpRequest(c)
  BY <1>3, HangUpKeeps
<1>4. CASE \E s \in Slots, t \in Conf!CarrierTypes : Conf!DialCall(s, t)
  BY <1>4, DialKeeps
<1>5. CASE \E s \in Slots :
              \E list \in [Conf!Ids -> UNION {Conf!Entries(s, i) : i \in Conf!Ids}] :
                 Conf!ReportCalls(s, list)
  BY <1>5, ReportCallsKeeps
<1>6. CASE Conf!StopService
  BY <1>6, StopKeeps
<1>7. CASE UNCHANGED conferenceVars
  BY <1>7 DEF conferenceVars, ConfInv, ListsTyped, InOrder, Hosted, Conf!Now
<1> QED BY <1>1, <1>2, <1>3, <1>4, <1>5, <1>6, <1>7 DEF Conf!Next

LEMMA ConfInvImplies == ConfInv => Conf!TypeOK /\ Conf!ConferenceSound
<1> SUFFICES ASSUME ConfInv PROVE Conf!TypeOK /\ Conf!ConferenceSound
  OBVIOUS
<1> DEFINE cs == conf["CS"]
<1>1. /\ table \in Seq(Conf!Call) /\ conf \in Conferences /\ IdsDiffer(table)
      /\ Hosted(conf, Kinds(table)) /\ ListsTyped
  BY DEF ConfInv, InOrder, Managers, Conf!Now
<1>2. Conf!TypeOK
  BY <1>1 DEF Conf!TypeOK, ListsTyped, Conferences, ConferenceRecord, Commands
<1>3. /\ conf["IMS"] = Conf!NewConference /\ cs.old \in {"IDLE", "HOLDING"}
      /\ Conf!NewConference.members = {} /\ Conf!NewConference.main = Conf!NoId
      /\ Conf!NewConference.state = "IDLE" /\ Conf!NewConference.old = "IDLE"
  BY <1>1 DEF Hosted, Conf!NewConference
<1>4. Conf!HostIsParticipant
  BY <1>1, <1>3 DEF Hosted, Conf!HostIsParticipant, Conf!CarrierTypes
<1>5. Conf!HeldHasMembers
  <2>1. cs.members = {} => cs = Conf!NewConference
    BY <1>1 DEF Hosted
  <2> QED BY <1>3, <2>1 DEF Conf!HeldHasMembers, Conf!CarrierTypes
<1>6. Conf!MembersAreCalls
  <2>1. ASSUME NEW id \in cs.members, ~(id <= stoppedAt)
        PROVE  /\ Conf!CallById(table, id) # Conf!NoCall
               /\ Conf!CallById(table, id).type = "CS"
    <3>1. PICK c \in Conf!Range(table) : c.id = id /\ c.type = "CS"
      BY <1>1, <2>1, CsCalls DEF Hosted
    <3>2. Conf!CallById(table, id) = c /\ c # Conf!NoCall
      BY <1>1, <3>1, CallByIdIs, CallsOfTable
    <3> QED BY <3>1, <3>2
  <2> QED BY <1>3, <2>1 DEF Conf!MembersAreCalls, Conf!CarrierTypes
<1> QED BY <1>2, <1>4, <1>5, <1>6 DEF Conf!ConferenceSound

\* The variables of the conferences have their types (Conference!TypeOK), for
\* every set of slots, number of calls and set of states reported.
THEOREM ConferencesTyped == Conf!Spec => []Conf!TypeOK
<1>1. ConfInv => Conf!TypeOK
  BY ConfInvImplies
<1> QED BY <1>1, ConfInvInit, ConfInvNext, PTL DEF Conf!Spec, Conf!vars, conferenceVars

\* A conference has a host among its participants and is held only while it has
\* one, and its participants are calls of its type, or calls that a stop of the
\* service deleted: whatever the order in which calls join, leave, change type,
\* fail to combine and are hung up, and the service stops (LeaveFromConference,
\* HandleCombineConferenceFailEvent, RefreshCall, CallManagerService::UnInit).
THEOREM ConferencesStaySound == Conf!Spec => []Conf!ConferenceSound
<1>1. ConfInv => Conf!ConferenceSound
  BY ConfInvImplies
<1> QED BY <1>1, ConfInvInit, ConfInvNext, PTL DEF Conf!Spec, Conf!vars, conferenceVars

\* A call that came from IMS stays with CS, and then nothing is left of a
\* conference when its calls have ended (LeaveFromConference): what is left when
\* there is no call is participants that a stop of the service left there, and
\* nothing in a service that never stopped.
THEOREM NothingIsLeft ==
    Conf!Spec => [](/\ Conf!NoStateLeaks
                    /\ stoppedAt = Conf!NoId => Conf!StopLeavesNothing)
<1> DEFINE Clean == /\ Conf!NoStateLeaks
                    /\ stoppedAt = Conf!NoId => Conf!StopLeavesNothing
<1>1. ConfInv => Clean
  <2> SUFFICES ASSUME ConfInv, table = <<>>
               PROVE  \A t \in Conf!CarrierTypes :
                         /\ \A id \in conf[t].members : id <= stoppedAt
                         /\ conf[t].members = {} => conf[t] = Conf!NewConference
                         /\ stoppedAt = Conf!NoId => conf[t].members = {}
    BY DEF Conf!NoStateLeaks, Conf!StopLeavesNothing
  <2>1. Hosted(conf, Kinds(table)) /\ conf \in Conferences
    BY DEF ConfInv, InOrder, Managers, Conf!Now
  <2>2. Cs(Kinds(table)) = {}
    BY NoTable DEF Cs
  <2>3. \A id \in conf["CS"].members : id <= stoppedAt /\ id \in Nat /\ id >= 1
    BY <2>1, <2>2 DEF Hosted, Conferences, ConferenceRecord, Conf!CarrierTypes, Conf!Ids
  <2>4. stoppedAt = Conf!NoId => conf["CS"].members = {}
    BY <2>3 DEF Conf!NoId
  <2>5. conf["IMS"] = Conf!NewConference /\ Conf!NewConference.members = {}
    BY <2>1 DEF Hosted, Conf!NewConference
  <2> QED BY <2>1, <2>3, <2>4, <2>5 DEF Hosted, Conf!CarrierTypes
<1> QED BY <1>1, ConfInvInit, ConfInvNext, PTL DEF Conf!Spec, Conf!vars, conferenceVars

-----------------------------------------------------------------------------
(***************************************************************************)
(* The objects together.                                                   *)
(***************************************************************************)
LEMMA EachRuns == ObjectsSpec => Spec /\ RecordSpec /\ Conf!Spec
<1>1. ObjectsInit => Init /\ RecordInit /\ Conf!Init
  BY DEF ObjectsInit
<1>2. [ObjectsNext]_objectsVars =>
         [Next]_vars /\ [RecordNext]_recordVars /\ [Conf!Next]_conferenceVars
  BY DEF ObjectsNext, objectsVars
<1> QED BY <1>1, <1>2, PTL DEF ObjectsSpec, Spec, RecordSpec, Conf!Spec, Conf!vars, conferenceVars

\* Every kind of object is in order in the state in which the objects are, for
\* all sizes of all of them.
THEOREM ObjectsStaySound == ObjectsSpec => []ObjectsSound
<1>1. /\ TypeOK /\ RecordTypeOK /\ RunningMatchesReport
      /\ Conf!TypeOK /\ Conf!ConferenceSound
      => ObjectsSound
  BY DEF ObjectsSound
<1> QED BY <1>1, EachRuns, PointersTypeCorrect, RecordTypeCorrect, StatesAgree,
           ConferencesTyped, ConferencesStaySound, PTL
=============================================================================
