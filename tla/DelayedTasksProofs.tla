-------------------------- MODULE DelayedTasksProofs --------------------------
(***************************************************************************)
(* The delayed table implements TimedTable for every number of tasks, size *)
(* of the table, tick frequency and range of the counter, as long as the   *)
(* delays are shorter than half that range by more than a task is late.    *)
(* With such delays its timer is in time for the task that falls due next; *)
(* and whatever the delays are, a task that was removed is not run.        *)
(***************************************************************************)
EXTENDS DelayedTasks, TLAPS

Entry == [id : 1 .. MaxTaskId, due : Ticks, job : Jobs]

\* The part of TypeOK that the order of the table depends on.
TableType ==
    /\ now \in Ticks
    /\ delayed \in Seq(Entry)
    /\ lastTaskId \in 0 .. MaxTaskId
    /\ due \in Seq(Jobs)
    /\ delay \in [Jobs -> Delays]

Left(i) == SignedDistance(delayed[i].due, now)

\* No distance in the table is near the point where its sign flips, and the
\* table is in the order of the ticks left.
LeftIsShort ==
    \A i \in 1 .. Len(delayed) : -MaxLag <= Left(i) /\ Left(i) < HalfWrap - MaxLag
LeftIsSorted ==
    \A i, k \in 1 .. Len(delayed) : i < k => Left(i) <= Left(k)

TableInv == TableType /\ LeftIsShort /\ LeftIsSorted

-----------------------------------------------------------------------------
(* Tick arithmetic.                                                        *)

LEMMA DistanceType ==
    ASSUME NEW a \in Ticks, NEW b \in Ticks
    PROVE  /\ SignedDistance(a, b) \in Int
           /\ -HalfWrap <= SignedDistance(a, b)
           /\ SignedDistance(a, b) < HalfWrap
BY DelayedAssumption DEF SignedDistance, Minus, Ticks, Wrap

\* A due tick t ticks ahead is at distance t.
LEMMA DistanceAhead ==
    ASSUME NEW a \in Ticks, NEW t \in Nat, t < HalfWrap
    PROVE  Plus(a, t) \in Ticks /\ SignedDistance(Plus(a, t), a) = t
BY DelayedAssumption DEF SignedDistance, Minus, Plus, Ticks, Wrap

\* When the counter advances every distance shrinks by one.
LEMMA DistanceTicks ==
    ASSUME NEW a \in Ticks, NEW b \in Ticks, -HalfWrap < SignedDistance(a, b)
    PROVE  /\ Plus(b, 1) \in Ticks
           /\ SignedDistance(a, Plus(b, 1)) = SignedDistance(a, b) - 1
BY DelayedAssumption DEF SignedDistance, Minus, Plus, Ticks, Wrap

\* Due ticks compare as their distances from now do, if those are close.
LEMMA DistanceCompares ==
    ASSUME NEW a \in Ticks, NEW b \in Ticks, NEW t \in Ticks,
           SignedDistance(a, t) - SignedDistance(b, t) < HalfWrap,
           SignedDistance(b, t) - SignedDistance(a, t) < HalfWrap
    PROVE  /\ IsDue(a, b) <=> SignedDistance(a, t) <= SignedDistance(b, t)
           /\ a = b <=> SignedDistance(a, t) = SignedDistance(b, t)
BY DelayedAssumption DEF IsDue, SignedDistance, Minus, Ticks, Wrap

LEMMA TaskTicksType ==
    ASSUME NEW d \in Delays
    PROVE  TaskTicks(d) \in Nat /\ TaskTicks(d) > 0
<1>1. d \in Nat /\ d * TickFreq \in Nat /\ Wrap \in Nat /\ Wrap - 2 \in Nat
  BY DelayedAssumption DEF Wrap
<1>2. (d * TickFreq + 999) \div 1000 \in Nat
  <2> DEFINE n == d * TickFreq
  <2>1. n \in Nat
    BY <1>1
  <2> HIDE DEF n
  <2>2. (n + 999) \div 1000 \in Nat
    BY <2>1
  <2> QED BY <2>2 DEF n
<1>3. TelOsMsToTicks(d) \in Nat
  BY <1>1, <1>2 DEF TelOsMsToTicks, AtMost
<1> QED BY <1>3 DEF TaskTicks, AtLeastOne

-----------------------------------------------------------------------------
(* Sequences that are given as functions.                                  *)

LEMMA FunctionIsSequence ==
    ASSUME NEW S, NEW n \in Nat, NEW f \in [1 .. n -> S]
    PROVE  f \in Seq(S) /\ Len(f) = n
OBVIOUS

LEMMA InsertInTable ==
    ASSUME NEW s \in Seq(Entry), NEW e \in Entry, NEW n \in 0 .. Len(s)
    PROVE  /\ InsertAt(s, n, e) \in Seq(Entry)
           /\ Len(InsertAt(s, n, e)) = Len(s) + 1
           /\ \A i \in 1 .. Len(s) + 1 :
                 InsertAt(s, n, e)[i] =
                    IF i <= n THEN s[i] ELSE IF i = n + 1 THEN e ELSE s[i - 1]
<1>1. InsertAt(s, n, e) \in [1 .. Len(s) + 1 -> Entry]
  BY DEF InsertAt
<1>2. Len(s) + 1 \in Nat
  OBVIOUS
<1> QED BY <1>1, <1>2, FunctionIsSequence DEF InsertAt

LEMMA RemoveAtFact ==
    ASSUME NEW S, NEW s \in Seq(S), NEW n \in 1 .. Len(s)
    PROVE  /\ RemoveAt(s, n) \in Seq(S)
           /\ Len(RemoveAt(s, n)) = Len(s) - 1
           /\ \A i \in 1 .. Len(s) - 1 :
                 RemoveAt(s, n)[i] = IF i < n THEN s[i] ELSE s[i + 1]
<1>1. RemoveAt(s, n) \in [1 .. Len(s) - 1 -> S]
  BY DEF RemoveAt
<1>2. Len(s) - 1 \in Nat
  OBVIOUS
<1> QED BY <1>1, <1>2, FunctionIsSequence DEF RemoveAt

-----------------------------------------------------------------------------
(* The invariant.                                                          *)

LEMMA TableInit == ShortDelays /\ Init => TableInv
BY DelayedAssumption
   DEF Init, TableInv, TableType, LeftIsShort, LeftIsSorted, NoTask

\* What an insertion leaves: the entry has its delay left, those it goes
\* behind no more and the others more.
LEMMA InsertFact ==
    ASSUME ShortDelays, TableInv, NEW j \in Jobs, NEW n \in 0 .. Len(delayed),
           Insert(j, n), UNCHANGED now
    PROVE  /\ delayed' \in Seq(Entry)
           /\ lastTaskId' \in 0 .. MaxTaskId
           /\ Len(delayed') = Len(delayed) + 1
           /\ \A i \in 1 .. n : delayed'[i] = delayed[i]
           /\ delayed'[n + 1].job = j
           /\ SignedDistance(delayed'[n + 1].due, now) = TaskTicks(delay[j])
           /\ \A i \in n + 1 .. Len(delayed) : delayed'[i + 1] = delayed[i]
           /\ \A i \in 1 .. n : Left(i) <= TaskTicks(delay[j])
           /\ \A i \in n + 1 .. Len(delayed) : TaskTicks(delay[j]) < Left(i)
<1> DEFINE t == TaskTicks(delay[j])
           tick == Plus(now, t)
           entry == [id |-> NextTaskId, due |-> tick, job |-> j]
<1>1. t \in Nat /\ t + MaxLag < HalfWrap /\ t < HalfWrap
  <2>1. delay[j] \in Delays
    BY DEF TableInv, TableType
  <2>2. TaskTicks(delay[j]) \in Nat
    BY <2>1, TaskTicksType
  <2>3. TaskTicks(delay[j]) + MaxLag < HalfWrap
    BY <2>1 DEF ShortDelays
  <2> QED BY <2>2, <2>3, DelayedAssumption
<1>2. tick \in Ticks /\ SignedDistance(tick, now) = t
  BY <1>1, DistanceAhead DEF TableInv, TableType
<1>3. entry \in Entry /\ NextTaskId \in 0 .. MaxTaskId
  BY <1>2, DelayedAssumption DEF NextTaskId, Entry, TableInv, TableType
<1>4. delayed' = InsertAt(delayed, n, entry) /\ lastTaskId' = NextTaskId
      /\ GoesBehind(tick, n)
  BY DEF Insert
<1>5. /\ delayed' \in Seq(Entry) /\ Len(delayed') = Len(delayed) + 1
      /\ \A i \in 1 .. Len(delayed) + 1 :
            delayed'[i] = IF i <= n THEN delayed[i]
                          ELSE IF i = n + 1 THEN entry ELSE delayed[i - 1]
  <2>1. delayed \in Seq(Entry)
    BY DEF TableInv, TableType
  <2>2. entry \in Entry /\ delayed' = InsertAt(delayed, n, entry)
    BY <1>3, <1>4
  <2> HIDE DEF entry
  <2> QED BY <2>1, <2>2, InsertInTable
<1>6. \A i \in 1 .. Len(delayed) :
         /\ IsDue(tick, delayed[i].due) <=> t <= Left(i)
         /\ tick = delayed[i].due <=> t = Left(i)
         /\ Left(i) \in Int
  <2> SUFFICES ASSUME NEW i \in 1 .. Len(delayed)
               PROVE  /\ IsDue(tick, delayed[i].due) <=> t <= Left(i)
                      /\ tick = delayed[i].due <=> t = Left(i)
                      /\ Left(i) \in Int
    OBVIOUS
  <2>1. delayed[i].due \in Ticks /\ now \in Ticks
    <3>1. delayed[i] \in Entry
      BY DEF TableInv, TableType
    <3> QED BY <3>1 DEF Entry, TableInv, TableType
  <2>2. Left(i) \in Int /\ -MaxLag <= Left(i) /\ Left(i) < HalfWrap - MaxLag
    BY <2>1, DistanceType DEF Left, TableInv, LeftIsShort
  <2>3. t - Left(i) < HalfWrap /\ Left(i) - t < HalfWrap
    BY <1>1, <2>2, DelayedAssumption
  <2> QED BY <1>2, <2>1, <2>2, <2>3, DistanceCompares DEF Left
<1>7. PICK first \in 0 .. n :
         /\ \A i \in 1 .. first : ~IsDue(tick, delayed[i].due)
         /\ first < Len(delayed) => IsDue(tick, delayed[first + 1].due)
         /\ \A i \in first + 1 .. n : delayed[i].due = tick
         /\ n < Len(delayed) => delayed[n + 1].due # tick
  BY <1>4 DEF GoesBehind
<1> HIDE DEF t, tick
<1>8. \A i \in 1 .. n : Left(i) <= t
  BY <1>1, <1>6, <1>7
<1>9. \A i \in n + 1 .. Len(delayed) : t < Left(i)
  <2>1. ASSUME n < Len(delayed) PROVE t < Left(n + 1)
    <3>1. CASE first = n
      BY <1>1, <1>6, <1>7, <2>1, <3>1
    <3>2. CASE first < n
      <4>1. Left(n) = t /\ Left(n) <= Left(n + 1)
        BY <1>6, <1>7, <2>1, <3>2 DEF TableInv, LeftIsSorted
      <4> QED BY <1>1, <1>6, <1>7, <2>1, <4>1
    <3> QED BY <3>1, <3>2
  <2>2. \A i \in n + 1 .. Len(delayed) : Left(n + 1) <= Left(i)
    BY <1>6 DEF TableInv, LeftIsSorted
  <2> QED BY <1>1, <1>6, <2>1, <2>2
<1>10. \A i \in n + 1 .. Len(delayed) : delayed'[i + 1] = delayed[i]
  BY <1>5
<1>11. (\A i \in 1 .. n : delayed'[i] = delayed[i]) /\ delayed'[n + 1] = entry
  BY <1>5
<1> QED BY <1>2, <1>3, <1>4, <1>5, <1>8, <1>9, <1>10, <1>11 DEF t, tick

\* An insertion keeps the table short and in order.
LEMMA InsertKeepsInv ==
    ASSUME ShortDelays, TableInv, NEW j \in Jobs, NEW n \in 0 .. Len(delayed),
           Insert(j, n), UNCHANGED <<now, due, delay>>
    PROVE  TableInv'
<1> DEFINE t == TaskTicks(delay[j])
<1>1. /\ delayed' \in Seq(Entry) /\ lastTaskId' \in 0 .. MaxTaskId
      /\ Len(delayed') = Len(delayed) + 1 /\ Len(delayed) \in Nat
      /\ \A i \in 1 .. n : delayed'[i] = delayed[i]
      /\ SignedDistance(delayed'[n + 1].due, now) = t
      /\ \A i \in n + 1 .. Len(delayed) : delayed'[i + 1] = delayed[i]
      /\ \A i \in 1 .. n : Left(i) <= t
      /\ \A i \in n + 1 .. Len(delayed) : t < Left(i)
  BY InsertFact DEF TableInv, TableType
<1>2. t \in Nat /\ t + MaxLag < HalfWrap
  <2>1. delay[j] \in Delays
    BY DEF TableInv, TableType
  <2>2. t \in Nat
    BY <2>1, TaskTicksType
  <2>3. t + MaxLag < HalfWrap
    BY <2>1 DEF ShortDelays
  <2> QED BY <2>2, <2>3
<1>3. \A i \in 1 .. Len(delayed) : Left(i) \in Int
  <2> SUFFICES ASSUME NEW i \in 1 .. Len(delayed) PROVE Left(i) \in Int
    OBVIOUS
  <2>1. delayed[i] \in Entry /\ now \in Ticks
    BY DEF TableInv, TableType
  <2> QED BY <2>1, DistanceType DEF Left, Entry
<1>4. /\ \A i \in 1 .. n : Left(i)' = Left(i)
      /\ Left(n + 1)' = t
      /\ \A i \in n + 1 .. Len(delayed) : Left(i + 1)' = Left(i)
  BY <1>1 DEF Left
<1> HIDE DEF t
<1>5. TableType'
  BY <1>1 DEF TableInv, TableType
<1>6. \A i \in 1 .. Len(delayed') :
         \/ i \in 1 .. n /\ Left(i)' = Left(i)
         \/ i = n + 1 /\ Left(i)' = t
         \/ i - 1 \in n + 1 .. Len(delayed) /\ Left(i)' = Left(i - 1)
  <2> SUFFICES ASSUME NEW i \in 1 .. Len(delayed')
               PROVE  \/ i \in 1 .. n /\ Left(i)' = Left(i)
                      \/ i = n + 1 /\ Left(i)' = t
                      \/ i - 1 \in n + 1 .. Len(delayed) /\ Left(i)' = Left(i - 1)
    OBVIOUS
  <2>1. CASE i <= n
    BY <1>1, <1>4, <2>1
  <2>2. CASE i = n + 1
    BY <1>4, <2>2
  <2>3. CASE i > n + 1
    <3>1. i - 1 \in n + 1 .. Len(delayed) /\ (i - 1) + 1 = i
      BY <1>1, <2>3
    <3> QED BY <1>4, <3>1
  <2> QED BY <2>1, <2>2, <2>3
<1>7. LeftIsShort'
  <2> SUFFICES ASSUME NEW i \in 1 .. Len(delayed')
               PROVE  -MaxLag <= Left(i)' /\ Left(i)' < HalfWrap - MaxLag
    BY DEF LeftIsShort
  <2> QED BY <1>1, <1>2, <1>6, DelayedAssumption DEF TableInv, LeftIsShort
<1>8. LeftIsSorted'
  <2> SUFFICES ASSUME NEW i \in 1 .. Len(delayed'), NEW k \in 1 .. Len(delayed'),
                      i < k
               PROVE  Left(i)' <= Left(k)'
    BY DEF LeftIsSorted
  <2>1. CASE k <= n
    BY <1>1, <1>6, <2>1 DEF TableInv, LeftIsSorted
  <2>2. CASE k = n + 1
    BY <1>1, <1>6, <2>2
  <2>3. CASE k > n + 1
    <3>1. k - 1 \in n + 1 .. Len(delayed) /\ Left(k)' = Left(k - 1)
      BY <1>1, <1>6, <2>3
    <3>2. CASE i = n + 1
      BY <1>1, <1>2, <1>3, <1>6, <3>1, <3>2
    <3>3. CASE i <= n
      <4>1. Left(i)' = Left(i) /\ i \in 1 .. Len(delayed) /\ i < k - 1
        BY <1>1, <1>6, <3>1, <3>3
      <4> QED BY <3>1, <4>1 DEF TableInv, LeftIsSorted
    <3>4. CASE i > n + 1
      <4>1. /\ Left(i)' = Left(i - 1) /\ i - 1 \in 1 .. Len(delayed)
            /\ i - 1 < k - 1
        BY <1>1, <1>6, <3>1, <3>4
      <4> QED BY <3>1, <4>1 DEF TableInv, LeftIsSorted
    <3> QED BY <3>2, <3>3, <3>4
  <2> QED BY <2>1, <2>2, <2>3
<1> QED BY <1>5, <1>7, <1>8 DEF TableInv

\* A removal keeps it too.
LEMMA RemoveKeepsInv ==
    ASSUME TableInv, NEW n \in 1 .. Len(delayed),
           delayed' = RemoveAt(delayed, n),
           UNCHANGED <<now, lastTaskId, due, delay>>
    PROVE  /\ TableInv'
           /\ Len(delayed') = Len(delayed) - 1
           /\ \A i \in 1 .. Len(delayed) - 1 :
                 delayed'[i] = IF i < n THEN delayed[i] ELSE delayed[i + 1]
<1>1. /\ delayed' \in Seq(Entry)
      /\ Len(delayed') = Len(delayed) - 1 /\ Len(delayed) \in Nat
      /\ \A i \in 1 .. Len(delayed) - 1 :
            delayed'[i] = IF i < n THEN delayed[i] ELSE delayed[i + 1]
  <2>1. delayed \in Seq(Entry)
    BY DEF TableInv, TableType
  <2>2. /\ RemoveAt(delayed, n) \in Seq(Entry)
        /\ Len(RemoveAt(delayed, n)) = Len(delayed) - 1
        /\ \A i \in 1 .. Len(delayed) - 1 :
              RemoveAt(delayed, n)[i] = IF i < n THEN delayed[i] ELSE delayed[i + 1]
    BY <2>1, RemoveAtFact
  <2> QED BY <2>1, <2>2
<1>2. \A i \in 1 .. Len(delayed') :
         Left(i)' = IF i < n THEN Left(i) ELSE Left(i + 1)
  BY <1>1 DEF Left
<1>3. TableType'
  BY <1>1 DEF TableInv, TableType
<1>4. LeftIsShort'
  <2> SUFFICES ASSUME NEW i \in 1 .. Len(delayed')
               PROVE  -MaxLag <= Left(i)' /\ Left(i)' < HalfWrap - MaxLag
    BY DEF LeftIsShort
  <2>1. LeftIsShort
    BY DEF TableInv
  <2>2. CASE i < n
    <3>1. Left(i)' = Left(i) /\ i \in 1 .. Len(delayed)
      BY <1>1, <1>2, <2>2
    <3> QED BY <2>1, <3>1 DEF LeftIsShort
  <2>3. CASE ~(i < n)
    <3>1. Left(i)' = Left(i + 1) /\ i + 1 \in 1 .. Len(delayed)
      BY <1>1, <1>2, <2>3
    <3> QED BY <2>1, <3>1 DEF LeftIsShort
  <2> QED BY <2>2, <2>3
<1>5. LeftIsSorted'
  <2> SUFFICES ASSUME NEW i \in 1 .. Len(delayed'), NEW k \in 1 .. Len(delayed'),
                      i < k
               PROVE  Left(i)' <= Left(k)'
    BY DEF LeftIsSorted
  <2> DEFINE old(x) == IF x < n THEN x ELSE x + 1
  <2>1. /\ Left(i)' = Left(old(i)) /\ Left(k)' = Left(old(k))
        /\ old(i) \in 1 .. Len(delayed) /\ old(k) \in 1 .. Len(delayed)
        /\ old(i) < old(k)
    BY <1>1, <1>2
  <2>2. LeftIsSorted
    BY DEF TableInv
  <2> HIDE DEF old
  <2> QED BY <2>1, <2>2 DEF LeftIsSorted
<1> QED BY <1>1, <1>3, <1>4, <1>5 DEF TableInv

\* Taking out a prefix, the whole of it or none keeps it.
LEMMA DropKeepsInv ==
    ASSUME TableInv, NEW n \in 0 .. Len(delayed),
           delayed' = [i \in 1 .. Len(delayed) - n |-> delayed[i + n]],
           due' \in Seq(Jobs), UNCHANGED <<now, lastTaskId, delay>>
    PROVE  TableInv' /\ Len(delayed') = Len(delayed) - n
<1>1. Len(delayed) - n \in Nat /\ Len(delayed) \in Nat
  BY DEF TableInv, TableType
<1>2. delayed' \in [1 .. Len(delayed) - n -> Entry]
  BY <1>1 DEF TableInv, TableType
<1>3. /\ delayed' \in Seq(Entry) /\ Len(delayed') = Len(delayed) - n
      /\ \A i \in 1 .. Len(delayed) - n : delayed'[i] = delayed[i + n]
  BY <1>1, <1>2, FunctionIsSequence
<1>4. \A i \in 1 .. Len(delayed') : Left(i)' = Left(i + n)
  BY <1>3 DEF Left
<1>5. TableType'
  BY <1>3 DEF TableInv, TableType
<1>6. LeftIsShort'
  <2> SUFFICES ASSUME NEW i \in 1 .. Len(delayed')
               PROVE  -MaxLag <= Left(i)' /\ Left(i)' < HalfWrap - MaxLag
    BY DEF LeftIsShort
  <2> QED BY <1>1, <1>3, <1>4 DEF TableInv, LeftIsShort
<1>7. LeftIsSorted'
  <2> SUFFICES ASSUME NEW i \in 1 .. Len(delayed'), NEW k \in 1 .. Len(delayed'),
                      i < k
               PROVE  Left(i)' <= Left(k)'
    BY DEF LeftIsSorted
  <2> QED BY <1>1, <1>3, <1>4 DEF TableInv, LeftIsSorted
<1> QED BY <1>3, <1>5, <1>6, <1>7 DEF TableInv

\* A tick takes one from what every task has left.
LEMMA TickFact ==
    ASSUME ShortDelays, TableInv, Tick
    PROVE  TableInv' /\ \A i \in 1 .. Len(delayed) : Left(i)' = Left(i) - 1
<1>1. now' = Plus(now, 1) /\ UNCHANGED <<delayed, lastTaskId, due, delay>>
  BY DEF Tick, clientVars
<1>2. now' \in Ticks
  BY <1>1, DelayedAssumption, DistanceAhead DEF TableInv, TableType, Plus, Ticks, Wrap
<1>3. \A i \in 1 .. Len(delayed) :
         Left(i) \in Int /\ -MaxLag < Left(i) /\ Left(i)' = Left(i) - 1
  <2> SUFFICES ASSUME NEW i \in 1 .. Len(delayed)
               PROVE  Left(i) \in Int /\ -MaxLag < Left(i) /\ Left(i)' = Left(i) - 1
    OBVIOUS
  <2>1. delayed[i].due \in Ticks /\ now \in Ticks
    <3>1. delayed[i] \in Entry
      BY DEF TableInv, TableType
    <3> QED BY <3>1 DEF Entry, TableInv, TableType
  <2>2. Left(i) \in Int
    BY <2>1, DistanceType DEF Left
  <2>3. -Left(i) < MaxLag
    BY DEF Tick, Lag, Left
  <2>4. -MaxLag < Left(i) /\ -HalfWrap < Left(i)
    BY <2>2, <2>3, DelayedAssumption DEF ShortDelays
  <2> QED BY <1>1, <2>1, <2>2, <2>4, DistanceTicks DEF Left
<1>4. TableType'
  BY <1>1, <1>2 DEF TableInv, TableType
<1>5. LeftIsShort'
  <2> SUFFICES ASSUME NEW i \in 1 .. Len(delayed)
               PROVE  -MaxLag <= Left(i)' /\ Left(i)' < HalfWrap - MaxLag
    BY <1>1 DEF LeftIsShort
  <2> QED BY <1>3, DelayedAssumption DEF TableInv, LeftIsShort
<1>6. LeftIsSorted'
  <2> SUFFICES ASSUME NEW i \in 1 .. Len(delayed), NEW k \in 1 .. Len(delayed),
                      i < k
               PROVE  Left(i)' <= Left(k)'
    BY <1>1 DEF LeftIsSorted
  <2> QED BY <1>3 DEF TableInv, LeftIsSorted
<1> QED BY <1>3, <1>4, <1>5, <1>6 DEF TableInv

-----------------------------------------------------------------------------
(* Every step is a step of TimedTable, or none.                            *)

Pending == [i \in 1 .. Len(delayed) |-> [job |-> delayed[i].job, left |-> Left(i)]]

\* What the steps of TimedTable say of its two variables.
LEMMA TimedVars == Timed!vars = <<Pending, due>>
BY DEF Timed!vars, Pending, Left

LEMMA PendingLength ==
    ASSUME TableInv
    PROVE  /\ Pending \in Seq([job : Jobs, left : Int])
           /\ Len(Pending) = Len(delayed) /\ Len(delayed) \in Nat
           /\ \A i \in 1 .. Len(delayed) :
                 /\ Pending[i] = [job |-> delayed[i].job, left |-> Left(i)]
                 /\ Pending[i].job = delayed[i].job /\ Pending[i].left = Left(i)
<1>1. \A i \in 1 .. Len(delayed) : Left(i) \in Int /\ delayed[i].job \in Jobs
  <2> SUFFICES ASSUME NEW i \in 1 .. Len(delayed)
               PROVE  Left(i) \in Int /\ delayed[i].job \in Jobs
    OBVIOUS
  <2>1. delayed[i] \in Entry /\ now \in Ticks
    BY DEF TableInv, TableType
  <2> QED BY <2>1, DistanceType DEF Left, Entry
<1>2. Len(delayed) \in Nat
  BY DEF TableInv, TableType
<1>3. Pending \in [1 .. Len(delayed) -> [job : Jobs, left : Int]]
  BY <1>1 DEF Pending
<1>4. Pending \in Seq([job : Jobs, left : Int]) /\ Len(Pending) = Len(delayed)
  BY <1>2, <1>3, FunctionIsSequence
<1>5. ASSUME NEW i \in 1 .. Len(delayed)
      PROVE  /\ Pending[i] = [job |-> delayed[i].job, left |-> Left(i)]
             /\ Pending[i].job = delayed[i].job /\ Pending[i].left = Left(i)
  BY DEF Pending
<1> QED BY <1>2, <1>4, <1>5

LEMMA PostStep ==
    ASSUME ShortDelays, TableInv, NEW j \in Jobs, PostAsyncTask(j)
    PROVE  TableInv' /\ [Timed!Next]_(Timed!vars)
<1>1. UNCHANGED <<now, due, delay>>
  BY DEF PostAsyncTask
<1>2. CASE UNCHANGED <<delayed, lastTaskId>>
  <2>1. TableInv'
    BY <1>1, <1>2 DEF TableInv, TableType, LeftIsShort, LeftIsSorted, Left
  <2>2. UNCHANGED Timed!vars
    BY <1>1, <1>2 DEF Timed!vars
  <2> QED BY <2>1, <2>2
<1>3. CASE Len(delayed) < MaxDelayedTasks
           /\ \E n \in 0 .. Len(delayed) : Insert(j, n)
  <2>1. PICK n \in 0 .. Len(delayed) : Insert(j, n)
    BY <1>3
  <2>5. PICK t \in {TaskTicks(d) : d \in Delays} : t = TaskTicks(delay[j])
    BY DEF TableInv, TableType
  <2>2. TableInv'
    BY <1>1, <2>1, InsertKeepsInv
  <2>3. /\ Len(delayed') = Len(delayed) + 1
        /\ \A i \in 1 .. n : delayed'[i] = delayed[i]
        /\ delayed'[n + 1].job = j
        /\ SignedDistance(delayed'[n + 1].due, now) = t
        /\ \A i \in n + 1 .. Len(delayed) : delayed'[i + 1] = delayed[i]
        /\ \A i \in 1 .. n : Left(i) <= t
        /\ \A i \in n + 1 .. Len(delayed) : t < Left(i)
    BY <1>1, <2>1, <2>5, InsertFact
  <2>4. /\ Len(Pending) = Len(delayed) /\ Len(delayed) \in Nat
        /\ \A i \in 1 .. Len(delayed) :
              Pending[i] = [job |-> delayed[i].job, left |-> Left(i)]
    BY PendingLength
  <2>6. Pending' = [i \in 1 .. Len(delayed) + 1 |->
                      IF i <= n THEN Pending[i]
                      ELSE IF i = n + 1 THEN [job |-> j, left |-> t]
                      ELSE Pending[i - 1]]
    <3>1. ASSUME NEW i \in 1 .. Len(delayed) + 1
          PROVE  [job |-> delayed'[i].job, left |-> Left(i)'] =
                    IF i <= n THEN Pending[i]
                    ELSE IF i = n + 1 THEN [job |-> j, left |-> t]
                    ELSE Pending[i - 1]
      <4>1. CASE i <= n
        BY <1>1, <2>3, <2>4, <4>1 DEF Left
      <4>2. CASE i = n + 1
        BY <1>1, <2>3, <4>2 DEF Left
      <4>3. CASE i > n + 1
        <5>1. i - 1 \in n + 1 .. Len(delayed) /\ (i - 1) + 1 = i
          BY <2>4, <4>3
        <5>2. delayed'[i] = delayed[i - 1]
          BY <2>3, <5>1
        <5>3. Left(i)' = Left(i - 1)
          BY <1>1, <5>2 DEF Left
        <5>4. ~(i <= n) /\ i # n + 1 /\ i - 1 \in 1 .. Len(delayed)
          BY <2>4, <4>3
        <5> QED BY <2>4, <5>2, <5>3, <5>4
      <4> QED BY <4>1, <4>2, <4>3
    <3> QED BY <2>3, <3>1 DEF Pending
  <2>7. (\A i \in 1 .. n : Pending[i].left <= t)
        /\ (\A i \in n + 1 .. Len(delayed) : t < Pending[i].left)
    <3>1. \A i \in 1 .. n : i \in 1 .. Len(delayed)
      BY <2>4
    <3>2. \A i \in n + 1 .. Len(delayed) : i \in 1 .. Len(delayed)
      BY <2>4
    <3>3. \A i \in 1 .. Len(delayed) : Pending[i].left = Left(i)
      BY PendingLength
    <3> QED BY <2>3, <3>1, <3>2, <3>3
  <2>8. /\ Len(Pending) < MaxDelayedTasks
        /\ \E m \in 0 .. Len(Pending) :
              /\ \A i \in 1 .. m : Pending[i].left <= t
              /\ \A i \in m + 1 .. Len(Pending) : t < Pending[i].left
              /\ Pending' = [i \in 1 .. Len(Pending) + 1 |->
                               IF i <= m THEN Pending[i]
                               ELSE IF i = m + 1 THEN [job |-> j, left |-> t]
                               ELSE Pending[i - 1]]
        /\ UNCHANGED due
    BY <1>1, <1>3, <2>4, <2>6, <2>7
  <2>9. Timed!Post(j, t)
    BY <2>8 DEF Timed!Post, Pending, Left
  <2>10. \E job \in Jobs : \E ticks \in {TaskTicks(d) : d \in Delays} :
            Timed!Post(job, ticks)
    BY <2>5, <2>9
  <2>11. Timed!Next
    BY <2>10 DEF Timed!Next
  <2> QED BY <2>2, <2>11
<1> QED BY <1>2, <1>3 DEF PostAsyncTask

LEMMA RemoveStep ==
    ASSUME TableInv, NEW j \in Jobs, RemoveAsyncTask(j)
    PROVE  TableInv' /\ [Timed!Next]_(Timed!vars)
<1>1. UNCHANGED <<now, lastTaskId, due, delay>>
  BY DEF RemoveAsyncTask
<1>2. CASE UNCHANGED delayed
  <2>1. TableInv'
    BY <1>1, <1>2 DEF TableInv, TableType, LeftIsShort, LeftIsSorted, Left
  <2>2. UNCHANGED Timed!vars
    BY <1>1, <1>2 DEF Timed!vars
  <2> QED BY <2>1, <2>2
<1>3. CASE \E n \in 1 .. Len(delayed) : delayed' = RemoveAt(delayed, n)
  <2>1. PICK n \in 1 .. Len(delayed) : delayed' = RemoveAt(delayed, n)
    BY <1>3
  <2>2. /\ TableInv'
        /\ Len(delayed') = Len(delayed) - 1
        /\ \A i \in 1 .. Len(delayed) - 1 :
              delayed'[i] = IF i < n THEN delayed[i] ELSE delayed[i + 1]
    BY <1>1, <2>1, RemoveKeepsInv
  <2>3. /\ Len(Pending) = Len(delayed) /\ Len(delayed) \in Nat
        /\ \A i \in 1 .. Len(delayed) :
              Pending[i] = [job |-> delayed[i].job, left |-> Left(i)]
    BY PendingLength
  <2>4. Pending' = [i \in 1 .. Len(Pending) - 1 |->
                      IF i < n THEN Pending[i] ELSE Pending[i + 1]]
    <3>1. ASSUME NEW i \in 1 .. Len(delayed) - 1
          PROVE  [job |-> delayed'[i].job, left |-> Left(i)'] =
                    IF i < n THEN Pending[i] ELSE Pending[i + 1]
      <4>1. CASE i < n
        BY <1>1, <2>2, <2>3, <4>1 DEF Left
      <4>2. CASE ~(i < n)
        <5>1. i + 1 \in 1 .. Len(delayed)
          BY <2>3
        <5>2. delayed'[i] = delayed[i + 1]
          BY <2>2, <4>2, Zenon
        <5> QED BY <1>1, <2>3, <4>2, <5>1, <5>2 DEF Left
      <4> QED BY <4>1, <4>2
    <3> QED BY <2>2, <2>3, <3>1 DEF Pending
  <2>5. Timed!Remove(n)
    BY <1>1, <2>3, <2>4 DEF Timed!Remove, Pending, Left
  <2>6. n \in 1 .. Len(Pending)
    BY <2>3
  <2>7. Timed!Next
    BY <2>5, <2>6 DEF Timed!Next, Pending, Left
  <2> QED BY <2>2, <2>7
<1> QED BY <1>2, <1>3 DEF RemoveAsyncTask

LEMMA TickStep ==
    ASSUME ShortDelays, TableInv, Tick
    PROVE  TableInv' /\ [Timed!Next]_(Timed!vars)
<1>1. /\ TableInv' /\ UNCHANGED <<delayed, due>>
      /\ \A i \in 1 .. Len(delayed) : Left(i)' = Left(i) - 1
  BY TickFact DEF Tick
<1>2. /\ Len(Pending) = Len(delayed) /\ Len(delayed) \in Nat
      /\ \A i \in 1 .. Len(delayed) :
            Pending[i] = [job |-> delayed[i].job, left |-> Left(i)]
  BY PendingLength
<1>3. Pending' = [i \in 1 .. Len(Pending) |->
                    [Pending[i] EXCEPT !.left = Pending[i].left - 1]]
  <2>1. ASSUME NEW i \in 1 .. Len(delayed)
        PROVE  [job |-> delayed'[i].job, left |-> Left(i)'] =
                  [Pending[i] EXCEPT !.left = Pending[i].left - 1]
    <3>1. Pending[i] = [job |-> delayed[i].job, left |-> Left(i)]
      BY <1>2
    <3>2. Left(i)' = Left(i) - 1 /\ delayed'[i] = delayed[i]
      BY <1>1
    <3> QED BY <3>1, <3>2
  <2> QED BY <1>1, <1>2, <2>1 DEF Pending
<1>4. Timed!Tick
  BY <1>1, <1>3 DEF Timed!Tick, Pending, Left
<1> QED BY <1>1, <1>4 DEF Timed!Next

LEMMA TakeStep ==
    ASSUME TableInv, RunDueTasks
    PROVE  TableInv' /\ [Timed!Next]_(Timed!vars)
<1>1. UNCHANGED <<now, lastTaskId, delay>> /\ due = <<>>
  BY DEF RunDueTasks, clientVars
<1>2. PICK n \in 0 .. Len(delayed) :
         /\ DuePrefix(n)
         /\ due' = [i \in 1 .. n |-> delayed[i].job]
         /\ delayed' = [i \in 1 .. Len(delayed) - n |-> delayed[i + n]]
  BY DEF RunDueTasks
<1>3. /\ Pending \in Seq([job : Jobs, left : Int])
      /\ Len(Pending) = Len(delayed) /\ Len(delayed) \in Nat
      /\ \A i \in 1 .. Len(delayed) :
            Pending[i] = [job |-> delayed[i].job, left |-> Left(i)]
  BY PendingLength
<1>4. due' \in Seq(Jobs)
  <2>1. \A i \in 1 .. n : delayed[i].job \in Jobs
    <3>1. \A i \in 1 .. Len(delayed) : delayed[i] \in Entry
      BY DEF TableInv, TableType
    <3> QED BY <1>3, <3>1 DEF Entry
  <2>2. due' \in [1 .. n -> Jobs]
    BY <1>2, <2>1
  <2> QED BY <1>3, <2>2, FunctionIsSequence
<1>5. TableInv' /\ Len(delayed') = Len(delayed) - n
  BY <1>1, <1>2, <1>4, DropKeepsInv
<1>6. /\ \A i \in 1 .. n : Pending[i].left <= 0
      /\ n < Len(delayed) => ~(Pending[n + 1].left <= 0)
  <2>1. /\ \A i \in 1 .. n : Left(i) <= 0
        /\ n < Len(delayed) => ~(Left(n + 1) <= 0)
    BY <1>2 DEF DuePrefix, IsDue, Left
  <2>2. \A i \in 1 .. Len(delayed) : Pending[i].left = Left(i)
    BY PendingLength
  <2>3. /\ \A i \in 1 .. n : i \in 1 .. Len(delayed)
        /\ n < Len(delayed) => n + 1 \in 1 .. Len(delayed)
    BY <1>3
  <2> QED BY <2>1, <2>2, <2>3
<1>7. \A i \in n + 1 .. Len(Pending) : Pending[i].left > 0
  <2> SUFFICES ASSUME NEW i \in n + 1 .. Len(delayed)
               PROVE  Pending[i].left > 0
    BY <1>3
  <2>1. n + 1 \in 1 .. Len(delayed) /\ i \in 1 .. Len(delayed) /\ n < Len(delayed)
    BY <1>3
  <2>2. n + 1 = i \/ Left(n + 1) <= Left(i)
    <3>1. n + 1 = i \/ n + 1 < i
      BY <1>3
    <3> QED BY <2>1, <3>1 DEF TableInv, LeftIsSorted
  <2>3. Left(n + 1) \in Int /\ Left(i) \in Int
    <3>1. \A k \in 1 .. Len(delayed) : delayed[k] \in Entry /\ now \in Ticks
      BY DEF TableInv, TableType
    <3> QED BY <2>1, <3>1, DistanceType DEF Left, Entry
  <2>4. ~(Left(n + 1) <= 0) /\ Pending[i].left = Left(i)
    BY PendingLength, <1>6, <2>1
  <2> QED BY <2>2, <2>3, <2>4
<1>8. due' = [i \in 1 .. n |-> Pending[i].job]
  <2>1. \A i \in 1 .. n : i \in 1 .. Len(delayed)
    BY <1>3
  <2>2. \A i \in 1 .. n : delayed[i].job = Pending[i].job
    BY PendingLength, <2>1
  <2> QED BY <1>2, <2>2
<1>9. Pending' = [i \in 1 .. Len(Pending) - n |-> Pending[i + n]]
  <2>1. ASSUME NEW i \in 1 .. Len(delayed) - n
        PROVE  [job |-> delayed'[i].job, left |-> Left(i)'] = Pending[i + n]
    <3>1. i + n \in 1 .. Len(delayed)
      BY <1>3
    <3>2. delayed'[i] = delayed[i + n]
      BY <1>2, Zenon
    <3> QED BY <1>1, <1>3, <3>1, <3>2 DEF Left
  <2> QED BY <1>3, <1>5, <2>1 DEF Pending
<1>10. Timed!Take
  BY <1>1, <1>3, <1>6, <1>7, <1>8, <1>9 DEF Timed!Take, Pending, Left
<1> QED BY <1>5, <1>10 DEF Timed!Next

LEMMA RunStep ==
    ASSUME TableInv, RunTask
    PROVE  TableInv' /\ [Timed!Next]_(Timed!vars)
<1>1. UNCHANGED <<now, delayed, lastTaskId, delay>> /\ due # <<>> /\ due' = Tail(due)
  BY DEF RunTask, clientVars
<1>2. TableInv'
  BY <1>1 DEF TableInv, TableType, LeftIsShort, LeftIsSorted, Left
<1>3. Timed!Run
  BY <1>1 DEF Timed!Run
<1> QED BY <1>2, <1>3 DEF Timed!Next

LEMMA DropStep ==
    ASSUME TableInv, StopDrop
    PROVE  TableInv' /\ [Timed!Next]_(Timed!vars)
<1>1. UNCHANGED <<now, lastTaskId, due, delay>> /\ delayed' = <<>>
  BY DEF StopDrop, DropAll, clientVars
<1>2. TableInv'
  BY <1>1 DEF TableInv, TableType, LeftIsShort, LeftIsSorted
<1>3. Pending' = <<>>
  BY <1>1 DEF Pending
<1>4. Timed!DropAll
  BY <1>1, <1>3 DEF Timed!DropAll, Pending, Left
<1> QED BY <1>2, <1>4 DEF Timed!Next

\* The steps that leave the table, the clock and the tasks taken out alone.
LEMMA OtherStep ==
    ASSUME TableInv, UNCHANGED <<now, delayed, lastTaskId, due>>,
           delay' \in [Jobs -> Delays]
    PROVE  TableInv' /\ [Timed!Next]_(Timed!vars)
<1>1. TableInv'
  BY DEF TableInv, TableType, LeftIsShort, LeftIsSorted, Left
<1>2. UNCHANGED Timed!vars
  BY DEF Timed!vars
<1> QED BY <1>1, <1>2

LEMMA TableStep ==
    ASSUME ShortDelays, TableInv, [Next]_vars
    PROVE  TableInv' /\ [Timed!Next]_(Timed!vars)
<1> USE DEF clientVars, handlerVars
<1>0. delay \in [Jobs -> Delays]
  BY DEF TableInv, TableType
<1>1. ASSUME NEW j \in Jobs, BeginPost(j) PROVE TableInv' /\ [Timed!Next]_(Timed!vars)
  <2>1. delay' \in [Jobs -> Delays]
    BY <1>0, <1>1 DEF BeginPost
  <2> QED BY <1>1, <2>1, OtherStep DEF BeginPost
<1>2. ASSUME NEW j \in Jobs, PostAsyncTask(j) PROVE TableInv' /\ [Timed!Next]_(Timed!vars)
  BY <1>2, PostStep
<1>3. ASSUME NEW j \in Jobs, BeginRemove(j) PROVE TableInv' /\ [Timed!Next]_(Timed!vars)
  BY <1>0, <1>3, OtherStep DEF BeginRemove
<1>4. ASSUME NEW j \in Jobs, RemoveAsyncTask(j) PROVE TableInv' /\ [Timed!Next]_(Timed!vars)
  BY <1>4, RemoveStep
<1>5. CASE Tick
  BY <1>5, TickStep
<1>6. CASE TimerExpired
  BY <1>0, <1>6, OtherStep DEF TimerExpired
<1>7. CASE RunDueTasks
  BY <1>7, TakeStep
<1>8. CASE RunTask
  BY <1>8, RunStep
<1>9. CASE RecycleTimerMessage
  BY <1>0, <1>9, OtherStep DEF RecycleTimerMessage
<1>10. CASE StopBegin
  BY <1>0, <1>10, OtherStep DEF StopBegin
<1>11. CASE StopDrop
  BY <1>11, DropStep
<1>12. CASE StopRelease
  BY <1>0, <1>12, OtherStep DEF StopRelease
<1>13. CASE InitAgain
  BY <1>0, <1>13, OtherStep DEF InitAgain
<1>14. CASE UNCHANGED vars
  BY <1>0, <1>14, OtherStep DEF vars
<1> QED
  BY <1>1, <1>2, <1>3, <1>4, <1>5, <1>6, <1>7, <1>8, <1>9, <1>10, <1>11,
     <1>12, <1>13, <1>14 DEF Next, Poster, Loop, Owner

\* The table of the handler is a table whose clock does not wrap: no task is
\* taken out early or out of order, and none is run that was removed or
\* dropped (IsDue, PostAsyncTask, RemoveAsyncTask, RunDueTasks, Stop).
THEOREM TableImplementsTimed == ShortDelays => (Spec => ImplementsTimedTable)
<1> SUFFICES ASSUME ShortDelays PROVE Spec => Timed!Spec
  BY DEF ImplementsTimedTable
<1>1. Init => TableInv
  BY TableInit
<1>2. Init => Timed!Init
  BY DEF Init, Timed!Init
<1>3. TableInv /\ [Next]_vars => TableInv' /\ [Timed!Next]_(Timed!vars)
  BY TableStep
<1> QED BY <1>1, <1>2, <1>3, PTL DEF Spec, Timed!Spec

\* While the delays are short the comment above IsDue is right: the front of
\* the table is the task that falls due first, whatever the tick counter is.
THEOREM TableIsOrdered == ShortDelays => (Spec => []OrderedByDueTick)
<1> SUFFICES ASSUME ShortDelays PROVE Spec => []OrderedByDueTick
  OBVIOUS
<1>1. Init => TableInv
  BY TableInit
<1>2. TableInv /\ [Next]_vars => TableInv'
  BY TableStep
<1>3. TableInv => OrderedByDueTick
  BY DEF TableInv, LeftIsSorted, Left, OrderedByDueTick
<1> QED BY <1>1, <1>2, <1>3, PTL DEF Spec
-----------------------------------------------------------------------------
(* Conversions. Both round up, so a timer may be late, but by no more than *)
(* one tick is rounded to.                                                 *)

\* A quotient that is rounded up.
LEMMA CeilingFact ==
    ASSUME NEW a \in Nat, NEW b \in Nat \ {0}, NEW q, q = (a + b - 1) \div b
    PROVE  q \in Nat /\ a <= q * b /\ q * b <= a + b - 1
<1> DEFINE c == a + b - 1
<1>1. c \in Nat /\ q = c \div b
  OBVIOUS
<1> HIDE DEF c
<1>2. q \in Nat /\ q * b <= c /\ c < (q + 1) * b
  BY <1>1
<1>3. (q + 1) * b = q * b + b /\ q * b \in Nat
  BY <1>2
<1>4. q \in Nat /\ a <= q * b /\ q * b <= a + b - 1
  BY <1>2, <1>3 DEF c
<1> QED BY <1>4

LEMMA ProductGrows ==
    ASSUME NEW a \in Nat, NEW b \in Nat, NEW c \in Nat, a <= b
    PROVE  a * c \in Nat /\ a * c <= b * c
<1>1. PICK d \in Nat : b = a + d
  <2>1. b - a \in Nat /\ b = a + (b - a)
    OBVIOUS
  <2> QED BY <2>1
<1>2. b * c = a * c + d * c /\ d * c \in Nat /\ a * c \in Nat
  BY <1>1
<1> QED BY <1>2

\* What the kernel counts for the milliseconds of n ticks.
LEMMA TimerIsNotLate ==
    ASSUME NEW n \in Nat \ {0}
    PROVE  /\ TelOsTimerStart(TicksToMs(n)) \in Nat
           /\ TelOsTimerStart(TicksToMs(n)) <= n + Rounding
           /\ Rounding \in Nat
<1>0. /\ HalfWrap \in Nat /\ HalfWrap > 0 /\ TickFreq \in Nat
      /\ Wrap = 2 * HalfWrap /\ Wrap \in Nat /\ Wrap - 2 \in Nat
  BY DelayedAssumption DEF Wrap
<1>1. CASE TickFreq = 0
  BY <1>0, <1>1 DEF Rounding, TelOsTimerStart, TelOsMsToTicks, TicksToMs, AtLeastOne
<1>2. CASE TickFreq # 0
  \* TicksToMs is m, and TelOsTimerStart of that is r.
  <2> DEFINE F == TickFreq
             W == Wrap - 2
             q(x) == (x * 1000 + F - 1) \div F
             m(x) == AtMost(q(x), W)
             p(x) == (m(x) * F + 999) \div 1000
             r(x) == AtLeastOne(AtMost(p(x), W))
  <2>1. F \in Nat \ {0} /\ W \in Nat
    BY <1>0, <1>2
  <2>2. ASSUME NEW x \in Nat
        PROVE  TelOsTimerStart(TicksToMs(x)) = r(x)
    <3>1. TicksToMs(x) = m(x)
      BY <1>2 DEF TicksToMs
    <3>2. m(x) # Wrap - 1
      <4>1. q(x) \in Nat
        <5> DEFINE y == x * 1000
        <5>1. y \in Nat /\ q(x) = (y + F - 1) \div F
          OBVIOUS
        <5> HIDE DEF y, q, F
        <5> QED BY <2>1, <5>1, CeilingFact
      <4> HIDE DEF q
      <4> QED BY <4>1, <1>0 DEF AtMost
    <3> QED BY <1>2, <3>1, <3>2 DEF TelOsTimerStart, TelOsMsToTicks
  <2> HIDE DEF F, W
  <2>3. ASSUME NEW x \in Nat
        PROVE  /\ q(x) \in Nat /\ x * 1000 <= q(x) * F /\ q(x) * F \in Nat
               /\ q(x) * F <= x * 1000 + F - 1
               /\ m(x) \in Nat /\ m(x) <= q(x) /\ m(x) <= W
               /\ (m(x) = q(x) \/ m(x) = W) /\ m(x) * F \in Nat
               /\ m(x) * F <= q(x) * F
               /\ p(x) \in Nat /\ m(x) * F <= p(x) * 1000
               /\ p(x) * 1000 <= m(x) * F + 999
    <3>1. /\ q(x) \in Nat /\ x * 1000 <= q(x) * F
          /\ q(x) * F <= x * 1000 + F - 1
      <4> DEFINE y == x * 1000
      <4>1. y \in Nat /\ q(x) = (y + F - 1) \div F
        OBVIOUS
      <4> HIDE DEF y, q
      <4>2. q(x) \in Nat /\ y <= q(x) * F /\ q(x) * F <= y + F - 1
        BY <2>1, <4>1, CeilingFact
      <4> QED BY <4>2 DEF y
    <3> HIDE DEF q
    <3>2. m(x) \in Nat /\ m(x) <= q(x) /\ m(x) <= W /\ (m(x) = q(x) \/ m(x) = W)
      BY <2>1, <3>1 DEF AtMost
    <3>3. q(x) * F \in Nat
      BY <2>1, <3>1
    <3> HIDE DEF m
    <3>4. m(x) * F \in Nat /\ m(x) * F <= q(x) * F
      BY <2>1, <3>1, <3>2, ProductGrows
    <3>5. /\ p(x) \in Nat /\ m(x) * F <= p(x) * 1000
          /\ p(x) * 1000 <= m(x) * F + 999
      <4> DEFINE y == m(x) * F
      <4>1. y \in Nat
        BY <3>4
      <4> HIDE DEF y
      <4>2. LET z == (y + 999) \div 1000
            IN  z \in Nat /\ y <= z * 1000 /\ z * 1000 <= y + 999
        BY <4>1
      <4> QED BY <4>2 DEF y
    <3> HIDE DEF p
    <3> QED BY <3>1, <3>2, <3>3, <3>4, <3>5
  <2>4. q(1) >= 1
    BY <2>1, <2>3
  <2>5. ASSUME NEW x \in Nat
        PROVE  p(x) \in Nat
    <3>1. m(x) * F \in Nat
      BY <2>3
    <3> DEFINE y == m(x) * F
    <3> HIDE DEF y, m
    <3>2. y \in Nat
      BY <3>1 DEF y
    <3>3. (y + 999) \div 1000 \in Nat
      BY <3>2
    <3> QED BY <3>3 DEF y
  <2>6. ASSUME NEW x \in Nat
        PROVE  m(x) \in Nat /\ m(x) <= W
    <3>1. q(x) \in Nat
      BY <2>3
    <3> HIDE DEF q
    <3> QED BY <2>1, <3>1 DEF AtMost
  <2> HIDE DEF q, m, p
  <2>7. ASSUME NEW x \in Nat
        PROVE  r(x) \in Nat /\ r(x) >= 1 /\ r(x) <= p(x) + 1
               /\ (p(x) <= W => r(x) >= p(x))
               /\ (r(x) <= p(x) \/ r(x) = 1)
               /\ (r(x) <= W \/ r(x) = 1)
               /\ (~(p(x) <= W) => r(x) >= W)
    <3>1. p(x) \in Nat
      BY <2>5
    <3> QED BY <2>1, <3>1 DEF AtMost, AtLeastOne
  <2> HIDE DEF r
  <2>8. /\ Rounding = r(1) /\ TelOsTimerStart(TicksToMs(n)) = r(n)
    BY <2>2 DEF Rounding
  <2>9. /\ r(1) \in Nat /\ r(n) \in Nat /\ r(1) >= 1 /\ n >= 1
    BY <2>7
  <2>10. CASE m(1) = q(1) /\ p(1) <= W
    <3>1. p(n) * 1000 <= n * 1000 + F + 998
      BY <2>1, <2>3
    <3>2. F <= p(1) * 1000
      <4>1. 1 * F <= q(1) * F
        <5>1. 1 <= q(1) /\ q(1) \in Nat
          BY <2>3, <2>4
        <5> QED BY <2>1, <5>1, ProductGrows
      <4>2. m(1) * F <= p(1) * 1000 /\ m(1) * F = q(1) * F
        BY <2>3, <2>10
      <4>3. 1 * F = F /\ p(1) \in Nat
        BY <2>1, <2>5
      <4> QED BY <2>1, <2>3, <4>1, <4>2, <4>3
    <3>3. p(n) <= n + p(1)
      <4>1. p(n) \in Nat /\ p(1) \in Nat /\ F \in Nat
        BY <2>1, <2>5
      <4> QED BY <3>1, <3>2, <4>1
    <3>4. r(1) >= p(1) /\ (r(n) <= p(n) \/ r(n) = 1) /\ p(n) \in Nat /\ p(1) \in Nat
      BY <2>7, <2>10, <2>5
    <3>5. r(n) <= n + r(1)
      BY <2>9, <3>3, <3>4
    <3> QED BY <2>8, <2>9, <3>5
  <2>11. CASE ~(p(1) <= W)
    <3>1. r(1) >= W /\ (r(n) <= W \/ r(n) = 1)
      BY <2>7, <2>11
    <3> QED BY <2>1, <2>8, <2>9, <3>1
  <2>12. CASE m(1) = W /\ p(1) <= W
    <3>1. m(n) * F <= m(1) * F
      <4>1. m(n) <= m(1) /\ m(n) \in Nat /\ m(1) \in Nat
        BY <2>12, <2>6
      <4> QED BY <2>1, <4>1, ProductGrows
    <3>2. p(n) <= p(1)
      <4>1. /\ p(n) * 1000 <= m(n) * F + 999 /\ m(1) * F <= p(1) * 1000
            /\ p(n) \in Nat /\ p(1) \in Nat /\ m(n) * F \in Nat /\ m(1) * F \in Nat
        BY <2>3
      <4> QED BY <3>1, <4>1
    <3>3. r(1) >= p(1) /\ (r(n) <= p(n) \/ r(n) = 1) /\ p(n) \in Nat /\ p(1) \in Nat
      BY <2>7, <2>12, <2>5
    <3> QED BY <2>8, <2>9, <3>2, <3>3
  <2> QED BY <2>3, <2>10, <2>11, <2>12
<1> QED BY <1>1, <1>2

-----------------------------------------------------------------------------
(***************************************************************************)
(* The timer, in a handler that is not stopped.                            *)
(***************************************************************************)
WatchInv ==
    /\ state = "RUNNING" /\ owner = "idle"
    /\ timer \in Nat \cup {Stopped}
    /\ TimerWatches

\* The timer counts, and expires in time for the first entry.
Watched ==
    /\ timer \in Nat
    /\ timer <= Rounding \/ timer <= Left(1) + Rounding

\* ArmTimerLocked starts it so, or leaves it stopped for an empty table.
LEMMA ArmedInTime ==
    ASSUME TableInv, TableInv', now' = now, ArmTimer(delayed')
    PROVE  IF delayed' = <<>> THEN timer' = Stopped ELSE Watched'
<1>1. CASE delayed' = <<>>
  BY <1>1 DEF ArmTimer
<1>2. CASE delayed' # <<>>
  <2> DEFINE first == delayed'[1].due
             ahead == Minus(first, now)
             n == IF IsDue(first, now) THEN 1 ELSE ahead
  <2>1. first \in Ticks /\ now \in Ticks
    <3>1. delayed' \in Seq(Entry) /\ now \in Ticks
      BY DEF TableInv, TableType
    <3>2. delayed'[1] \in Entry
      BY <1>2, <3>1
    <3> QED BY <3>1, <3>2 DEF Entry
  <2>2. SignedDistance(first, now) = Left(1)'
    BY DEF Left
  <2> HIDE DEF first
  <2>3. /\ n \in Nat \ {0}
        /\ n = 1 \/ n = Left(1)'
    BY <2>1, <2>2, DelayedAssumption DEF IsDue, SignedDistance, Minus, Ticks, Wrap
  <2>4. timer' = TelOsTimerStart(TicksToMs(n))
    BY <1>2 DEF ArmTimer, first
  <2> HIDE DEF n
  <2>5. timer' \in Nat /\ timer' <= n + Rounding
    BY <2>3, <2>4, TimerIsNotLate
  <2>6. ASSUME n = 1 PROVE timer' <= Rounding
    <3>1. timer' = Rounding
      BY <2>4, <2>6 DEF Rounding
    <3> QED BY <2>5, <3>1
  <2>7. timer' <= Rounding \/ timer' <= Left(1)' + Rounding
    BY <2>3, <2>5, <2>6
  <2> QED BY <1>2, <2>5, <2>7 DEF Watched, Rounding
<1> QED BY <1>1, <1>2

\* A table whose first entry is watched, or which is empty, is what TimerWatches
\* asks for.
LEMMA WatchedWatches ==
    ASSUME timer \in Nat \cup {Stopped}, delayed = <<>> \/ timerQueued \/ Watched
    PROVE  TimerWatches
BY DEF TimerWatches, Watched, Left, Stopped

LEMMA WatchesWatched ==
    ASSUME WatchInv, delayed # <<>>
    PROVE  timerQueued \/ Watched
BY DEF WatchInv, TimerWatches, Watched, Left

LEMMA WatchInit == Init => WatchInv
BY DEF Init, WatchInv, TimerWatches, Stopped

\* The earliest entry changed: the timer was started for the new one.
LEMMA ArmKeepsWatch ==
    ASSUME TableInv, TableInv', now' = now, ArmTimer(delayed'), WatchInv,
           UNCHANGED handlerVars
    PROVE  WatchInv'
<1>1. timer' \in Nat \cup {Stopped} /\ (delayed' = <<>> \/ Watched')
  BY ArmedInTime DEF Watched
<1>2. TimerWatches'
  BY <1>1 DEF TimerWatches, Watched, Left, Stopped
<1> QED BY <1>1, <1>2 DEF WatchInv, handlerVars

\* It did not: what was watched still is.
LEMMA SameFirstKeepsWatch ==
    ASSUME WatchInv, UNCHANGED <<handlerVars, now, timer>>,
           timerQueued => timerQueued',
           delayed' # <<>> => delayed # <<>> /\ delayed'[1] = delayed[1]
    PROVE  WatchInv'
<1>1. TimerWatches'
  BY DEF WatchInv, TimerWatches, handlerVars
<1> QED BY <1>1 DEF WatchInv, handlerVars

LEMMA PostKeepsWatch ==
    ASSUME ShortDelays, TableInv, WatchInv, NEW j \in Jobs, PostAsyncTask(j)
    PROVE  WatchInv'
<1>1. /\ UNCHANGED <<handlerVars, now, timerQueued, due, delay>>
      /\ TableInv' /\ Len(delayed) \in Nat
  <2>1. TableInv'
    BY PostStep
  <2> QED BY <2>1 DEF PostAsyncTask, TableInv, TableType
<1>2. CASE UNCHANGED <<delayed, timer>>
  BY <1>1, <1>2, SameFirstKeepsWatch
<1>3. ASSUME NEW n \in 0 .. Len(delayed), Insert(j, n)
      PROVE  WatchInv'
  <2>1. CASE n = 0
    <3>1. ArmTimer(delayed')
      BY <1>3, <2>1 DEF Insert
    <3> QED BY <1>1, <3>1, ArmKeepsWatch
  <2>2. CASE n > 0
    <3>1. timer' = timer
      BY <1>3, <2>2 DEF Insert
    <3>2. delayed'[1] = delayed[1]
      <4>1. \A i \in 1 .. n : delayed'[i] = delayed[i]
        BY <1>1, <1>3, InsertFact
      <4> QED BY <2>2, <4>1
    <3>3. delayed # <<>>
      BY <1>1, <2>2
    <3> QED BY <1>1, <3>1, <3>2, <3>3, SameFirstKeepsWatch
  <2> QED BY <1>1, <2>1, <2>2
<1> QED BY <1>2, <1>3 DEF PostAsyncTask

LEMMA RemoveKeepsWatch ==
    ASSUME TableInv, WatchInv, NEW j \in Jobs, RemoveAsyncTask(j)
    PROVE  WatchInv'
<1>1. /\ UNCHANGED <<handlerVars, now, timerQueued, lastTaskId, due, delay>>
      /\ TableInv' /\ Len(delayed) \in Nat
  <2>1. TableInv'
    BY RemoveStep
  <2> QED BY <2>1 DEF RemoveAsyncTask, TableInv, TableType
<1>2. CASE UNCHANGED <<delayed, timer>>
  BY <1>1, <1>2, SameFirstKeepsWatch
<1>3. ASSUME NEW n \in 1 .. Len(delayed), delayed' = RemoveAt(delayed, n),
             IF n = 1 THEN ArmTimer(delayed') ELSE UNCHANGED timer
      PROVE  WatchInv'
  <2>1. CASE n = 1
    BY <1>1, <1>3, <2>1, ArmKeepsWatch
  <2>2. CASE n > 1
    <3>1. /\ Len(delayed') = Len(delayed) - 1
          /\ \A i \in 1 .. Len(delayed) - 1 :
                delayed'[i] = IF i < n THEN delayed[i] ELSE delayed[i + 1]
      BY <1>1, <1>3, RemoveKeepsInv
    <3>2. delayed'[1] = delayed[1] /\ delayed # <<>>
      BY <1>1, <2>2, <3>1
    <3> QED BY <1>1, <1>3, <2>2, <3>2, SameFirstKeepsWatch
  <2> QED BY <1>1, <2>1, <2>2
<1> QED BY <1>2, <1>3 DEF RemoveAsyncTask

\* While a tick passes, the timer and the first entry come nearer together.
LEMMA TickKeepsWatch ==
    ASSUME ShortDelays, TableInv, WatchInv, Tick
    PROVE  WatchInv'
<1>1. /\ UNCHANGED <<handlerVars, delayed, timerQueued>>
      /\ timer' = IF timer > 0 THEN timer - 1 ELSE timer
      /\ timer \in Nat \cup {Stopped}
  BY DEF Tick, WatchInv
<1>2. timer' \in Nat \cup {Stopped} /\ (timer \in Nat => timer' \in Nat)
  BY <1>1 DEF Stopped
<1>3. ASSUME delayed # <<>>, Watched PROVE Watched'
  <2>1. Left(1)' = Left(1) - 1 /\ Left(1) \in Int
    <3>1. \A i \in 1 .. Len(delayed) : Left(i)' = Left(i) - 1
      BY TickFact DEF Tick
    <3>2. 1 \in 1 .. Len(delayed) /\ delayed[1] \in Entry /\ now \in Ticks
      BY <1>3 DEF TableInv, TableType
    <3> QED BY <3>1, <3>2, DistanceType DEF Left, Entry
  <2>2. Rounding \in Nat
    BY TimerIsNotLate
  <2>3. timer \in Nat /\ (timer <= Rounding \/ timer <= Left(1) + Rounding)
    BY <1>3 DEF Watched
  <2>4. timer' <= Rounding \/ timer' <= Left(1)' + Rounding
    BY <1>1, <2>1, <2>2, <2>3
  <2> QED BY <1>2, <2>3, <2>4 DEF Watched, Rounding
<1>4. delayed' = <<>> \/ timerQueued' \/ Watched'
  BY <1>1, <1>3, WatchesWatched
<1>5. TimerWatches'
  BY <1>2, <1>4 DEF TimerWatches, Watched, Left, Stopped
<1> QED BY <1>1, <1>2, <1>5 DEF WatchInv, handlerVars

LEMMA WatchStep ==
    ASSUME ShortDelays, ~MayStop, TableInv, WatchInv, [Next]_vars
    PROVE  WatchInv'
<1> USE DEF clientVars
<1>1. ASSUME NEW j \in Jobs, BeginPost(j) \/ BeginRemove(j) PROVE WatchInv'
  BY <1>1, SameFirstKeepsWatch DEF BeginPost, BeginRemove
<1>2. ASSUME NEW j \in Jobs, PostAsyncTask(j) PROVE WatchInv'
  BY <1>2, PostKeepsWatch
<1>3. ASSUME NEW j \in Jobs, RemoveAsyncTask(j) PROVE WatchInv'
  BY <1>3, RemoveKeepsWatch
<1>4. CASE Tick
  BY <1>4, TickKeepsWatch
<1>5. CASE TimerExpired
  <2>1. /\ timerQueued' /\ timer' = Stopped
        /\ UNCHANGED handlerVars
    BY <1>5 DEF TimerExpired, WatchInv
  <2>2. TimerWatches'
    BY <2>1 DEF TimerWatches
  <2> QED BY <2>1, <2>2 DEF WatchInv, handlerVars
<1>6. CASE RunDueTasks
  <2>1. TableInv'
    BY <1>6, TakeStep
  <2> QED BY <1>6, <2>1, ArmKeepsWatch DEF RunDueTasks
<1>7. CASE RunTask
  BY <1>7, SameFirstKeepsWatch DEF RunTask
<1>8. CASE RecycleTimerMessage \/ Owner
  BY <1>8 DEF RecycleTimerMessage, Owner, StopBegin, StopDrop, StopRelease,
              InitAgain, WatchInv
<1>9. CASE UNCHANGED vars
  BY <1>9, SameFirstKeepsWatch DEF vars
<1> QED
  BY <1>1, <1>2, <1>3, <1>4, <1>5, <1>6, <1>7, <1>8, <1>9
     DEF Next, Poster, Loop

\* While the handler is not stopped, the task that falls due next has the timer
\* message in the queue or a timer that counts and expires in time for it, late
\* only by what the two conversions round up (ArmTimerLocked).
THEOREM NextIsWatched == ShortDelays /\ ~MayStop => (Spec => []TimerWatches)
<1> SUFFICES ASSUME ShortDelays, ~MayStop PROVE Spec => []TimerWatches
  OBVIOUS
<1>1. Init => TableInv /\ WatchInv
  BY TableInit, WatchInit
<1>2. TableInv /\ WatchInv /\ [Next]_vars => TableInv' /\ WatchInv'
  BY TableStep, WatchStep
<1>3. WatchInv => TimerWatches
  BY DEF WatchInv
<1> QED BY <1>1, <1>2, <1>3, PTL DEF Spec

-----------------------------------------------------------------------------
(***************************************************************************)
(* The tasks, whatever the delays are and however often the handler is     *)
(* stopped: who waits is posted, waits once, and is named by its own id.   *)
(***************************************************************************)
Task == [id : 1 .. MaxTaskId, due : Int, job : Jobs]

JobsType ==
    /\ delayed \in Seq(Task)
    /\ due \in Seq(Jobs)
    /\ now \in Int /\ lastTaskId \in 0 .. MaxTaskId
    /\ pc \in [Jobs -> {"idle", "post", "remove"}]
    /\ delay \in [Jobs -> Delays]
    /\ taskId \in [Jobs -> 0 .. MaxTaskId]
    /\ fate \in [Jobs -> Fate]

Waits(i) == i \in 1 .. Len(delayed)
IsTaken(i) == i \in 1 .. Len(due)

WaitingIsPosted ==
    /\ \A i : Waits(i) => fate[delayed[i].job] = "posted"
    /\ \A i : IsTaken(i) => fate[due[i]] = "posted"
WaitingOnce ==
    /\ \A i, k : Waits(i) /\ Waits(k) /\ delayed[i].job = delayed[k].job => i = k
    /\ \A i, k : IsTaken(i) /\ IsTaken(k) /\ due[i] = due[k] => i = k
    /\ \A i, k : Waits(i) /\ IsTaken(k) => delayed[i].job # due[k]
IdNamesItsTask ==
    \A j \in Jobs : \A i : Waits(i) /\ taskId[j] = delayed[i].id => delayed[i].job = j
PosterHasSettled == \A j \in Jobs : pc[j] = "post" => fate[j] # "posted"

JobsInv == JobsType /\ WaitingIsPosted /\ WaitingOnce /\ IdNamesItsTask
              /\ PosterHasSettled

LEMMA JobsInit == Init => JobsInv
<1> SUFFICES ASSUME Init PROVE JobsInv
  OBVIOUS
<1>1. JobsType
  <2>1. now \in Int
    BY DelayedAssumption DEF Init, Ticks, Wrap
  <2> QED BY <2>1, DelayedAssumption DEF Init, JobsType, NoTask, Fate
<1>2. \A i : ~Waits(i) /\ ~IsTaken(i)
  BY DEF Init, Waits, IsTaken
<1> QED BY <1>1, <1>2 DEF Init, JobsInv, WaitingIsPosted, WaitingOnce,
          IdNamesItsTask, PosterHasSettled

LEMMA JobsTyped ==
    ASSUME JobsType
    PROVE  /\ Len(delayed) \in Nat /\ Len(due) \in Nat
           /\ \A i : Waits(i) => delayed[i].job \in Jobs /\ delayed[i].id \in 1 .. MaxTaskId
           /\ \A i : IsTaken(i) => due[i] \in Jobs
<1>1. ASSUME NEW i, Waits(i)
      PROVE  delayed[i].job \in Jobs /\ delayed[i].id \in 1 .. MaxTaskId
  <2>1. delayed \in Seq(Task) /\ i \in 1 .. Len(delayed)
    BY <1>1 DEF JobsType, Waits
  <2>2. delayed[i] \in Task
    BY <2>1
  <2> QED BY <2>2 DEF Task
<1>2. ASSUME NEW i, IsTaken(i) PROVE due[i] \in Jobs
  BY <1>2 DEF JobsType, IsTaken
<1> QED BY <1>1, <1>2 DEF JobsType

\* The step of a task from outside the table into it.
LEMMA InsertKeepsJobs ==
    ASSUME JobsInv, NEW j \in Jobs, pc[j] = "post", PostAsyncTask(j),
           IdIsForgotten(NextTaskId), NEW n \in 0 .. Len(delayed), Insert(j, n)
    PROVE  JobsInv'
<1> DEFINE entry == [id |-> NextTaskId, due |-> Plus(now, TaskTicks(delay[j])),
                     job |-> j]
           from(i) == IF i <= n THEN i ELSE i - 1
<1>0. JobsType /\ WaitingIsPosted /\ WaitingOnce /\ IdNamesItsTask /\ PosterHasSettled
  BY DEF JobsInv
<1>1. /\ UNCHANGED <<now, due, delay>>
      /\ pc' = [pc EXCEPT ![j] = "idle"]
      /\ taskId' = [taskId EXCEPT ![j] = NextTaskId]
      /\ fate' = [fate EXCEPT ![j] = "posted"]
      /\ lastTaskId' = NextTaskId /\ delayed' = InsertAt(delayed, n, entry)
  BY DEF PostAsyncTask, Insert
<1>2. NextTaskId \in 1 .. MaxTaskId
  BY <1>0, DelayedAssumption DEF NextTaskId, JobsType
<1>3. entry \in Task
  <2>1. TaskTicks(delay[j]) \in Nat
    BY <1>0, TaskTicksType DEF JobsType
  <2>2. Plus(now, TaskTicks(delay[j])) \in Int
    BY <1>0, <2>1, DelayedAssumption DEF JobsType, Plus, Wrap
  <2> QED BY <1>2, <2>2 DEF Task
<1>4. entry.job = j /\ entry.id = NextTaskId
  OBVIOUS
<1> HIDE DEF entry
<1>5. /\ delayed' \in Seq(Task)
      /\ Len(delayed') = Len(delayed) + 1
      /\ \A i \in 1 .. Len(delayed) + 1 :
            delayed'[i] = IF i <= n THEN delayed[i]
                          ELSE IF i = n + 1 THEN entry ELSE delayed[i - 1]
  <2>1. delayed \in Seq(Task)
    BY <1>0 DEF JobsType
  <2>2. Len(delayed) + 1 \in Nat
    BY <2>1
  <2>3. InsertAt(delayed, n, entry) \in [1 .. Len(delayed) + 1 -> Task]
    BY <1>3, <2>1 DEF InsertAt
  <2>4. /\ InsertAt(delayed, n, entry) \in Seq(Task)
        /\ Len(InsertAt(delayed, n, entry)) = Len(delayed) + 1
    BY <2>2, <2>3, FunctionIsSequence
  <2> QED BY <1>1, <2>4 DEF InsertAt
<1>6. Len(delayed) \in Nat
  BY <1>0, JobsTyped
<1>7. ASSUME NEW i, Waits(i)'
      PROVE  /\ i = n + 1 => delayed'[i] = entry
             /\ i # n + 1 => Waits(from(i)) /\ delayed'[i] = delayed[from(i)]
  <2>1. i \in 1 .. Len(delayed) + 1
    BY <1>5, <1>7 DEF Waits
  <2>2. CASE i = n + 1
    BY <1>5, <1>6, <2>1, <2>2
  <2>3. CASE i <= n
    BY <1>5, <1>6, <2>1, <2>3 DEF Waits
  <2>4. CASE i > n + 1
    BY <1>5, <1>6, <2>1, <2>4 DEF Waits
  <2> QED BY <1>6, <2>1, <2>2, <2>3, <2>4
<1>8. ASSUME NEW i, NEW k, Waits(i)', Waits(k)', i # n + 1, k # n + 1,
             from(i) = from(k)
      PROVE  i = k
  <2>1. i \in Int /\ k \in Int
    BY <1>5, <1>8 DEF Waits
  <2> QED BY <1>6, <1>8, <2>1
<1> HIDE DEF from
<1>9. fate[j] # "posted"
  BY <1>0 DEF PosterHasSettled
<1>10. /\ \A i : Waits(i) => delayed[i].job # j
       /\ \A i : IsTaken(i) => due[i] # j
  BY <1>0, <1>9 DEF WaitingIsPosted
<1>11. /\ fate'[j] = "posted" /\ pc'[j] = "idle" /\ taskId'[j] = NextTaskId
       /\ \A k \in Jobs \ {j} :
             fate'[k] = fate[k] /\ pc'[k] = pc[k] /\ taskId'[k] = taskId[k]
  BY <1>0, <1>1 DEF JobsType
<1>12. JobsType'
  BY <1>0, <1>1, <1>2, <1>5 DEF JobsType, Fate
<1>13. WaitingIsPosted'
  <2>1. ASSUME NEW i, Waits(i)' PROVE fate'[delayed'[i].job] = "posted"
    <3>1. CASE i = n + 1
      BY <1>4, <1>7, <1>11, <2>1, <3>1
    <3>2. CASE i # n + 1
      <4>1. Waits(from(i)) /\ delayed'[i] = delayed[from(i)]
        BY <1>7, <2>1, <3>2
      <4> QED BY <1>0, <1>10, <1>11, <4>1, JobsTyped DEF WaitingIsPosted
    <3> QED BY <3>1, <3>2
  <2>2. ASSUME NEW i, IsTaken(i)' PROVE fate'[due'[i]] = "posted"
    <3>1. IsTaken(i) /\ due' = due
      BY <1>1, <2>2 DEF IsTaken
    <3> QED BY <1>0, <1>10, <1>11, <3>1, JobsTyped DEF WaitingIsPosted
  <2> QED BY <2>1, <2>2 DEF WaitingIsPosted
<1>14. WaitingOnce'
  <2>1. ASSUME NEW i, NEW k, Waits(i)', Waits(k)', delayed'[i].job = delayed'[k].job
        PROVE  i = k
    <3>1. CASE i = n + 1 \/ k = n + 1
      BY <1>4, <1>7, <1>10, <2>1, <3>1
    <3>2. CASE i # n + 1 /\ k # n + 1
      <4>1. from(i) = from(k)
        BY <1>0, <1>7, <2>1, <3>2 DEF WaitingOnce
      <4> QED BY <1>8, <2>1, <3>2, <4>1
    <3> QED BY <3>1, <3>2
  <2>2. ASSUME NEW i, NEW k, Waits(i)', IsTaken(k)'
        PROVE  delayed'[i].job # due'[k]
    <3>1. IsTaken(k) /\ due' = due
      BY <1>1, <2>2 DEF IsTaken
    <3> QED BY <1>0, <1>4, <1>7, <1>10, <2>2, <3>1 DEF WaitingOnce
  <2>3. \A i, k : IsTaken(i)' /\ IsTaken(k)' /\ due'[i] = due'[k] => i = k
    BY <1>0, <1>1 DEF WaitingOnce, IsTaken
  <2> QED BY <2>1, <2>2, <2>3 DEF WaitingOnce
<1>15. IdNamesItsTask'
  <2> SUFFICES ASSUME NEW k \in Jobs, NEW i, Waits(i)', taskId'[k] = delayed'[i].id
               PROVE  delayed'[i].job = k
    BY DEF IdNamesItsTask
  <2>0. /\ \A m : Waits(m) => delayed[m].id # NextTaskId
        /\ \A m \in Jobs : taskId[m] # NextTaskId
    BY DEF IdIsForgotten, IdIsFree, Waits
  <2>1. CASE i = n + 1
    <3>1. k = j
      BY <1>4, <1>7, <1>11, <2>0, <2>1
    <3> QED BY <1>4, <1>7, <2>1, <3>1
  <2>2. CASE i # n + 1
    <3>1. Waits(from(i)) /\ delayed'[i] = delayed[from(i)]
      BY <1>7, <2>2
    <3>2. k # j
      BY <1>11, <2>0, <3>1
    <3> QED BY <1>0, <1>11, <3>1, <3>2 DEF IdNamesItsTask
  <2> QED BY <2>1, <2>2
<1>16. PosterHasSettled'
  BY <1>0, <1>11 DEF PosterHasSettled
<1> QED BY <1>12, <1>13, <1>14, <1>15, <1>16 DEF JobsInv

\* A removal takes out the task of the poster that asked for it.
LEMMA RemoveKeepsJobs ==
    ASSUME JobsInv, NEW j \in Jobs, RemoveAsyncTask(j)
    PROVE  JobsInv'
<1>0. JobsType /\ WaitingIsPosted /\ WaitingOnce /\ IdNamesItsTask /\ PosterHasSettled
  BY DEF JobsInv
<1>1. /\ UNCHANGED <<now, due, delay, lastTaskId>>
      /\ pc' = [pc EXCEPT ![j] = "idle"]
      /\ taskId' = [taskId EXCEPT ![j] = NoTask]
  BY DEF RemoveAsyncTask
<1>2. /\ pc'[j] = "idle" /\ taskId'[j] = NoTask
      /\ \A k \in Jobs \ {j} : pc'[k] = pc[k] /\ taskId'[k] = taskId[k]
      /\ pc' \in [Jobs -> {"idle", "post", "remove"}]
      /\ taskId' \in [Jobs -> 0 .. MaxTaskId]
  BY <1>0, <1>1, DelayedAssumption DEF JobsType, NoTask
<1>3. \A i : IsTaken(i)' <=> IsTaken(i)
  BY <1>1 DEF IsTaken
<1>4. CASE UNCHANGED <<delayed, fate>>
  <2>0. \A i : Waits(i)' <=> Waits(i)
    BY <1>4 DEF Waits
  <2>1. JobsType'
    BY <1>0, <1>1, <1>2, <1>4 DEF JobsType
  <2>2. WaitingIsPosted' /\ WaitingOnce'
    BY <1>0, <1>1, <1>3, <1>4, <2>0 DEF WaitingIsPosted, WaitingOnce
  <2>3. IdNamesItsTask'
    <3> SUFFICES ASSUME NEW k \in Jobs, NEW i, Waits(i), taskId'[k] = delayed[i].id
                 PROVE  delayed[i].job = k
      BY <1>4, <2>0 DEF IdNamesItsTask
    <3>1. delayed[i].id # NoTask
      BY <1>0, JobsTyped DEF NoTask
    <3> QED BY <1>0, <1>2, <3>1 DEF IdNamesItsTask
  <2>4. PosterHasSettled'
    BY <1>0, <1>2, <1>4 DEF PosterHasSettled
  <2> QED BY <2>1, <2>2, <2>3, <2>4 DEF JobsInv
<1>5. ASSUME NEW n \in 1 .. Len(delayed), delayed[n].id = taskId[j],
             delayed' = RemoveAt(delayed, n),
             fate' = [fate EXCEPT ![j] = "removed"]
      PROVE  JobsInv'
  <2> DEFINE from(i) == IF i < n THEN i ELSE i + 1
  <2>1. /\ delayed' \in Seq(Task)
        /\ Len(delayed') = Len(delayed) - 1 /\ Len(delayed) \in Nat
        /\ \A i \in 1 .. Len(delayed) - 1 :
              delayed'[i] = IF i < n THEN delayed[i] ELSE delayed[i + 1]
    <3>1. delayed \in Seq(Task)
      BY <1>0 DEF JobsType
    <3>2. /\ RemoveAt(delayed, n) \in Seq(Task)
          /\ Len(RemoveAt(delayed, n)) = Len(delayed) - 1
          /\ \A i \in 1 .. Len(delayed) - 1 :
                RemoveAt(delayed, n)[i] = IF i < n THEN delayed[i] ELSE delayed[i + 1]
      BY <1>5, <3>1, RemoveAtFact
    <3> QED BY <1>5, <3>1, <3>2
  <2>2. ASSUME NEW i, Waits(i)'
        PROVE  Waits(from(i)) /\ from(i) # n /\ delayed'[i] = delayed[from(i)]
    <3>1. i \in 1 .. Len(delayed) - 1
      BY <2>1, <2>2 DEF Waits
    <3> QED BY <2>1, <3>1 DEF Waits
  <2>3. ASSUME NEW i, NEW k, Waits(i)', Waits(k)', from(i) = from(k)
        PROVE  i = k
    <3>1. i \in Int /\ k \in Int
      BY <2>1, <2>3 DEF Waits
    <3> QED BY <2>3, <3>1
  <2> HIDE DEF from
  <2>4. Waits(n) /\ delayed[n].job = j
    BY <1>0, <1>5 DEF Waits, IdNamesItsTask
  <2>5. /\ fate'[j] = "removed"
        /\ \A k \in Jobs \ {j} : fate'[k] = fate[k]
        /\ fate' \in [Jobs -> Fate]
    BY <1>0, <1>5 DEF JobsType, Fate
  <2>6. ASSUME NEW i, Waits(i)'
        PROVE  delayed'[i].job \in Jobs \ {j} /\ delayed'[i].id # NoTask
    <3>1. delayed[from(i)].job # j
      BY <1>0, <2>2, <2>4, <2>6 DEF WaitingOnce
    <3> QED BY <1>0, <2>2, <2>6, <3>1, JobsTyped DEF NoTask
  <2>7. ASSUME NEW i, IsTaken(i)' PROVE IsTaken(i) /\ due'[i] = due[i] /\ due[i] \in Jobs \ {j}
    <3>1. IsTaken(i)
      BY <1>3, <2>7
    <3>2. due[i] # j
      BY <1>0, <2>4, <3>1 DEF WaitingOnce
    <3> QED BY <1>0, <1>1, <3>1, <3>2, JobsTyped
  <2>8. JobsType'
    BY <1>0, <1>1, <1>2, <2>1, <2>5 DEF JobsType
  <2>9. WaitingIsPosted'
    BY <1>0, <2>2, <2>5, <2>6, <2>7 DEF WaitingIsPosted
  <2>10. WaitingOnce'
    BY <1>0, <2>2, <2>3, <2>7 DEF WaitingOnce
  <2>11. IdNamesItsTask'
    <3> SUFFICES ASSUME NEW k \in Jobs, NEW i, Waits(i)', taskId'[k] = delayed'[i].id
                 PROVE  delayed'[i].job = k
      BY DEF IdNamesItsTask
    <3> QED BY <1>0, <1>2, <2>2, <2>6 DEF IdNamesItsTask
  <2>12. PosterHasSettled'
    BY <1>0, <1>2, <2>5 DEF PosterHasSettled
  <2> QED BY <2>8, <2>9, <2>10, <2>11, <2>12 DEF JobsInv
<1> QED BY <1>4, <1>5 DEF RemoveAsyncTask

\* The loop moves tasks from the front of the table to its own list.
LEMMA TakeKeepsJobs ==
    ASSUME JobsInv, RunDueTasks
    PROVE  JobsInv'
<1>0. JobsType /\ WaitingIsPosted /\ WaitingOnce /\ IdNamesItsTask /\ PosterHasSettled
  BY DEF JobsInv
<1>1. UNCHANGED <<now, lastTaskId, pc, delay, taskId, fate>>
  BY DEF RunDueTasks, clientVars
<1>2. PICK n \in 0 .. Len(delayed) :
         /\ due' = [i \in 1 .. n |-> delayed[i].job]
         /\ delayed' = [i \in 1 .. Len(delayed) - n |-> delayed[i + n]]
  BY DEF RunDueTasks
<1>3. Len(delayed) \in Nat /\ n \in Nat /\ Len(delayed) - n \in Nat
  BY <1>0, JobsTyped
<1>4. /\ due' \in Seq(Jobs) /\ Len(due') = n
  <2>1. due' \in [1 .. n -> Jobs]
    BY <1>0, <1>2, <1>3, JobsTyped DEF Waits
  <2> QED BY <1>3, <2>1, FunctionIsSequence
<1>5. /\ delayed' \in Seq(Task)
      /\ Len(delayed') = Len(delayed) - n
  <2>1. delayed' \in [1 .. Len(delayed) - n -> Task]
    <3>1. delayed \in Seq(Task)
      BY <1>0 DEF JobsType
    <3>2. \A i \in 1 .. Len(delayed) - n : delayed[i + n] \in Task
      BY <1>3, <3>1
    <3> QED BY <1>2, <3>2
  <2> QED BY <1>3, <2>1, FunctionIsSequence
<1>6. ASSUME NEW i, Waits(i)'
      PROVE  i \in Int /\ Waits(i + n) /\ i + n > n /\ delayed'[i] = delayed[i + n]
  <2>1. i \in 1 .. Len(delayed) - n
    BY <1>5, <1>6 DEF Waits
  <2> QED BY <1>2, <1>3, <2>1 DEF Waits
<1>7. ASSUME NEW i, IsTaken(i)'
      PROVE  Waits(i) /\ i <= n /\ due'[i] = delayed[i].job
  <2>1. i \in 1 .. n
    BY <1>4, <1>7 DEF IsTaken
  <2> QED BY <1>2, <1>3, <2>1 DEF Waits
<1>8. JobsType'
  BY <1>0, <1>1, <1>4, <1>5 DEF JobsType
<1>9. WaitingIsPosted'
  BY <1>0, <1>1, <1>6, <1>7 DEF WaitingIsPosted
<1>10. WaitingOnce'
  <2>1. ASSUME NEW i, NEW k, Waits(i)', Waits(k)', delayed'[i].job = delayed'[k].job
        PROVE  i = k
    <3>1. i + n = k + n
      BY <1>0, <1>6, <2>1 DEF WaitingOnce
    <3> QED BY <1>3, <1>6, <2>1, <3>1
  <2>2. ASSUME NEW i, NEW k, IsTaken(i)', IsTaken(k)', due'[i] = due'[k]
        PROVE  i = k
    BY <1>0, <1>7, <2>2 DEF WaitingOnce
  <2>3. ASSUME NEW i, NEW k, Waits(i)', IsTaken(k)', delayed'[i].job = due'[k]
        PROVE  FALSE
    <3>1. Waits(i + n) /\ i + n > n /\ delayed'[i] = delayed[i + n]
      BY <1>6, <2>3
    <3>2. Waits(k) /\ k <= n /\ due'[k] = delayed[k].job
      BY <1>7, <2>3
    <3>3. i + n = k
      BY <1>0, <2>3, <3>1, <3>2 DEF WaitingOnce
    <3>4. k \in Int
      BY <1>3, <3>2 DEF Waits
    <3> QED BY <1>3, <3>1, <3>2, <3>3, <3>4
  <2> QED BY <2>1, <2>2, <2>3 DEF WaitingOnce
<1>11. IdNamesItsTask'
  BY <1>0, <1>1, <1>6 DEF IdNamesItsTask
<1>12. PosterHasSettled'
  BY <1>0, <1>1 DEF PosterHasSettled
<1> QED BY <1>8, <1>9, <1>10, <1>11, <1>12 DEF JobsInv

LEMMA RunKeepsJobs ==
    ASSUME JobsInv, RunTask
    PROVE  JobsInv'
<1>0. JobsType /\ WaitingIsPosted /\ WaitingOnce /\ IdNamesItsTask /\ PosterHasSettled
  BY DEF JobsInv
<1>1. /\ UNCHANGED <<now, delayed, lastTaskId, pc, delay, taskId>>
      /\ due # <<>> /\ due' = Tail(due)
      /\ fate' = [fate EXCEPT ![due[1]] = "ran"]
  BY DEF RunTask, clientVars
<1>2. /\ due' \in Seq(Jobs) /\ Len(due') = Len(due) - 1 /\ IsTaken(1)
      /\ \A i \in 1 .. Len(due) - 1 : due'[i] = due[i + 1]
      /\ Len(due) \in Nat
  BY <1>0, <1>1 DEF JobsType, IsTaken
<1>3. /\ due[1] \in Jobs /\ fate'[due[1]] = "ran"
      /\ \A k \in Jobs \ {due[1]} : fate'[k] = fate[k]
      /\ fate' \in [Jobs -> Fate]
  <2>1. due[1] \in Jobs
    BY <1>0, <1>2, JobsTyped
  <2> QED BY <1>0, <1>1, <2>1 DEF JobsType, Fate
<1>4. ASSUME NEW i, Waits(i)'
      PROVE  Waits(i) /\ delayed'[i] = delayed[i] /\ delayed[i].job \in Jobs \ {due[1]}
  <2>1. Waits(i)
    BY <1>1, <1>4 DEF Waits
  <2> QED BY <1>0, <1>1, <1>2, <2>1, JobsTyped DEF WaitingOnce
<1>5. ASSUME NEW i, IsTaken(i)'
      PROVE  i \in Int /\ IsTaken(i + 1) /\ due'[i] = due[i + 1]
             /\ due'[i] \in Jobs \ {due[1]}
  <2>1. i \in 1 .. Len(due) - 1
    BY <1>2, <1>5 DEF IsTaken
  <2>2. IsTaken(i + 1) /\ i + 1 # 1 /\ due'[i] = due[i + 1]
    BY <1>2, <2>1 DEF IsTaken
  <2>3. due[i + 1] # due[1]
    BY <1>0, <1>2, <2>2 DEF WaitingOnce
  <2> QED BY <1>0, <2>1, <2>2, <2>3, JobsTyped
<1>6. JobsType'
  BY <1>0, <1>1, <1>2, <1>3 DEF JobsType
<1>7. WaitingIsPosted'
  BY <1>0, <1>3, <1>4, <1>5 DEF WaitingIsPosted
<1>8. WaitingOnce'
  <2>1. ASSUME NEW i, NEW k, IsTaken(i)', IsTaken(k)', due'[i] = due'[k]
        PROVE  i = k
    <3>1. i + 1 = k + 1
      BY <1>0, <1>5, <2>1 DEF WaitingOnce
    <3> QED BY <1>5, <2>1, <3>1
  <2> QED BY <1>0, <1>4, <1>5, <2>1 DEF WaitingOnce
<1>9. IdNamesItsTask'
  BY <1>0, <1>1, <1>4 DEF IdNamesItsTask
<1>10. PosterHasSettled'
  BY <1>0, <1>1, <1>3 DEF PosterHasSettled
<1> QED BY <1>6, <1>7, <1>8, <1>9, <1>10 DEF JobsInv

LEMMA DropKeepsJobs ==
    ASSUME JobsInv, StopDrop
    PROVE  JobsInv'
<1>0. JobsType /\ WaitingIsPosted /\ WaitingOnce /\ IdNamesItsTask /\ PosterHasSettled
  BY DEF JobsInv
<1>1. /\ UNCHANGED <<now, due, lastTaskId, pc, delay, taskId>> /\ delayed' = <<>>
      /\ fate' = [j \in Jobs |->
                     IF \E i \in 1 .. Len(delayed) : delayed[i].job = j
                     THEN "dropped" ELSE fate[j]]
  BY DEF StopDrop, DropAll, clientVars
<1>2. /\ fate' \in [Jobs -> Fate]
      /\ \A j \in Jobs : fate'[j] = fate[j] \/ fate'[j] = "dropped"
      /\ \A j \in Jobs : (\A i : Waits(i) => delayed[i].job # j) => fate'[j] = fate[j]
  BY <1>0, <1>1 DEF JobsType, Fate, Waits
<1>3. \A i : ~Waits(i)'
  BY <1>1 DEF Waits
<1>4. JobsType'
  BY <1>0, <1>1, <1>2 DEF JobsType
<1>5. WaitingIsPosted'
  <2>1. ASSUME NEW i, IsTaken(i)' PROVE fate'[due'[i]] = "posted"
    <3>1. IsTaken(i) /\ due' = due
      BY <1>1, <2>1 DEF IsTaken
    <3>2. due[i] \in Jobs /\ \A k : Waits(k) => delayed[k].job # due[i]
      BY <1>0, <3>1, JobsTyped DEF WaitingOnce
    <3>3. fate'[due[i]] = fate[due[i]]
      BY <1>2, <3>2
    <3> QED BY <1>0, <3>1, <3>3 DEF WaitingIsPosted
  <2> QED BY <1>3, <2>1 DEF WaitingIsPosted
<1>6. WaitingOnce'
  <2>1. \A i : IsTaken(i)' <=> IsTaken(i)
    BY <1>1 DEF IsTaken
  <2> QED BY <1>0, <1>1, <1>3, <2>1 DEF WaitingOnce
<1>7. IdNamesItsTask'
  BY <1>3 DEF IdNamesItsTask
<1>8. PosterHasSettled'
  BY <1>0, <1>1, <1>2 DEF PosterHasSettled
<1> QED BY <1>4, <1>5, <1>6, <1>7, <1>8 DEF JobsInv

\* The steps that leave the tasks alone.
LEMMA SameKeepsJobs ==
    ASSUME JobsInv, UNCHANGED <<delayed, due, lastTaskId, taskId, fate>>,
           now' \in Int, delay' \in [Jobs -> Delays],
           pc' \in [Jobs -> {"idle", "post", "remove"}],
           \A j \in Jobs : pc'[j] = "post" => pc[j] = "post" \/ fate[j] # "posted"
    PROVE  JobsInv'
<1>0. JobsType /\ WaitingIsPosted /\ WaitingOnce /\ IdNamesItsTask /\ PosterHasSettled
  BY DEF JobsInv
<1>1. \A i : (Waits(i)' <=> Waits(i)) /\ (IsTaken(i)' <=> IsTaken(i))
  BY DEF Waits, IsTaken
<1>2. JobsType'
  BY <1>0 DEF JobsType
<1>3. WaitingIsPosted' /\ WaitingOnce' /\ IdNamesItsTask'
  BY <1>0, <1>1 DEF WaitingIsPosted, WaitingOnce, IdNamesItsTask
<1>4. PosterHasSettled'
  BY <1>0 DEF PosterHasSettled
<1> QED BY <1>2, <1>3, <1>4 DEF JobsInv

LEMMA JobsStep ==
    ASSUME JobsInv, [Next]_vars
    PROVE  JobsInv'
<1> USE DEF clientVars, handlerVars
<1>0. /\ JobsType /\ now \in Int /\ delay \in [Jobs -> Delays]
      /\ pc \in [Jobs -> {"idle", "post", "remove"}]
  BY DEF JobsInv, JobsType
<1>1. ASSUME NEW j \in Jobs, BeginPost(j) PROVE JobsInv'
  <2>1. /\ delay' \in [Jobs -> Delays] /\ pc' \in [Jobs -> {"idle", "post", "remove"}]
        /\ \A k \in Jobs : pc'[k] = "post" => pc[k] = "post" \/ fate[k] # "posted"
    BY <1>0, <1>1 DEF BeginPost, Settled
  <2> QED BY <1>0, <1>1, <2>1, SameKeepsJobs DEF BeginPost
<1>2. ASSUME NEW j \in Jobs, PostAsyncTask(j) PROVE JobsInv'
  <2>1. ASSUME UNCHANGED <<delayed, lastTaskId, taskId, fate>> PROVE JobsInv'
    <3>1. /\ UNCHANGED <<now, due, delay>> /\ pc' = [pc EXCEPT ![j] = "idle"]
      BY <1>2 DEF PostAsyncTask
    <3>2. /\ pc' \in [Jobs -> {"idle", "post", "remove"}]
          /\ \A k \in Jobs : pc'[k] = "post" => pc[k] = "post"
      BY <1>0, <3>1
    <3> QED BY <1>0, <2>1, <3>1, <3>2, SameKeepsJobs
  <2>2. pc[j] = "post"
    BY <1>2 DEF PostAsyncTask
  <2> QED BY <1>2, <2>1, <2>2, InsertKeepsJobs DEF PostAsyncTask
<1>3. ASSUME NEW j \in Jobs, BeginRemove(j) PROVE JobsInv'
  <2>1. /\ pc' \in [Jobs -> {"idle", "post", "remove"}]
        /\ \A k \in Jobs : pc'[k] = "post" => pc[k] = "post"
    BY <1>0, <1>3 DEF BeginRemove
  <2> QED BY <1>0, <1>3, <2>1, SameKeepsJobs DEF BeginRemove
<1>4. ASSUME NEW j \in Jobs, RemoveAsyncTask(j) PROVE JobsInv'
  BY <1>4, RemoveKeepsJobs
<1>5. CASE Tick
  <2>1. now' \in Int
    BY <1>0, <1>5, DelayedAssumption DEF Tick, Plus, Wrap
  <2> QED BY <1>0, <1>5, <2>1, SameKeepsJobs DEF Tick
<1>6. CASE RunDueTasks
  BY <1>6, TakeKeepsJobs
<1>7. CASE RunTask
  BY <1>7, RunKeepsJobs
<1>8. CASE StopDrop
  BY <1>8, DropKeepsJobs
<1>9. CASE TimerExpired \/ RecycleTimerMessage \/ StopBegin \/ StopRelease
           \/ InitAgain \/ UNCHANGED vars
  <2>1. UNCHANGED <<delayed, due, lastTaskId, taskId, fate, now, delay, pc>>
    BY <1>9 DEF TimerExpired, RecycleTimerMessage, StopBegin, StopRelease,
                InitAgain, vars
  <2> QED BY <1>0, <2>1, SameKeepsJobs
<1> QED
  BY <1>1, <1>2, <1>3, <1>4, <1>5, <1>6, <1>7, <1>8, <1>9
     DEF Next, Poster, Loop, Owner

\* A task that RemoveAsyncTask or Stop took out does not wait and is not run:
\* ids that are given out again, ticks that wrap and stops change nothing in
\* that, whatever the delays are.
THEOREM RemovedStay == Spec => []RemovedStaysRemoved
<1>1. JobsInv => RemovedStaysRemoved
  BY DEF JobsInv, WaitingIsPosted, RemovedStaysRemoved, Waits, IsTaken
<1> QED BY <1>1, JobsInit, JobsStep, PTL DEF Spec

-----------------------------------------------------------------------------
(***************************************************************************)
(* The types of the rest.                                                  *)
(***************************************************************************)
\* The rest of TypeOK.
HandlerType ==
    /\ state \in {"UNINIT", "RUNNING", "STOPPING"}
    /\ owner \in {"idle", "drop", "wait"}
    /\ Len(delayed) <= MaxDelayedTasks
    /\ timer \in Nat \cup {Stopped}
    /\ timerQueued \in BOOLEAN

\* ArmTimer leaves a timer that counts or one that is stopped.
LEMMA ArmedIsTimer ==
    ASSUME TableInv, TableInv', now' = now, ArmTimer(delayed')
    PROVE  timer' \in Nat \cup {Stopped}
BY ArmedInTime DEF Watched

LEMMA HandlerInit == Init => HandlerType
<1> SUFFICES ASSUME Init PROVE HandlerType
  OBVIOUS
<1>1. Len(delayed) = 0 /\ MaxDelayedTasks \in Nat
  BY DelayedAssumption DEF Init
<1>2. Len(delayed) <= MaxDelayedTasks
  BY <1>1
<1> QED BY <1>2 DEF Init, HandlerType

LEMMA HandlerStep ==
    ASSUME ShortDelays, TableInv, HandlerType, [Next]_vars
    PROVE  HandlerType'
<1> USE DEF handlerVars, clientVars
<1>0. TableInv' /\ delayed \in Seq(Entry) /\ Len(delayed) \in Nat
  BY TableStep DEF TableInv, TableType
<1>1. ASSUME UNCHANGED <<state, owner, delayed, timer, timerQueued>> PROVE HandlerType'
  BY <1>1 DEF HandlerType
<1>2. ASSUME NEW j \in Jobs, BeginPost(j) \/ BeginRemove(j) PROVE HandlerType'
  BY <1>1, <1>2 DEF BeginPost, BeginRemove
<1>3. ASSUME NEW j \in Jobs, PostAsyncTask(j) PROVE HandlerType'
  <2>1. UNCHANGED <<state, owner, now, timerQueued>>
    BY <1>3 DEF PostAsyncTask
  <2>2. CASE UNCHANGED <<delayed, timer>>
    BY <1>1, <2>1, <2>2
  <2>3. ASSUME NEW n \in 0 .. Len(delayed), Insert(j, n), Len(delayed) < MaxDelayedTasks
        PROVE  HandlerType'
    <3>1. Len(delayed') = Len(delayed) + 1
      <4>1. delayed' \in Seq(Entry)
        BY <1>0 DEF TableInv, TableType
      <4>2. PICK e : delayed' = InsertAt(delayed, n, e)
        BY <2>3 DEF Insert
      <4>3. delayed' = [i \in 1 .. Len(delayed) + 1 |-> InsertAt(delayed, n, e)[i]]
        BY <4>2 DEF InsertAt
      <4>4. DOMAIN delayed' = 1 .. Len(delayed) + 1
        BY <4>3
      <4> QED BY <1>0, <4>1, <4>4
    <3>2. timer' \in Nat \cup {Stopped}
      <4>1. ArmTimer(delayed') \/ timer' = timer
        BY <2>3 DEF Insert
      <4> QED BY <1>0, <2>1, <4>1, ArmedIsTimer DEF HandlerType
    <3>3. Len(delayed') <= MaxDelayedTasks
      BY <1>0, <2>3, <3>1, DelayedAssumption
    <3> QED BY <2>1, <3>2, <3>3 DEF HandlerType
  <2> QED BY <1>3, <2>2, <2>3 DEF PostAsyncTask
<1>4. ASSUME NEW j \in Jobs, RemoveAsyncTask(j) PROVE HandlerType'
  <2>1. UNCHANGED <<state, owner, now, timerQueued>>
    BY <1>4 DEF RemoveAsyncTask
  <2>2. CASE UNCHANGED <<delayed, timer>>
    BY <1>1, <2>1, <2>2
  <2>3. ASSUME NEW n \in 1 .. Len(delayed), delayed' = RemoveAt(delayed, n),
               IF n = 1 THEN ArmTimer(delayed') ELSE UNCHANGED timer
        PROVE  HandlerType'
    <3>1. Len(delayed') = Len(delayed) - 1
      BY <1>0, <2>3, RemoveAtFact
    <3>2. timer' \in Nat \cup {Stopped}
      BY <1>0, <2>1, <2>3, ArmedIsTimer DEF HandlerType
    <3>3. Len(delayed') <= MaxDelayedTasks
      BY <1>0, <3>1, DelayedAssumption DEF HandlerType
    <3> QED BY <2>1, <3>2, <3>3 DEF HandlerType
  <2> QED BY <1>4, <2>2, <2>3 DEF RemoveAsyncTask
<1>5. CASE Tick
  <2>1. timer' \in Nat \cup {Stopped}
    BY <1>5 DEF Tick, HandlerType, Stopped
  <2> QED BY <1>5, <2>1 DEF Tick, HandlerType
<1>6. CASE TimerExpired
  BY <1>6 DEF TimerExpired, HandlerType
<1>7. CASE RunDueTasks
  <2>1. timer' \in Nat \cup {Stopped} /\ timerQueued' = FALSE
        /\ UNCHANGED <<state, owner>>
    BY <1>0, <1>7, ArmedIsTimer DEF RunDueTasks
  <2>2. PICK n \in 0 .. Len(delayed) :
           delayed' = [i \in 1 .. Len(delayed) - n |-> delayed[i + n]]
    BY <1>7 DEF RunDueTasks
  <2>3. delayed' \in Seq(Entry) /\ DOMAIN delayed' = 1 .. Len(delayed) - n
    BY <1>0, <2>2 DEF TableInv, TableType
  <2>4. Len(delayed') = Len(delayed) - n
    BY <1>0, <2>3
  <2>5. Len(delayed') <= MaxDelayedTasks
    BY <1>0, <2>4, DelayedAssumption DEF HandlerType
  <2> QED BY <2>1, <2>5 DEF HandlerType
<1>8. CASE RunTask
  BY <1>1, <1>8 DEF RunTask
<1>9. CASE RecycleTimerMessage
  BY <1>9 DEF RecycleTimerMessage, HandlerType
<1>10. CASE StopBegin \/ StopRelease \/ InitAgain
  BY <1>10 DEF StopBegin, StopRelease, InitAgain, HandlerType
<1>11. CASE StopDrop
  <2>1. delayed' = <<>> /\ Len(delayed') = 0
    BY <1>11 DEF StopDrop, DropAll
  <2> QED BY <1>11, <2>1, DelayedAssumption DEF StopDrop, HandlerType
<1>12. CASE UNCHANGED vars
  BY <1>1, <1>12 DEF vars
<1> QED BY <1>2, <1>3, <1>4, <1>5, <1>6, <1>7, <1>8, <1>9, <1>10, <1>11, <1>12
       DEF Next, Poster, Loop, Owner

\* Everything the run checks of the table.
TypedInv == TableInv /\ JobsInv /\ HandlerType

LEMMA TypedInit == ShortDelays /\ Init => TypedInv
BY TableInit, JobsInit, HandlerInit DEF TypedInv

LEMMA TypedStep == ShortDelays /\ TypedInv /\ [Next]_vars => TypedInv'
BY TableStep, JobsStep, HandlerStep DEF TypedInv

LEMMA TypedIsTyped == TypedInv => TypeOK
BY DEF TypedInv, TableInv, TableType, JobsInv, JobsType, HandlerType, Entry, TypeOK

\* The variables of the delayed table have their types.
THEOREM TableTyped == ShortDelays => (Spec => []TypeOK)
<1> SUFFICES ASSUME ShortDelays PROVE Spec => []TypeOK
  OBVIOUS
<1>1. Init => TypedInv
  BY TypedInit
<1>2. TypedInv /\ [Next]_vars => TypedInv'
  BY TypedStep
<1> QED BY <1>1, <1>2, TypedIsTyped, PTL DEF Spec
=============================================================================
