------------------------- MODULE CallManagerProofs -------------------------
(***************************************************************************)
(* Theorems about the call core, for every set of slots, indexes and types, *)
(* every size of the table, every number of reserved entries and whatever   *)
(* the stack reports and the clients ask.                                   *)
(*                                                                          *)
(* Every action ends in Apply(n) with n a record that the handlers built    *)
(* out of Now.  The lemmas follow them from the helpers of the table to the *)
(* whole step: each says that a good record stays good (Good) and what of   *)
(* the table is as it was (Kept, Quiet, Alike).                             *)
(***************************************************************************)
EXTENDS CallManager, FiniteSetTheorems, WellFoundedInduction, TLAPS

\* Every set of positions that is not empty has a first one.
LEMMA LeastExists ==
    ASSUME NEW I \in SUBSET Nat, I # {}
    PROVE  \E i \in I : \A j \in I : i <= j
<1> DEFINE T == {1 .. i : i \in I}
<1>1. T \subseteq FiniteSubsetsOf(Nat) /\ T # {}
  <2>1. ASSUME NEW i \in I PROVE IsFiniteSet(1 .. i)
    BY FS_Interval
  <2>2. ASSUME NEW i \in I PROVE 1 .. i \in FiniteSubsetsOf(Nat)
    <3>1. 1 .. i \in SUBSET Nat
      OBVIOUS
    <3> QED
      BY <2>1, <3>1 DEF FiniteSubsetsOf
  <2> QED
    BY <2>2
<1>2. PICK x \in T : \A y \in T : <<y, x>> \notin StrictSubsetOrdering(Nat)
    BY <1>1, FS_StrictSubsetOrderingWellFounded, WFMin, Zenon
<1>3. PICK i \in I : x = 1 .. i
    BY <1>2
<1>4. ASSUME NEW j \in I, j < i PROVE FALSE
  <2>1. <<1 .. j, 1 .. i>> \in StrictSubsetOrdering(Nat)
    <3>1. 1 .. j \in SUBSET Nat /\ 1 .. i \in SUBSET Nat
        OBVIOUS
    <3>2. 1 .. j \subseteq 1 .. i
        BY <1>4
    <3>3. i \in 1 .. i /\ i \notin 1 .. j
        BY <1>4
    <3> QED
        BY <3>1, <3>2, <3>3 DEF StrictSubsetOrdering
  <2> QED
    BY <2>1, <1>2, <1>3
<1> QED
    BY <1>4

\* Min finds it: the lookups of CallObjectManager stop at the first match.
LEMMA MinOf ==
    ASSUME NEW I \in SUBSET Nat, I # {}
    PROVE  Min(I) \in I /\ \A j \in I : Min(I) <= j
BY LeastExists DEF Min

\* Max finds the last one, for GetOneCallObject by running state.
LEMMA MaxOf ==
    ASSUME NEW n \in Nat, NEW I \in SUBSET (1 .. n), I # {}
    PROVE  Max(I) \in I
<1> DEFINE J == {n - i : i \in I}
<1>1. J \in SUBSET Nat /\ J # {}
  <2>1. \A i \in I : i \in Nat /\ n - i \in Nat
    OBVIOUS
  <2> QED
    BY <2>1
<1>2. PICK j \in J : \A k \in J : j <= k
    BY <1>1, LeastExists
<1>3. PICK i \in I : j = n - i
    BY <1>2
<1>4. ASSUME NEW k \in I PROVE i >= k
  <2>1. n - k \in J
    OBVIOUS
  <2>2. n - i <= n - k /\ k \in 1 .. n /\ i \in 1 .. n
    BY <1>2, <1>3, <2>1
  <2> QED
    BY <2>2
<1> QED
    BY <1>4 DEF Max

\* Erasing an element of callObjectPtrList_ moves the later ones up.
LEMMA RemoveAtIs ==
    ASSUME NEW S, NEW t \in Seq(S), NEW k \in 1 .. Len(t)
    PROVE  /\ RemoveAt(t, k) \in Seq(S)
           /\ Len(RemoveAt(t, k)) = Len(t) - 1
           /\ \A i \in 1 .. Len(t) - 1 :
                 RemoveAt(t, k)[i] = IF i < k THEN t[i] ELSE t[i + 1]
<1>1. /\ SubSeq(t, 1, k - 1) \in Seq(S)
      /\ Len(SubSeq(t, 1, k - 1)) = k - 1
      /\ \A i \in 1 .. k - 1 : SubSeq(t, 1, k - 1)[i] = t[i]
    OBVIOUS
<1>2. /\ SubSeq(t, k + 1, Len(t)) \in Seq(S)
      /\ Len(SubSeq(t, k + 1, Len(t))) = Len(t) - k
      /\ \A i \in 1 .. Len(t) - k : SubSeq(t, k + 1, Len(t))[i] = t[k + i]
    OBVIOUS
<1> DEFINE a == SubSeq(t, 1, k - 1)
           b == SubSeq(t, k + 1, Len(t))
<1>3. a \in Seq(S) /\ Len(a) = k - 1 /\ \A i \in 1 .. k - 1 : a[i] = t[i]
    BY <1>1
<1>4. /\ b \in Seq(S) /\ Len(b) = Len(t) - k
      /\ \A i \in 1 .. Len(t) - k : b[i] = t[k + i]
    BY <1>2
<1>5. RemoveAt(t, k) = a \o b
    BY DEF RemoveAt
<1> HIDE DEF a, b
<1>6. a \o b \in Seq(S) /\ Len(a \o b) = Len(t) - 1
  <2>1. a \o b \in Seq(S)
    BY <1>3, <1>4
  <2>2. a \in Seq(S) /\ b \in Seq(S)
    BY <1>3, <1>4
  <2>3. Len(a \o b) = Len(a) + Len(b)
    BY <2>2
  <2>4. Len(a) + Len(b) = Len(t) - 1
    BY <1>3, <1>4
  <2> QED
    BY <2>1, <2>3, <2>4
<1>7. ASSUME NEW i \in 1 .. Len(t) - 1
      PROVE  (a \o b)[i] = IF i < k THEN t[i] ELSE t[i + 1]
  <2>1. CASE i < k
    BY <2>1, <1>3, <1>4
  <2>2. CASE ~(i < k)
    <3>1. (a \o b)[i] = b[i - (k - 1)]
      BY <2>2, <1>3, <1>4
    <3> QED
      BY <3>1, <2>2, <1>4
  <2> QED
    BY <2>1, <2>2
<1> QED
    BY <1>5, <1>6, <1>7

-----------------------------------------------------------------------------
USE DEF InitIndex, NoId

\* What the handlers take: a reported call, or the dial of one without an index.
AnyInfo == [index : Index \cup {InitIndex}, slot : Slots, state : TelStates,
          type : CallTypes]
\* The type of the record the handlers work on.
Manager ==
    [table : Seq(Call), lastCallId : Nat, dialEcc : BOOLEAN,
     pendingMo : Nat, pendingHangup : Nat, protectTask : Nat,
     ringtone : BOOLEAN, waitingTone : BOOLEAN, callAudio : BOOLEAN,
     sent : SUBSET [cmd : {"Dial", "Answer", "HangUp", "HangUpActive", "Hold",
                           "UnHold", "Switch"}, id : Nat],
     told : Seq([id : Nat, state : TelStates \cup {"ANSWERED"}]),
     call : Call \cup {NoCall}]

\* Two calls that no index of the stack confuses; an unbound call has none.
Apart(c, d) ==
    c.index = InitIndex \/ c.index # d.index \/ c.slot # d.slot

\* The table keeps to its size, ids are given out once, keys are unique, only
\* the dials made as emergency calls are marked, and a call without the mark
\* never stands in a reserved entry (AddOneCallObject).
Sound(t, last, ecc) ==
    /\ t \in Seq(Call) /\ Len(t) <= MaxCallObjects
    /\ \A i \in DOMAIN t : t[i].id <= last
    /\ \A i, j \in DOMAIN t :
          i # j => t[i].id # t[j].id /\ Apart(t[i], t[j])
    /\ \A i \in DOMAIN t : t[i].ecc => ~t[i].isIn /\ ecc
    /\ \A i \in DOMAIN t : ~t[i].ecc => i <= MaxCallObjects - EccReserved

\* The null object that a lookup returns is no call.
LEMMA CallsAreCalls ==
    /\ NoCall.id = NoId
    /\ \A c \in Call : c # NoCall /\ c.id \in Nat /\ c.id # NoId
BY DEF NoCall, Call

\* First is an element at one of the positions, or there is none.
LEMMA FirstIs ==
    ASSUME NEW t \in Seq(Call), NEW I \in SUBSET DOMAIN t
    PROVE  \/ I = {} /\ First(t, I) = NoCall
           \/ \E i \in I : First(t, I) = t[i]
<1>1. CASE I = {}
    BY <1>1 DEF First
<1>2. CASE I # {}
    <2>1. I \in SUBSET Nat
      OBVIOUS
    <2>2. Min(I) \in I
      BY <1>2, <2>1, MinOf, Zenon
    <2> QED
      BY <1>2, <2>2 DEF First
<1> QED
    BY <1>1, <1>2

\* GetOneCallObject(callId) finds a call with the id if there is one.
LEMMA CallByIdIs ==
    ASSUME NEW t \in Seq(Call), NEW id
    PROVE  /\ CallById(t, id) = NoCall => \A i \in DOMAIN t : t[i].id # id
           /\ CallById(t, id) # NoCall =>
                 \E i \in DOMAIN t : CallById(t, id) = t[i] /\ t[i].id = id
<1> DEFINE I == {i \in DOMAIN t : t[i].id = id}
<1>1. CallById(t, id) = First(t, I)
    BY DEF CallById
<1>2. \A i \in DOMAIN t : t[i] # NoCall
    BY CallsAreCalls
<1> HIDE DEF I
<1>3. I \in SUBSET DOMAIN t
    BY DEF I
<1>4. \/ I = {} /\ First(t, I) = NoCall
      \/ \E i \in I : First(t, I) = t[i]
    BY <1>3, FirstIs, Zenon
<1> QED
    BY <1>1, <1>2, <1>4 DEF I

\* GetOneCallObjectByIndex finds a call with the index if there is one.
LEMMA CallByIndexIs ==
    ASSUME NEW t \in Seq(Call), NEW index
    PROVE  /\ CallByIndex(t, index) = NoCall => \A i \in DOMAIN t : t[i].index # index
           /\ CallByIndex(t, index) # NoCall =>
                 \E i \in DOMAIN t : CallByIndex(t, index) = t[i] /\ t[i].index = index
<1> DEFINE I == {i \in DOMAIN t : t[i].index = index}
<1>1. CallByIndex(t, index) = First(t, I)
    BY DEF CallByIndex
<1>2. \A i \in DOMAIN t : t[i] # NoCall
    BY CallsAreCalls
<1> HIDE DEF I
<1>3. I \in SUBSET DOMAIN t
    BY DEF I
<1>4. \/ I = {} /\ First(t, I) = NoCall
      \/ \E i \in I : First(t, I) = t[i]
    BY <1>3, FirstIs, Zenon
<1> QED
    BY <1>1, <1>2, <1>4 DEF I

\* GetOneCallObjectByIndexAndSlotId finds a call with index and slot if there
\* is one.
LEMMA CallByKeyIs ==
    ASSUME NEW t \in Seq(Call), NEW index, NEW slot
    PROVE  /\ CallByKey(t, index, slot) = NoCall => \A i \in DOMAIN t : t[i].index # index \/ t[i].slot # slot
           /\ CallByKey(t, index, slot) # NoCall =>
                 \E i \in DOMAIN t : CallByKey(t, index, slot) = t[i] /\ t[i].index = index /\ t[i].slot = slot
<1> DEFINE I == {i \in DOMAIN t : t[i].index = index /\ t[i].slot = slot}
<1>1. CallByKey(t, index, slot) = First(t, I)
    BY DEF CallByKey
<1>2. \A i \in DOMAIN t : t[i] # NoCall
    BY CallsAreCalls
<1> HIDE DEF I
<1>3. I \in SUBSET DOMAIN t
    BY DEF I
<1>4. \/ I = {} /\ First(t, I) = NoCall
      \/ \E i \in I : First(t, I) = t[i]
    BY <1>3, FirstIs, Zenon
<1> QED
    BY <1>1, <1>2, <1>4 DEF I

\* GetOneCallObject(CallRunningState) finds a call in the state if there is one.
LEMMA CallInStateIs ==
    ASSUME NEW t \in Seq(Call), NEW run
    PROVE  /\ CallInState(t, run) = NoCall =>
                 \A i \in DOMAIN t : RunningState(t[i].tel) # run
           /\ CallInState(t, run) # NoCall =>
                 \E i \in DOMAIN t : /\ CallInState(t, run) = t[i]
                                     /\ RunningState(t[i].tel) = run
<1> DEFINE I == {i \in DOMAIN t : RunningState(t[i].tel) = run}
<1>1. CallInState(t, run) = IF I = {} THEN NoCall ELSE t[Max(I)]
    BY DEF CallInState
<1>2. \A i \in DOMAIN t : t[i] # NoCall
    BY CallsAreCalls
<1> HIDE DEF I
<1>3. I \in SUBSET (1 .. Len(t)) /\ Len(t) \in Nat
    BY DEF I
<1>4. CASE I = {}
    BY <1>1, <1>4 DEF I
<1>5. CASE I # {}
  <2>1. Max(I) \in I
    BY <1>3, <1>5, MaxOf, Zenon
  <2> QED
    BY <1>1, <1>2, <1>5, <2>1 DEF I
<1> QED
    BY <1>4, <1>5

\* DeleteOneCallObject takes one call with the id out of the list, or leaves it.
LEMMA WithoutIs ==
    ASSUME NEW t \in Seq(Call), NEW id
    PROVE  \/ /\ Without(t, id) = t
              /\ \A i \in DOMAIN t : t[i].id # id
           \/ /\ Without(t, id) \in Seq(Call)
              /\ Len(Without(t, id)) = Len(t) - 1
              /\ \E k \in DOMAIN t :
                    /\ t[k].id = id
                    /\ \A i \in 1 .. Len(t) - 1 :
                          Without(t, id)[i] = IF i < k THEN t[i] ELSE t[i + 1]
<1> DEFINE I == {i \in DOMAIN t : t[i].id = id}
<1>1. CASE I = {}
  <2>1. Without(t, id) = t
    BY <1>1 DEF Without
  <2> QED
    BY <1>1, <2>1
<1>2. CASE I # {}
  <2>1. Without(t, id) = RemoveAt(t, Min(I))
    BY <1>2 DEF Without
  <2>2. I \in SUBSET Nat
    OBVIOUS
  <2>3. Min(I) \in I
    BY <1>2, <2>2, MinOf, Zenon
  <2>4. PICK k \in I : k = Min(I)
    BY <2>3
  <2> k \in 1 .. Len(t) /\ t[k].id = id
    OBVIOUS
  <2> HIDE DEF I
  <2>5. Without(t, id) = RemoveAt(t, k)
    BY <2>1, <2>4
  <2>6. /\ RemoveAt(t, k) \in Seq(Call)
        /\ Len(RemoveAt(t, k)) = Len(t) - 1
        /\ \A i \in 1 .. Len(t) - 1 :
              RemoveAt(t, k)[i] = IF i < k THEN t[i] ELSE t[i + 1]
    BY RemoveAtIs, Zenon
  <2>7. k \in DOMAIN t
    OBVIOUS
  <2> QED
    BY <2>4, <2>5, <2>6, <2>7, Zenon
<1> QED
    BY <1>1, <1>2

-----------------------------------------------------------------------------
\* The calls of a table and its positions.
LEMMA RangeIs ==
    ASSUME NEW t \in Seq(Call)
    PROVE  /\ \A i \in DOMAIN t : t[i] \in Range(t) /\ t[i] \in Call
           /\ \A c \in Range(t) : c \in Call /\ \E i \in DOMAIN t : c = t[i]
BY DEF Range

\* AddOneCallObject keeps the table sound if the id and the key are new and
\* there is an entry for the call.
LEMMA AppendSound ==
    ASSUME NEW t, NEW last \in Nat, NEW ecc, Sound(t, last, ecc),
           NEW new \in Nat, last <= new,
           NEW c \in Call, c.id <= new,
           \A i \in DOMAIN t : t[i].id # c.id /\ Apart(c, t[i]),
           c.ecc => ~c.isIn /\ ecc,
           Admits(t, c)
    PROVE  /\ Sound(Append(t, c), new, ecc)
           /\ Range(Append(t, c)) = Range(t) \cup {c}
<1> USE CallManagerAssumption
<1>1. t \in Seq(Call) /\ Len(t) \in Nat
    BY DEF Sound
<1>2. /\ Append(t, c) \in Seq(Call)
      /\ Len(Append(t, c)) = Len(t) + 1
      /\ \A i \in 1 .. Len(t) : Append(t, c)[i] = t[i]
      /\ Append(t, c)[Len(t) + 1] = c
    BY <1>1
<1> DEFINE u == Append(t, c)
<1>3. u \in Seq(Call) /\ Len(u) = Len(t) + 1 /\ u[Len(t) + 1] = c
      /\ \A i \in 1 .. Len(t) : u[i] = t[i]
    BY <1>2
<1> HIDE DEF u
<1>4. DOMAIN t = 1 .. Len(t) /\ DOMAIN u = 1 .. Len(t) + 1
    BY <1>1, <1>3
<1>5. Len(u) <= MaxCallObjects
    BY <1>1, <1>3 DEF Admits
<1>6. \A i \in DOMAIN u : u[i].id <= new
  <2>1. ASSUME NEW i \in 1 .. Len(t) PROVE u[i].id <= new
    <3>1. t[i].id \in Nat /\ t[i].id <= last
        BY <1>1, <1>4, CallsAreCalls DEF Sound
    <3> QED
        BY <3>1, <1>3
  <2> QED
    BY <2>1, <1>3, <1>4, <1>1
<1>7. \A i, j \in DOMAIN u : i # j => u[i].id # u[j].id /\ Apart(u[i], u[j])
  <2>1. \A i, j \in 1 .. Len(t) : i # j => u[i].id # u[j].id /\ Apart(u[i], u[j])
    BY <1>3, <1>4 DEF Sound
  <2>2. \A i \in 1 .. Len(t) : /\ u[i].id # c.id
                               /\ Apart(c, u[i]) /\ Apart(u[i], c)
    BY <1>3, <1>4 DEF Apart
  <2> QED
    BY <2>1, <2>2, <1>1, <1>3, <1>4
<1>8. \A i \in DOMAIN u : u[i].ecc => ~u[i].isIn /\ ecc
  <2>1. \A i \in 1 .. Len(t) : u[i].ecc => ~u[i].isIn /\ ecc
    BY <1>3, <1>4 DEF Sound
  <2> QED
    BY <2>1, <1>1, <1>3, <1>4
<1>9. \A i \in DOMAIN u : ~u[i].ecc => i <= MaxCallObjects - EccReserved
  <2>1. \A i \in 1 .. Len(t) : ~u[i].ecc => i <= MaxCallObjects - EccReserved
    BY <1>3, <1>4 DEF Sound
  <2>2. ~c.ecc => Len(t) + 1 <= MaxCallObjects - EccReserved
    BY <1>1 DEF Admits
  <2> QED
    BY <2>1, <2>2, <1>1, <1>3, <1>4
<1>10. Range(u) = Range(t) \cup {c}
  <2>1. \A i \in DOMAIN t : i \in DOMAIN u /\ u[i] = t[i]
    BY <1>3, <1>4, <1>1
  <2>2. Len(t) + 1 \in DOMAIN u /\ u[Len(t) + 1] = c
    BY <1>1, <1>3, <1>4
  <2>3. \A i \in DOMAIN u : i \in DOMAIN t \/ i = Len(t) + 1
    BY <1>1, <1>4
  <2> QED
    BY <2>1, <2>2, <2>3 DEF Range
<1>11. Sound(u, new, ecc)
    BY <1>3, <1>5, <1>6, <1>7, <1>8, <1>9 DEF Sound
<1> QED
    BY <1>10, <1>11 DEF u

\* DeleteOneCallObject keeps it sound, and only the call with the id is gone.
LEMMA WithoutSound ==
    ASSUME NEW t, NEW last \in Nat, NEW ecc, Sound(t, last, ecc), NEW id
    PROVE  /\ Sound(Without(t, id), last, ecc)
           /\ Range(Without(t, id)) = {c \in Range(t) : c.id # id}
           /\ Len(Without(t, id)) <= Len(t)
<1> USE CallManagerAssumption
<1>1. t \in Seq(Call) /\ Len(t) \in Nat /\ DOMAIN t = 1 .. Len(t)
    BY DEF Sound
<1> DEFINE u == Without(t, id)
<1>2. CASE u = t /\ \A i \in DOMAIN t : t[i].id # id
    BY <1>1, <1>2 DEF Range
<1>3. CASE /\ u \in Seq(Call) /\ Len(u) = Len(t) - 1
           /\ \E k \in DOMAIN t :
                 /\ t[k].id = id
                 /\ \A i \in 1 .. Len(t) - 1 :
                       u[i] = IF i < k THEN t[i] ELSE t[i + 1]
  <2> HIDE DEF u
  <2>1. PICK k \in 1 .. Len(t) :
           /\ t[k].id = id
           /\ \A i \in 1 .. Len(t) - 1 : u[i] = IF i < k THEN t[i] ELSE t[i + 1]
    BY <1>1, <1>3
  <2> DEFINE f == [i \in 1 .. Len(t) - 1 |-> IF i < k THEN i ELSE i + 1]
  <2>2. \A i \in 1 .. Len(t) - 1 : /\ f[i] \in 1 .. Len(t) /\ f[i] # k
                                   /\ u[i] = t[f[i]] /\ f[i] >= i
    BY <2>1, <1>1
  <2>3. \A i, j \in 1 .. Len(t) - 1 : i # j => f[i] # f[j]
    BY <1>1
  <2>4. \A j \in 1 .. Len(t) : j # k => \E i \in 1 .. Len(t) - 1 : f[i] = j
    <3>1. ASSUME NEW j \in 1 .. Len(t), j < k PROVE \E i \in 1 .. Len(t) - 1 : f[i] = j
      BY <3>1, <1>1
    <3>2. ASSUME NEW j \in 1 .. Len(t), j > k PROVE \E i \in 1 .. Len(t) - 1 : f[i] = j
      <4>1. j - 1 \in 1 .. Len(t) - 1 /\ f[j - 1] = j
        BY <3>2, <1>1
      <4> QED
        BY <4>1
    <3> QED
      BY <3>1, <3>2, <1>1
  <2> HIDE DEF f
  <2>5. DOMAIN u = 1 .. Len(t) - 1
    BY <1>1, <1>3
  <2>6. \A j \in DOMAIN t : j # k => t[j].id # id
    BY <1>1, <2>1 DEF Sound
  <2>7. Range(u) = {c \in Range(t) : c.id # id}
    <3>1. \A i \in DOMAIN u : \E j \in DOMAIN t : u[i] = t[j] /\ t[j].id # id
      BY <2>2, <2>5, <2>6, <1>1
    <3>2. ASSUME NEW j \in DOMAIN t, t[j].id # id
          PROVE  \E i \in DOMAIN u : u[i] = t[j]
      <4>1. j \in 1 .. Len(t) /\ j # k
        BY <3>2, <2>1, <1>1
      <4> QED
        BY <4>1, <2>2, <2>4, <2>5
    <3> QED
      BY <3>1, <3>2 DEF Range
  <2>8. \A i \in DOMAIN u : u[i].id <= last
    BY <2>2, <2>5, <1>1 DEF Sound
  <2>9. \A i, j \in DOMAIN u : i # j => u[i].id # u[j].id /\ Apart(u[i], u[j])
    BY <2>2, <2>3, <2>5, <1>1 DEF Sound
  <2>10. \A i \in DOMAIN u : u[i].ecc => ~u[i].isIn /\ ecc
    BY <2>2, <2>5, <1>1 DEF Sound
  <2>11. \A i \in DOMAIN u : ~u[i].ecc => i <= MaxCallObjects - EccReserved
    <3>1. ASSUME NEW i \in DOMAIN u, ~u[i].ecc
          PROVE  i <= MaxCallObjects - EccReserved
      <4>1. f[i] <= MaxCallObjects - EccReserved
        BY <3>1, <2>2, <2>5, <1>1 DEF Sound
      <4> QED
        BY <4>1, <2>2, <2>5, <1>1
    <3> QED
      BY <3>1
  <2>12. Len(u) <= MaxCallObjects
    BY <1>1, <1>3 DEF Sound
  <2>13. Len(u) <= Len(t)
    BY <1>1, <1>3
  <2> QED
    BY <1>3, <2>7, <2>8, <2>9, <2>10, <2>11, <2>12, <2>13 DEF Sound, u
<1> QED
  <2>1. \/ u = t /\ \A i \in DOMAIN t : t[i].id # id
        \/ /\ u \in Seq(Call) /\ Len(u) = Len(t) - 1
           /\ \E k \in DOMAIN t :
                 /\ t[k].id = id
                 /\ \A i \in 1 .. Len(t) - 1 :
                       u[i] = IF i < k THEN t[i] ELSE t[i + 1]
    BY <1>1, WithoutIs, Zenon
  <2> QED
    BY <1>2, <1>3, <2>1, Zenon

\* So does a change of one call that leaves its id, mark and key.
LEMMA UpdateSound ==
    ASSUME NEW t, NEW last \in Nat, NEW ecc, Sound(t, last, ecc),
           NEW c \in Call,
           \A i \in DOMAIN t :
              t[i].id = c.id =>
                 /\ c.ecc = t[i].ecc /\ c.isIn = t[i].isIn
                 /\ \A j \in DOMAIN t : j # i => Apart(c, t[j])
    PROVE  /\ Sound(Update(t, c), last, ecc)
           /\ Range(Update(t, c)) =
                 {d \in Range(t) : d.id # c.id}
                 \cup {d \in {c} : \E x \in Range(t) : x.id = c.id}
           /\ Len(Update(t, c)) = Len(t)
<1>1. t \in Seq(Call) /\ Len(t) \in Nat /\ DOMAIN t = 1 .. Len(t)
    BY DEF Sound
<1> DEFINE u == Update(t, c)
<1>2. /\ u \in Seq(Call) /\ Len(u) = Len(t) /\ DOMAIN u = DOMAIN t
      /\ \A i \in DOMAIN t : u[i] = IF t[i].id = c.id THEN c ELSE t[i]
    BY <1>1 DEF Update
<1> HIDE DEF u
<1>3. \A i \in DOMAIN t : u[i].id = t[i].id
    BY <1>2
<1>4. \A i, j \in DOMAIN u : i # j => u[i].id # u[j].id /\ Apart(u[i], u[j])
  <2>1. \A i, j \in DOMAIN t : i # j => t[i].id # t[j].id /\ Apart(t[i], t[j])
    BY DEF Sound
  <2>2. ASSUME NEW i \in DOMAIN t, NEW j \in DOMAIN t, i # j
        PROVE  Apart(u[i], u[j])
    <3>1. CASE t[i].id = c.id
      BY <2>1, <2>2, <3>1, <1>2
    <3>2. CASE t[j].id = c.id
      BY <2>1, <2>2, <3>2, <1>2 DEF Apart
    <3>3. CASE t[i].id # c.id /\ t[j].id # c.id
      BY <2>1, <2>2, <3>3, <1>2
    <3> QED
      BY <3>1, <3>2, <3>3
  <2> QED
    BY <2>1, <2>2, <1>2, <1>3
<1>5. \A i \in DOMAIN u : u[i].id <= last
    BY <1>2, <1>3 DEF Sound
<1>6. \A i \in DOMAIN u : u[i].ecc => ~u[i].isIn /\ ecc
    BY <1>2 DEF Sound
<1>7. \A i \in DOMAIN u : ~u[i].ecc => i <= MaxCallObjects - EccReserved
    BY <1>2 DEF Sound
<1>8. Len(u) <= MaxCallObjects
    BY <1>2 DEF Sound
<1>9. Range(u) = {d \in Range(t) : d.id # c.id}
                 \cup {d \in {c} : \E x \in Range(t) : x.id = c.id}
    BY <1>2 DEF Range
<1>10. Sound(u, last, ecc)
    BY <1>2, <1>4, <1>5, <1>6, <1>7, <1>8 DEF Sound
<1> QED
    BY <1>2, <1>9, <1>10 DEF u

-----------------------------------------------------------------------------
\* A record that a handler may be given, and gives back.
Good(m) == m \in Manager /\ Sound(m.table, m.lastCallId, m.dialEcc)

\* The call object a handler holds: in the table or not, nobody else has its id.
Held(m) ==
    /\ m.call \in Call /\ m.call.id <= m.lastCallId
    /\ m.call.ecc => ~m.call.isIn /\ m.dialEcc
    /\ \A c \in Range(m.table) : c.id = m.call.id => c = m.call

\* A bound call whose key is that of a member of S.
KeyIn(S, c) ==
    c.index = InitIndex \/ \E x \in S : x.index = c.index /\ x.slot = c.slot

\* Between two records of a handler that serves info: ids and the emergency
\* mark of the last dial stand; every call is new, or was there and keeps its
\* mark; a bound call has a key that was there or the reported one; no answer is
\* sent.
Kept(m, n, info) ==
    /\ m.lastCallId <= n.lastCallId /\ n.dialEcc = m.dialEcc
    /\ \A y \in Range(n.table) :
          /\ \/ m.lastCallId < y.id
             \/ \E x \in Range(m.table) : x.id = y.id /\ (x.ecc => y.ecc)
          /\ KeyIn(Range(m.table) \cup {info}, y)
    /\ \A s \in n.sent : s.cmd = "Answer" => s \in m.sent

\* The table and the call that is held are the same.
Alike(m, n) ==
    /\ n.table = m.table /\ n.lastCallId = m.lastCallId
    /\ n.dialEcc = m.dialEcc /\ n.call = m.call

\* The tones and the call audio, and when they are off.
Tones(m) == <<m.ringtone, m.waitingTone, m.callAudio>>
Silent(m) == Tones(m) = <<FALSE, FALSE, FALSE>>

\* The pending flags and the tones are the same.
Steady(m, n) ==
    /\ n.pendingMo = m.pendingMo /\ n.pendingHangup = m.pendingHangup
    /\ Tones(n) = Tones(m)

\* The calls that wait for their index, and the ids the pending flags name.
Unbound(m) == {c \in Range(m.table) : c.index = InitIndex}
Waited(m) == {m.pendingMo, m.pendingHangup} \ {NoId}

\* A dialled call without an index is still DIALING; the pending flags name such
\* calls, and not the same one; with no call left the tones are off.
Settled(m) ==
    /\ \A c \in Unbound(m) : c.tel = "DIALING"
    /\ \A id \in Waited(m) : \E c \in Unbound(m) : c.id = id
    /\ m.pendingMo = m.pendingHangup => m.pendingMo = NoId
    /\ Range(m.table) = {} => Silent(m)

Settles(m, n) == Settled(m) => Settled(n)

\* What a handler that has the call c of m in hand leaves in n: the other calls,
\* c bound or gone and, if it was not bound before, named by no pending flag.
Touched(m, n, c) ==
    /\ {d \in Range(n.table) : d.id # c.id} = {d \in Range(m.table) : d.id # c.id}
    /\ \A d \in Range(n.table) : d.id = c.id => d.index # InitIndex
    /\ n.pendingMo \in {m.pendingMo, NoId}
    /\ n.pendingHangup \in {m.pendingHangup, NoId}
    /\ c.index = InitIndex => c.id \notin {n.pendingMo, n.pendingHangup}
    /\ Range(n.table) = {} => Silent(n)

\* The fields of the record have their types.
LEMMA ManagerFields ==
    ASSUME NEW m \in Manager
    PROVE  /\ m.table \in Seq(Call) /\ m.lastCallId \in Nat
           /\ m.dialEcc \in BOOLEAN /\ m.pendingMo \in Nat
           /\ m.pendingHangup \in Nat /\ m.protectTask \in Nat
           /\ m.ringtone \in BOOLEAN /\ m.waitingTone \in BOOLEAN
           /\ m.callAudio \in BOOLEAN
           /\ m.call \in Call \cup {NoCall}
BY DEF Manager

\* A step that leaves the table keeps it.
LEMMA KeptSelf ==
    ASSUME NEW m, NEW n, NEW info, Good(m), Alike(m, n),
           \A s \in n.sent : s.cmd = "Answer" => s \in m.sent
    PROVE  Kept(m, n, info)
BY ManagerFields DEF Kept, KeyIn, Good, Alike

\* Kept composes along the calls of a handler.
LEMMA KeptTrans ==
    ASSUME NEW m, NEW n, NEW o, NEW info, NEW info2,
           Good(m), Good(n), Good(o), Kept(m, n, info), Kept(n, o, info2),
           KeyIn(Range(n.table) \cup {info}, info2)
    PROVE  Kept(m, o, info)
<1>1. /\ m.lastCallId \in Nat /\ n.lastCallId \in Nat /\ o.lastCallId \in Nat
      /\ \A y \in Range(o.table) : y.id \in Nat
      /\ \A y \in Range(n.table) : y.id \in Nat
    BY ManagerFields, RangeIs, CallsAreCalls DEF Good
<1>2. ASSUME NEW y \in Range(o.table)
      PROVE  \/ m.lastCallId < y.id
             \/ \E x \in Range(m.table) : x.id = y.id /\ (x.ecc => y.ecc)
  <2>1. CASE n.lastCallId < y.id
    BY <1>1, <2>1 DEF Kept
  <2>2. CASE \E x \in Range(n.table) : x.id = y.id /\ (x.ecc => y.ecc)
    BY <1>1, <2>2 DEF Kept
  <2> QED
    BY <2>1, <2>2 DEF Kept
<1>3. ASSUME NEW y \in Range(o.table)
      PROVE  KeyIn(Range(m.table) \cup {info}, y)
  <2>1. KeyIn(Range(n.table) \cup {info2}, y)
    BY DEF Kept
  <2>2. \A x \in Range(n.table) : KeyIn(Range(m.table) \cup {info}, x)
    BY DEF Kept
  <2>3. KeyIn(Range(m.table) \cup {info}, info2)
    BY <2>2 DEF KeyIn
  <2> QED
    BY <2>1, <2>2, <2>3 DEF KeyIn
<1>4. m.lastCallId <= o.lastCallId
    BY <1>1 DEF Kept
<1> QED
    BY <1>2, <1>3, <1>4 DEF Kept

\* A report of a key that is known brings no new key.
LEMMA KeptAnyKey ==
    ASSUME NEW m, NEW n, NEW info, NEW other,
           Kept(m, n, info), KeyIn(Range(m.table), info)
    PROVE  Kept(m, n, other)
BY DEF Kept, KeyIn

\* A step that leaves the table, the flags and the tones.
LEMMA SteadySettles ==
    ASSUME NEW m, NEW n, n.table = m.table, Steady(m, n)
    PROVE  Settles(m, n)
BY DEF Steady, Settles, Settled, Unbound, Waited, Silent

\* A handler that has one call in hand keeps the rest settled.
LEMMA TouchedSettles ==
    ASSUME NEW m, Good(m), NEW c \in Range(m.table), NEW n, Touched(m, n, c)
    PROVE  Settles(m, n)
<1> SUFFICES ASSUME Settled(m) PROVE Settled(n)
    BY DEF Settles
<1>1. \A d \in Range(m.table) : d.id = c.id => d = c
    BY DEF Good, Sound, Range
<1>2. ASSUME NEW d \in Unbound(n) PROVE d \in Unbound(m) /\ d.id # c.id
    BY <1>2 DEF Unbound, Touched
<1>3. ASSUME NEW id \in Waited(n) PROVE \E d \in Unbound(n) : d.id = id
  <2>1. id \in Waited(m)
    BY <1>3 DEF Waited, Touched
  <2>2. PICK d \in Unbound(m) : d.id = id
    BY <2>1 DEF Settled
  <2>3. d.id # c.id
    BY <1>1, <1>3, <2>2 DEF Waited, Unbound, Touched
  <2>4. d \in Range(n.table)
    BY <2>2, <2>3 DEF Touched, Unbound
  <2> QED
    BY <2>2, <2>4 DEF Unbound
<1>4. n.pendingMo = n.pendingHangup => n.pendingMo = NoId
    BY DEF Settled, Touched
<1>5. \A d \in Unbound(n) : d.tel = "DIALING"
    BY <1>2 DEF Settled
<1> QED
    BY <1>3, <1>4, <1>5 DEF Settled, Touched

\* NotifyCallStateUpdated changes the tones and what was told.
LEMMA NotifyIs ==
    ASSUME NEW m \in Manager, m.call \in Call, NEW prior,
           NEW next \in TelStates \cup {"ANSWERED"}
    PROVE  LET n == Notify(m, prior, next)
           IN  /\ n \in Manager /\ Alike(m, n) /\ n.sent = m.sent
               /\ n.pendingMo = m.pendingMo /\ n.pendingHangup = m.pendingHangup
               /\ n.protectTask = m.protectTask
<1> DEFINE a == [m EXCEPT !.told = Append(@, [id |-> m.call.id, state |-> next])]
<1>1. /\ a \in Manager /\ Alike(m, a) /\ a.sent = m.sent
      /\ a.pendingMo = m.pendingMo /\ a.pendingHangup = m.pendingHangup
      /\ a.protectTask = m.protectTask
  <2> DEFINE T == [id : Nat, state : TelStates \cup {"ANSWERED"}]
             e == [id |-> m.call.id, state |-> next]
  <2>1. e \in T
    BY CallsAreCalls
  <2>2. m.told \in Seq(T)
    BY DEF Manager
  <2> HIDE DEF e
  <2>3. Append(m.told, e) \in Seq(T)
    BY <2>1, <2>2
  <2>4. a = [m EXCEPT !.told = Append(m.told, e)]
    BY DEF e, Manager
  <2> HIDE DEF a
  <2> QED
    BY <2>3, <2>4 DEF Manager, Alike
<1> HIDE DEF a
<1> DEFINE n == CallStateUpdated(a, prior, next)
           X(r, w, c) == [a EXCEPT !.ringtone = r, !.waitingTone = w, !.callAudio = c]
<1>2. ASSUME NEW r \in BOOLEAN, NEW w \in BOOLEAN, NEW c \in BOOLEAN
      PROVE  /\ X(r, w, c) \in Manager /\ Alike(a, X(r, w, c))
             /\ X(r, w, c).sent = a.sent
             /\ X(r, w, c).pendingMo = a.pendingMo
             /\ X(r, w, c).pendingHangup = a.pendingHangup
             /\ X(r, w, c).protectTask = a.protectTask
  <2>1. X(r, w, c) \in Manager
    BY <1>1 DEF Manager
  <2>2. /\ X(r, w, c).table = a.table /\ X(r, w, c).lastCallId = a.lastCallId
        /\ X(r, w, c).dialEcc = a.dialEcc /\ X(r, w, c).call = a.call
        /\ X(r, w, c).sent = a.sent
    BY <1>1 DEF Manager
  <2>3. /\ X(r, w, c).pendingMo = a.pendingMo
        /\ X(r, w, c).pendingHangup = a.pendingHangup
        /\ X(r, w, c).protectTask = a.protectTask
    BY <1>1 DEF Manager
  <2> QED
    BY <2>1, <2>2, <2>3 DEF Alike
<1>3. \E r, w, c \in BOOLEAN : n = X(r, w, c)
  <2> a.ringtone \in BOOLEAN /\ a.waitingTone \in BOOLEAN /\ a.callAudio \in BOOLEAN
    BY <1>1, ManagerFields
  <2>0. a = X(a.ringtone, a.waitingTone, a.callAudio)
    BY <1>1 DEF Manager
  <2>1. CASE next = "INCOMING"
    <3>1. n = X(TRUE, a.waitingTone, a.callAudio)
      BY <1>1, <2>1 DEF CallStateUpdated, Manager
    <3> QED
      BY <3>1
  <2>2. CASE next = "WAITING"
    <3>1. n = X(a.ringtone, TRUE, a.callAudio)
      BY <1>1, <2>2 DEF CallStateUpdated, Manager
    <3> QED
      BY <3>1
  <2>3. CASE next \in {"ANSWERED", "ACTIVE"}
    <3>1. n = X(FALSE, FALSE, TRUE)
      BY <1>1, <2>3 DEF CallStateUpdated, Manager
    <3> QED
      BY <3>1
  <2>4. CASE next = "DISCONNECTED"
    <3> DEFINE on == HasCellularCallExist(a.table)
               r == a.ringtone /\ on /\ prior # "INCOMING"
               w == a.waitingTone /\ on /\ prior # "WAITING"
               c == a.callAudio /\ on
    <3>1. n = X(r, w, c)
      BY <1>1, <2>4 DEF CallStateUpdated, Manager
    <3>2. r \in BOOLEAN /\ w \in BOOLEAN /\ c \in BOOLEAN
      BY Zenon
    <3> HIDE DEF r, w, c
    <3> QED
      BY <3>1, <3>2
  <2>5. CASE next \notin {"INCOMING", "WAITING", "ANSWERED", "ACTIVE", "DISCONNECTED"}
    <3>1. n = a
      BY <2>5 DEF CallStateUpdated
    <3> QED
      BY <3>1, <2>0
  <2> HIDE DEF n, X
  <2> QED
    BY <2>1, <2>2, <2>3, <2>4, <2>5
<1> HIDE DEF X
<1>4. n = Notify(m, prior, next)
    BY DEF Notify, a
<1> HIDE DEF n
<1>5. PICK r \in BOOLEAN, w \in BOOLEAN, c \in BOOLEAN : n = X(r, w, c)
    BY <1>3
<1>6. /\ n \in Manager /\ Alike(a, n) /\ n.sent = a.sent
      /\ n.pendingMo = a.pendingMo /\ n.pendingHangup = a.pendingHangup
      /\ n.protectTask = a.protectTask
    BY <1>2, <1>5, Zenon
<1> QED
    BY <1>1, <1>4, <1>6 DEF Alike

\* When the last call ends, the tones do.
LEMMA NotifyEnds ==
    ASSUME NEW m \in Manager, m.call \in Call, NEW prior,
           ~HasCellularCallExist(m.table)
    PROVE  Silent(Notify(m, prior, "DISCONNECTED"))
<1> DEFINE a == [m EXCEPT !.told = Append(@, [id |-> m.call.id,
                                              state |-> "DISCONNECTED"])]
           on == HasCellularCallExist(a.table)
           r == a.ringtone /\ on /\ prior # "INCOMING"
           w == a.waitingTone /\ on /\ prior # "WAITING"
           c == a.callAudio /\ on
           n == Notify(m, prior, "DISCONNECTED")
<1>1. n = [a EXCEPT !.ringtone = r, !.waitingTone = w, !.callAudio = c]
    BY DEF Notify, CallStateUpdated
<1>2. /\ DOMAIN a = DOMAIN m /\ a.table = m.table
      /\ {"ringtone", "waitingTone", "callAudio"} \subseteq DOMAIN m
    BY DEF Manager
<1>3. ~on
    BY <1>2
<1>4. r = FALSE /\ w = FALSE /\ c = FALSE
    BY <1>3, Zenon
<1> HIDE DEF a, r, w, c, n
<1>5. n.ringtone = r /\ n.waitingTone = w /\ n.callAudio = c
    BY <1>1, <1>2
<1> QED
    BY <1>4, <1>5 DEF Silent, Tones, n

-----------------------------------------------------------------------------
\* A step that leaves the table and the tones and sends no answer.
Quiet(m, n) ==
    /\ n \in Manager /\ Alike(m, n) /\ Tones(n) = Tones(m)
    /\ \A s \in n.sent : s.cmd = "Answer" => s \in m.sent

\* It keeps what holds of the record and of the call.
LEMMA QuietIs ==
    ASSUME NEW m, NEW n, Good(m), Quiet(m, n)
    PROVE  /\ Good(n) /\ (Held(m) => Held(n))
           /\ \A info : Kept(m, n, info)
<1>1. Good(n) /\ (Held(m) => Held(n))
    BY DEF Good, Quiet, Alike, Held
<1>2. ASSUME NEW info PROVE Kept(m, n, info)
    BY KeptSelf DEF Quiet
<1> QED
    BY <1>1, <1>2

\* A command to the stack changes what was sent.
LEMMA SendIs ==
    ASSUME NEW m \in Manager, NEW c \in Call,
           NEW cmd \in {"Dial", "Answer", "HangUp", "HangUpActive", "Hold",
                        "UnHold", "Switch"}
    PROVE  LET n == Send(m, cmd, c)
           IN  /\ n \in Manager /\ Alike(m, n)
               /\ n.sent = m.sent \cup {[cmd |-> cmd, id |-> c.id]}
               /\ Steady(m, n) /\ n.protectTask = m.protectTask
               /\ cmd # "Answer" => Quiet(m, n)
<1>1. c.id \in Nat
    BY CallsAreCalls
<1>2. [cmd |-> cmd, id |-> c.id] \in
         [cmd : {"Dial", "Answer", "HangUp", "HangUpActive", "Hold",
                           "UnHold", "Switch"}, id : Nat]
    BY <1>1
<1>3. Send(m, cmd, c) \in Manager
    BY <1>2 DEF Send, Manager
<1> QED
    BY <1>3 DEF Send, Manager, Alike, Quiet, Steady, Tones

\* CarrierHangUpCall sends one of the two hang-up commands.
LEMMA HangUpIs ==
    ASSUME NEW m \in Manager, NEW c \in Call
    PROVE  LET n == HangUp(m, c)
           IN  /\ Quiet(m, n)
               /\ Steady(m, n) /\ n.protectTask = m.protectTask
<1>1. CASE c.hangUpActive
    BY <1>1, SendIs DEF HangUp
<1>2. CASE ~c.hangUpActive
    BY <1>2, SendIs DEF HangUp
<1> QED
    BY <1>1, <1>2

\* ClearPendingState takes back the marks of the held call.
LEMMA ClearPendingIs ==
    ASSUME NEW m \in Manager, m.call \in Call
    PROVE  LET n == ClearPendingState(m)
           IN  /\ Quiet(m, n)
               /\ n.pendingMo = IF m.pendingMo = m.call.id THEN NoId ELSE m.pendingMo
               /\ n.pendingHangup = IF m.pendingHangup = m.call.id THEN NoId
                                    ELSE m.pendingHangup
<1> DEFINE mo == [m EXCEPT !.pendingMo = IF @ = m.call.id THEN NoId ELSE @]
           hung == IF m.call.tel = "DISCONNECTED" THEN mo ELSE HangUp(mo, m.call)
           n == ClearPendingState(m)
<1>1. /\ mo \in Manager /\ Quiet(m, mo) /\ mo.pendingHangup = m.pendingHangup
      /\ mo.pendingMo = IF m.pendingMo = m.call.id THEN NoId ELSE m.pendingMo
    BY DEF Manager, Quiet, Alike, Tones
<1>2. n = IF m.pendingHangup = m.call.id
          THEN [hung EXCEPT !.pendingHangup = NoId, !.protectTask = NoId] ELSE mo
    BY DEF ClearPendingState
<1> HIDE DEF mo, n
<1>3. /\ hung \in Manager /\ Quiet(m, hung) /\ hung.pendingMo = mo.pendingMo
  <2>1. Quiet(mo, HangUp(mo, m.call)) /\ HangUp(mo, m.call).pendingMo = mo.pendingMo
    BY <1>1, HangUpIs DEF Steady
  <2> QED
    BY <2>1, <1>1 DEF Quiet, Alike
<1> HIDE DEF hung
<1>4. CASE m.pendingHangup = m.call.id
  <2> DEFINE o == [hung EXCEPT !.pendingHangup = NoId, !.protectTask = NoId]
  <2>1. /\ o \in Manager /\ Alike(hung, o) /\ o.sent = hung.sent
        /\ o.pendingMo = hung.pendingMo /\ o.pendingHangup = NoId
        /\ Tones(o) = Tones(hung)
    BY <1>3 DEF Manager, Alike, Tones
  <2>2. n = o
    BY <1>2, <1>4
  <2> HIDE DEF o
  <2>3. Quiet(m, n)
    BY <1>3, <2>1, <2>2 DEF Quiet, Alike
  <2> QED
    BY <1>1, <1>3, <1>4, <2>1, <2>2, <2>3 DEF n
<1>5. CASE m.pendingHangup # m.call.id
  <2>1. n = mo
    BY <1>2, <1>5, Zenon
  <2> QED
    BY <1>1, <1>5, <2>1 DEF n
<1> QED
    BY <1>4, <1>5 DEF n

\* A setter of the held call changes that call in the table, if it is there;
\* its new key must be free.
LEMMA WriteIs ==
    ASSUME NEW m, Good(m), Held(m), NEW c \in Call,
           c.id = m.call.id, c.ecc = m.call.ecc, c.isIn = m.call.isIn,
           m.call \in Range(m.table) =>
              \A d \in Range(m.table) : d.id # c.id => Apart(c, d)
    PROVE  LET n == Write(m, c)
           IN  /\ Good(n) /\ Held(n) /\ n.call = c
               /\ n.lastCallId = m.lastCallId /\ n.dialEcc = m.dialEcc
               /\ n.sent = m.sent /\ Steady(m, n)
               /\ n.protectTask = m.protectTask
               /\ Range(n.table) = {d \in Range(m.table) : d.id # c.id}
                     \cup {d \in {c} : m.call \in Range(m.table)}
               /\ Len(n.table) = Len(m.table)
<1> DEFINE n == Write(m, c)
           t == m.table
<1>1. t \in Seq(Call) /\ m.lastCallId \in Nat /\ Sound(t, m.lastCallId, m.dialEcc)
    BY ManagerFields DEF Good
<1>2. ASSUME NEW i \in DOMAIN t, t[i].id = c.id
      PROVE  /\ c.ecc = t[i].ecc /\ c.isIn = t[i].isIn
             /\ \A j \in DOMAIN t : j # i => Apart(c, t[j])
             /\ m.call \in Range(t)
  <2>1. m.call = t[i] /\ m.call \in Range(t)
    BY <1>1, <1>2, RangeIs DEF Held
  <2>2. \A j \in DOMAIN t : j # i => t[j].id # c.id /\ t[j] \in Range(t)
    BY <1>1, <1>2, RangeIs DEF Sound
  <2> QED
    BY <2>1, <2>2
<1>3. /\ Sound(Update(t, c), m.lastCallId, m.dialEcc)
      /\ Range(Update(t, c)) =
                 {d \in Range(t) : d.id # c.id}
                 \cup {d \in {c} : \E x \in Range(t) : x.id = c.id}
      /\ Len(Update(t, c)) = Len(t)
    BY <1>1, <1>2, UpdateSound
<1>4. (\E x \in Range(t) : x.id = c.id) <=> m.call \in Range(t)
    BY <1>1, <1>2, RangeIs
<1>5. /\ n.table = Update(t, c) /\ n.call = c
      /\ n.lastCallId = m.lastCallId /\ n.dialEcc = m.dialEcc
      /\ n.sent = m.sent /\ Steady(m, n)
      /\ n.protectTask = m.protectTask
    BY DEF Write, Good, Manager, Steady, Tones
<1>6. n \in Manager
  <2>1. Update(t, c) \in Seq(Call)
    BY <1>3 DEF Sound
  <2> QED
    BY <2>1 DEF Write, Good, Manager
<1> HIDE DEF n
<1>7. Good(n)
    BY <1>3, <1>5, <1>6 DEF Good
<1>8. Held(n)
    BY <1>3, <1>5 DEF Held
<1> QED
    BY <1>3, <1>4, <1>5, <1>7, <1>8 DEF n

\* A setter that leaves the key needs nothing more.
LEMMA WriteSame ==
    ASSUME NEW m, Good(m), Held(m), NEW c \in Call,
           c.id = m.call.id, c.ecc = m.call.ecc, c.isIn = m.call.isIn,
           c.index = m.call.index, c.slot = m.call.slot
    PROVE  LET n == Write(m, c)
           IN  /\ Good(n) /\ Held(n) /\ n.call = c
               /\ n.lastCallId = m.lastCallId /\ n.dialEcc = m.dialEcc
               /\ n.sent = m.sent /\ Steady(m, n)
               /\ n.protectTask = m.protectTask
               /\ Range(n.table) = {d \in Range(m.table) : d.id # c.id}
                     \cup {d \in {c} : m.call \in Range(m.table)}
               /\ Len(n.table) = Len(m.table)
               /\ \A info : Kept(m, n, info)
               /\ c.tel = m.call.tel => Settles(m, n)
<1>1. ASSUME m.call \in Range(m.table), NEW d \in Range(m.table), d.id # c.id
      PROVE  Apart(c, d)
  <2>1. Apart(m.call, d)
    BY <1>1 DEF Good, Sound, Range
  <2> QED
    BY <2>1 DEF Apart
<1> DEFINE n == Write(m, c)
<1>2. /\ Good(n) /\ Held(n) /\ n.call = c
      /\ n.lastCallId = m.lastCallId /\ n.dialEcc = m.dialEcc
      /\ n.sent = m.sent /\ Steady(m, n)
      /\ n.protectTask = m.protectTask
      /\ Range(n.table) = {d \in Range(m.table) : d.id # c.id}
            \cup {d \in {c} : m.call \in Range(m.table)}
      /\ Len(n.table) = Len(m.table)
    BY <1>1, WriteIs
<1> HIDE DEF n
<1>3. ASSUME NEW info PROVE Kept(m, n, info)
  <2>1. m.lastCallId <= n.lastCallId
    BY <1>2, ManagerFields DEF Good
  <2>2. ASSUME NEW y \in Range(n.table)
        PROVE  /\ \E x \in Range(m.table) : x.id = y.id /\ (x.ecc => y.ecc)
               /\ KeyIn(Range(m.table), y)
    <3>1. CASE y \in Range(m.table)
      BY <3>1 DEF KeyIn
    <3>2. CASE y = c /\ m.call \in Range(m.table)
      BY <3>2 DEF KeyIn
    <3> QED
      BY <3>1, <3>2, <1>2
  <2> QED
    BY <2>1, <2>2, <1>2 DEF Kept, KeyIn
<1>4. ASSUME c.tel = m.call.tel, Settled(m) PROVE Settled(n)
  <2>1. ASSUME NEW d \in Unbound(n) PROVE d.tel = "DIALING"
    <3>1. CASE d \in Range(m.table)
      BY <2>1, <3>1, <1>4 DEF Settled, Unbound
    <3>2. CASE d = c /\ m.call \in Range(m.table)
      <4>1. m.call \in Unbound(m)
        BY <2>1, <3>2 DEF Unbound
      <4> QED
        BY <4>1, <3>2, <1>4 DEF Settled
    <3> QED
      BY <2>1, <3>1, <3>2, <1>2 DEF Unbound
  <2>2. ASSUME NEW id \in Waited(n) PROVE \E d \in Unbound(n) : d.id = id
    <3>1. id \in Waited(m)
      BY <2>2, <1>2 DEF Waited, Steady
    <3>2. PICK d \in Unbound(m) : d.id = id
      BY <3>1, <1>4 DEF Settled
    <3>3. CASE d.id # c.id
      <4>1. d \in Unbound(n)
        BY <3>2, <3>3, <1>2 DEF Unbound
      <4> QED
        BY <3>2, <4>1
    <3>4. CASE d.id = c.id
      <4>1. d = m.call /\ m.call \in Range(m.table)
        BY <3>2, <3>4 DEF Unbound, Held
      <4>2. c \in Unbound(n)
        BY <3>2, <4>1, <1>2 DEF Unbound
      <4> QED
        BY <3>2, <3>4, <4>2
    <3> QED
      BY <3>3, <3>4
  <2>3. n.pendingMo = n.pendingHangup => n.pendingMo = NoId
    BY <1>2, <1>4 DEF Steady, Settled
  <2>4. ASSUME Range(n.table) = {} PROVE Silent(n)
    <3>1. ASSUME NEW d \in Range(m.table) PROVE FALSE
      <4>1. d.id = c.id
        BY <2>4, <3>1, <1>2
      <4>2. d = m.call
        BY <3>1, <4>1 DEF Held
      <4> QED
        BY <2>4, <3>1, <4>2, <1>2
    <3>2. Silent(m)
      BY <3>1, <1>4 DEF Settled
    <3> QED
      BY <3>2, <1>2 DEF Steady, Silent
  <2> QED
    BY <2>1, <2>2, <2>3, <2>4 DEF Settled
<1> HIDE DEF n
<1>5. c.tel = m.call.tel => Settles(m, n)
    BY <1>4 DEF Settles
<1> QED
    BY <1>2, <1>3, <1>5 DEF n

\* UpdateCallState changes the state of the held call.
LEMMA UpdateCallStateIs ==
    ASSUME NEW m, Good(m), Held(m), NEW next \in TelStates
    PROVE  LET n == UpdateCallState(m, next)
               c == [m.call EXCEPT !.tel = next]
           IN  /\ Good(n) /\ Held(n) /\ n.call = c
               /\ n.lastCallId = m.lastCallId /\ n.dialEcc = m.dialEcc
               /\ n.sent = m.sent /\ n.pendingMo = m.pendingMo
               /\ n.pendingHangup = m.pendingHangup
               /\ n.protectTask = m.protectTask
               /\ Range(n.table) = {d \in Range(m.table) : d.id # c.id}
                     \cup {d \in {c} : m.call \in Range(m.table)}
               /\ Len(n.table) = Len(m.table)
               /\ \A info : Kept(m, n, info)
               /\ next = "DISCONNECTED"
                     /\ (\A d \in Range(m.table) : d.id = m.call.id) => Silent(n)
<1> DEFINE c == [m.call EXCEPT !.tel = next]
           w == Write(m, c)
           n == UpdateCallState(m, next)
<1>1. /\ c \in Call /\ c.id = m.call.id /\ c.ecc = m.call.ecc
      /\ c.isIn = m.call.isIn /\ c.index = m.call.index /\ c.slot = m.call.slot
    BY DEF Held, Call
<1> HIDE DEF c
<1>2. /\ Good(w) /\ Held(w) /\ w.call = c
      /\ w.lastCallId = m.lastCallId /\ w.dialEcc = m.dialEcc
      /\ w.sent = m.sent /\ Steady(m, w)
      /\ w.protectTask = m.protectTask
      /\ Range(w.table) = {d \in Range(m.table) : d.id # c.id}
            \cup {d \in {c} : m.call \in Range(m.table)}
      /\ Len(w.table) = Len(m.table)
      /\ \A info : Kept(m, w, info)
    BY <1>1, WriteSame
<1>3. n = Notify(w, m.call.tel, next) /\ c.tel = next
    BY DEF UpdateCallState, c, Held, Call
<1> HIDE DEF w, n
<1>7. ASSUME next = "DISCONNECTED", \A d \in Range(m.table) : d.id = m.call.id
      PROVE  Silent(n)
  <2>1. \A d \in Range(w.table) : d = c
    BY <1>1, <1>2, <1>7
  <2>2. ~HasCellularCallExist(w.table)
    BY <2>1, <1>3, <1>7 DEF HasCellularCallExist, Exists
  <2>3. w \in Manager /\ w.call \in Call
    BY <1>1, <1>2 DEF Good
  <2> QED
    BY <2>2, <2>3, <1>3, <1>7, NotifyEnds
<1>4. /\ n \in Manager /\ Alike(w, n) /\ n.sent = w.sent
      /\ n.pendingMo = w.pendingMo /\ n.pendingHangup = w.pendingHangup
      /\ n.protectTask = w.protectTask
    BY <1>1, <1>2, <1>3, NotifyIs DEF Good
<1>5. Good(n) /\ Held(n)
    BY <1>2, <1>4 DEF Good, Alike, Held
<1>6. \A info : Kept(m, n, info)
    BY <1>2, <1>4 DEF Kept, Alike
<1> QED
    BY <1>2, <1>4, <1>5, <1>6, <1>7 DEF n, c, Alike, Steady

-----------------------------------------------------------------------------
\* CreateNewCall takes the next id and, for a dial, the mark of the last dial.
LEMMA CreateNewCallIs ==
    ASSUME NEW m, Good(m), NEW info \in AnyInfo, NEW isIn \in BOOLEAN
    PROVE  LET n == CreateNewCall(m, info, isIn)
           IN  /\ Good(n) /\ n.table = m.table /\ n.dialEcc = m.dialEcc
               /\ n.lastCallId = m.lastCallId + 1 /\ n.sent = m.sent
               /\ Steady(m, n)
               /\ n.protectTask = m.protectTask
               /\ n.call \in Call /\ n.call.id = m.lastCallId + 1
               /\ n.call.index = info.index /\ n.call.slot = info.slot
               /\ n.call.type = info.type /\ n.call.tel = info.state
               /\ n.call.isIn = isIn /\ (n.call.ecc <=> ~isIn /\ m.dialEcc)
               /\ Held(n)
               /\ \A other : Kept(m, n, other)
               /\ \A d \in Range(m.table) : d.id # n.call.id
<1> DEFINE n == CreateNewCall(m, info, isIn)
           e == ~isIn /\ m.dialEcc
           c == [id |-> m.lastCallId + 1, index |-> info.index,
                 slot |-> info.slot, type |-> info.type, tel |-> info.state,
                 isIn |-> isIn, ecc |-> e, canUnHold |-> TRUE,
                 hangUpActive |-> FALSE]
<1>1. m \in Manager /\ m.lastCallId \in Nat
    BY ManagerFields DEF Good
<1>2. n = [m EXCEPT !.lastCallId = @ + 1, !.call = c]
    BY DEF CreateNewCall
<1>3. e \in BOOLEAN
    BY Zenon
<1>4. c.ecc <=> ~isIn /\ m.dialEcc
    BY <1>3
<1> HIDE DEF e
<1>5. /\ c \in Call /\ c.id = m.lastCallId + 1
      /\ c.index = info.index /\ c.slot = info.slot
      /\ c.type = info.type /\ c.tel = info.state /\ c.isIn = isIn
    BY <1>1, <1>3 DEF Call, AnyInfo
<1> HIDE DEF c, n
<1>6. /\ n \in Manager /\ n.table = m.table /\ n.dialEcc = m.dialEcc
      /\ n.lastCallId = m.lastCallId + 1 /\ n.sent = m.sent /\ n.call = c
      /\ Steady(m, n)
      /\ n.protectTask = m.protectTask
  <2> DEFINE k == m.lastCallId + 1
  <2>1. k \in Nat /\ c \in Call \cup {NoCall}
    BY <1>1, <1>5
  <2>2. n = [m EXCEPT !.lastCallId = k, !.call = c]
    BY <1>2
  <2> HIDE DEF k
  <2>3. /\ n \in Manager /\ n.table = m.table /\ n.dialEcc = m.dialEcc
        /\ n.lastCallId = k /\ n.sent = m.sent /\ n.call = c
        /\ Steady(m, n)
        /\ n.protectTask = m.protectTask
    BY <1>1, <2>1, <2>2 DEF Manager, Steady, Tones
  <2> QED
    BY <2>3 DEF k
<1>7. \A d \in Range(m.table) : d.id \in Nat /\ d.id <= m.lastCallId
  <2>1. m.table \in Seq(Call)
    BY <1>1, ManagerFields
  <2>2. \A i \in DOMAIN m.table : m.table[i].id <= m.lastCallId
    BY DEF Good, Sound
  <2> QED
    BY <2>1, <2>2, RangeIs, CallsAreCalls
<1>8. Good(n)
  <2>1. \A i \in DOMAIN m.table : m.table[i].id <= m.lastCallId + 1
    BY <1>7, <1>1, RangeIs, ManagerFields
  <2> QED
    BY <2>1, <1>6 DEF Good, Sound
<1>9. \A d \in Range(m.table) : d.id # c.id
    BY <1>1, <1>5, <1>7
<1>10. Held(n)
    BY <1>1, <1>4, <1>5, <1>6, <1>9 DEF Held
<1>11. \A other : Kept(m, n, other)
    BY <1>1, <1>6 DEF Kept, KeyIn
<1> QED
    BY <1>4, <1>5, <1>6, <1>8, <1>9, <1>10, <1>11 DEF n

\* AddOneCallObject with a call of a new id.
LEMMA AppendIs ==
    ASSUME NEW m, Good(m), NEW c \in Call, c.id <= m.lastCallId,
           \A d \in Range(m.table) : d.id # c.id /\ Apart(c, d),
           c.ecc => ~c.isIn /\ m.dialEcc,
           Admits(m.table, c)
    PROVE  LET n == Append1(m, c)
           IN  /\ Good(n) /\ Held(n) /\ n.call = c
               /\ n.lastCallId = m.lastCallId /\ n.dialEcc = m.dialEcc
               /\ n.sent = m.sent /\ n.pendingMo = m.pendingMo
               /\ n.pendingHangup = m.pendingHangup
               /\ n.protectTask = m.protectTask
               /\ Range(n.table) = Range(m.table) \cup {c}
<1> DEFINE n == Append1(m, c)
           t == m.table
<1>1. /\ m \in Manager /\ t \in Seq(Call) /\ m.lastCallId \in Nat
      /\ Sound(t, m.lastCallId, m.dialEcc)
    BY ManagerFields DEF Good
<1>2. \A i \in DOMAIN t : t[i].id # c.id /\ Apart(c, t[i])
    BY <1>1, RangeIs
<1>3. /\ Sound(Append(t, c), m.lastCallId, m.dialEcc)
      /\ Range(Append(t, c)) = Range(t) \cup {c}
    BY <1>1, <1>2, AppendSound
<1>4. Append(t, c) \in Seq(Call)
    BY <1>1
<1>5. /\ n \in Manager /\ n.table = Append(t, c) /\ n.call = c
      /\ n.lastCallId = m.lastCallId /\ n.dialEcc = m.dialEcc
      /\ n.sent = m.sent /\ n.pendingMo = m.pendingMo
      /\ n.pendingHangup = m.pendingHangup
      /\ n.protectTask = m.protectTask
    BY <1>1, <1>4 DEF Append1, Manager
<1> HIDE DEF n
<1>6. Good(n) /\ Held(n)
    BY <1>3, <1>5 DEF Good, Held
<1> QED
    BY <1>3, <1>5, <1>6 DEF n

\* DeleteOneCallObject with the call that is held.
LEMMA DeleteIs ==
    ASSUME NEW m, Good(m)
    PROVE  LET n == Delete(m)
           IN  /\ Good(n) /\ (Held(m) => Held(n)) /\ n.call = m.call
               /\ n.lastCallId = m.lastCallId /\ n.dialEcc = m.dialEcc
               /\ n.sent = m.sent /\ Steady(m, n)
               /\ n.protectTask = m.protectTask
               /\ Range(n.table) = {d \in Range(m.table) : d.id # m.call.id}
               /\ \A info : Kept(m, n, info)
<1> DEFINE n == Delete(m)
           t == m.table
           u == Without(t, m.call.id)
<1>1. /\ m \in Manager /\ t \in Seq(Call) /\ m.lastCallId \in Nat
      /\ Sound(t, m.lastCallId, m.dialEcc)
    BY ManagerFields DEF Good
<1>2. /\ Sound(u, m.lastCallId, m.dialEcc)
      /\ Range(u) = {c \in Range(t) : c.id # m.call.id}
  <2> DEFINE last == m.lastCallId
             ecc == m.dialEcc
             id == m.call.id
  <2>1. last \in Nat /\ Sound(t, last, ecc)
    BY <1>1
  <2> HIDE DEF last, ecc, id, t
  <2>2. /\ Sound(Without(t, id), last, ecc)
        /\ Range(Without(t, id)) = {c \in Range(t) : c.id # id}
    BY <2>1, WithoutSound
  <2> QED
    BY <2>2 DEF last, ecc, id, t
<1>3. n = [m EXCEPT !.table = u]
    BY DEF Delete
<1> HIDE DEF n, u
<1>4. u \in Seq(Call)
    BY <1>2 DEF Sound
<1>5. /\ n \in Manager /\ n.table = u /\ n.call = m.call
      /\ n.lastCallId = m.lastCallId /\ n.dialEcc = m.dialEcc
      /\ n.sent = m.sent /\ Steady(m, n)
      /\ n.protectTask = m.protectTask
    BY <1>1, <1>3, <1>4 DEF Manager, Steady, Tones
<1>6. Good(n) /\ (Held(m) => Held(n))
    BY <1>2, <1>5 DEF Good, Held
<1>7. \A info : Kept(m, n, info)
    BY <1>1, <1>2, <1>5 DEF Kept, KeyIn
<1> QED
    BY <1>2, <1>5, <1>6, <1>7 DEF n

\* RefreshCall replaces the held call under its own id, puts it back or, when
\* neither fits, loses it; the other calls stay.
LEMMA RefreshCallIs ==
    ASSUME NEW m, Good(m), Held(m), m.call \in Range(m.table),
           NEW info \in AnyInfo,
           \A d \in Range(m.table) : d.id # m.call.id => Apart(info, d)
    PROVE  LET n == RefreshCall(m, info)
           IN  /\ Good(n) /\ Held(n) /\ n.call.id = m.call.id
               /\ n.call.tel = m.call.tel
               /\ \/ n.call.index = info.index /\ n.call.slot = info.slot
                  \/ n.call = m.call
               /\ n.sent = m.sent /\ n.pendingMo = m.pendingMo
               /\ n.pendingHangup = m.pendingHangup
               /\ n.protectTask = m.protectTask
               /\ {d \in Range(n.table) : d.id # m.call.id} =
                  {d \in Range(m.table) : d.id # m.call.id}
               /\ Range(n.table) # {}
               /\ Kept(m, n, info)
<1> DEFINE old == m.call
           del == Delete(m)
           n == CreateNewCall(del, info, old.isIn)
           new == [n.call EXCEPT !.id = old.id, !.tel = old.tel,
                                 !.hangUpActive = old.hangUpActive]
           r == RefreshCall(m, info)
<1>1. /\ old \in Call /\ old.isIn \in BOOLEAN /\ old.id <= m.lastCallId
      /\ old.ecc => ~old.isIn /\ m.dialEcc
      /\ m.lastCallId \in Nat /\ old.id \in Nat
    BY ManagerFields, CallsAreCalls DEF Held, Call, Good
<1>2. /\ Good(del) /\ del.call = m.call
      /\ del.lastCallId = m.lastCallId /\ del.dialEcc = m.dialEcc
      /\ del.sent = m.sent /\ del.pendingMo = m.pendingMo
      /\ del.pendingHangup = m.pendingHangup
      /\ del.protectTask = m.protectTask
      /\ Range(del.table) = {d \in Range(m.table) : d.id # old.id}
    BY DeleteIs DEF Steady
<1> HIDE DEF del
<1>3. /\ Good(n) /\ n.table = del.table /\ n.dialEcc = del.dialEcc
      /\ n.lastCallId = del.lastCallId + 1 /\ n.sent = del.sent
      /\ n.pendingMo = del.pendingMo /\ n.pendingHangup = del.pendingHangup
      /\ n.protectTask = del.protectTask
      /\ n.call \in Call
      /\ n.call.index = info.index /\ n.call.slot = info.slot
      /\ n.call.isIn = old.isIn /\ (n.call.ecc <=> ~old.isIn /\ del.dialEcc)
    BY <1>1, <1>2, CreateNewCallIs DEF Steady
<1> HIDE DEF n
<1>4. /\ new \in Call /\ new.id = old.id /\ new.tel = old.tel
      /\ new.index = info.index /\ new.slot = info.slot
      /\ new.isIn = n.call.isIn /\ new.ecc = n.call.ecc
    BY <1>1, <1>3 DEF Call
<1> HIDE DEF new
<1>5. \A d \in Range(n.table) : d.id # old.id /\ Apart(new, d) /\ Apart(old, d)
  <2>1. ASSUME NEW d \in Range(m.table), d.id # old.id PROVE Apart(old, d)
    BY <2>1 DEF Good, Sound, Range
  <2>2. ASSUME NEW d \in Range(m.table), d.id # old.id PROVE Apart(new, d)
    BY <2>2, <1>4 DEF Apart
  <2> QED
    BY <2>1, <2>2, <1>2, <1>3
<1>6. old.id <= n.lastCallId
    BY <1>1, <1>2, <1>3
<1> DEFINE Outcome ==
              /\ Good(r) /\ Held(r) /\ r.call.id = old.id
              /\ r.call.tel = old.tel
              /\ \/ r.call.index = info.index /\ r.call.slot = info.slot
                 \/ r.call = old
              /\ r.lastCallId = n.lastCallId /\ r.dialEcc = n.dialEcc
              /\ r.sent = n.sent /\ r.pendingMo = n.pendingMo
              /\ r.pendingHangup = n.pendingHangup
              /\ r.protectTask = n.protectTask
              /\ \/ Range(r.table) = Range(n.table)
                 \/ Range(r.table) = Range(n.table) \cup {r.call}
              /\ old.ecc => r.call.ecc
              /\ Range(r.table) # {}
<1>7. ASSUME Admits(n.table, new) PROVE Outcome
  <2>1. r = Append1(n, new)
    BY <1>7 DEF RefreshCall, del, n, new
  <2>2. new.ecc => ~new.isIn /\ n.dialEcc
    BY <1>2, <1>3, <1>4
  <2> HIDE DEF r
  <2>3. /\ Good(r) /\ Held(r) /\ r.call = new
        /\ r.lastCallId = n.lastCallId /\ r.dialEcc = n.dialEcc
        /\ r.sent = n.sent /\ r.pendingMo = n.pendingMo
        /\ r.pendingHangup = n.pendingHangup
        /\ r.protectTask = n.protectTask
        /\ Range(r.table) = Range(n.table) \cup {new}
        /\ Range(r.table) # {}
    <3>1. \A d \in Range(n.table) : d.id # new.id /\ Apart(new, d)
      BY <1>4, <1>5
    <3>2. new \in Call /\ new.id <= n.lastCallId /\ Good(n)
      BY <1>3, <1>4, <1>6
    <3> QED
      BY <1>7, <2>1, <2>2, <3>1, <3>2, AppendIs
  <2>4. old.ecc => new.ecc
    BY <1>1, <1>2, <1>3, <1>4
  <2> QED
    BY <2>3, <2>4, <1>4
<1>8. ASSUME ~Admits(n.table, new) PROVE Outcome
  <2> DEFINE h == Holding(n, old)
  <2>1. r = AddOneCallObject(h, old)
    BY <1>8 DEF RefreshCall, del, n, new
  <2>2. /\ h \in Manager /\ h.table = n.table /\ h.call = old
        /\ h.lastCallId = n.lastCallId /\ h.dialEcc = n.dialEcc
        /\ h.sent = n.sent /\ h.pendingMo = n.pendingMo
        /\ h.pendingHangup = n.pendingHangup /\ h.protectTask = n.protectTask
    BY <1>1, <1>3 DEF Holding, Good, Manager
  <2> HIDE DEF h, r
  <2>3. Good(h)
    BY <2>2, <1>3 DEF Good
  <2>4. Held(h)
    BY <1>1, <1>2, <1>3, <1>5, <1>6, <2>2 DEF Held
  <2>5. CASE Admits(h.table, old)
    <3>1. r = Append1(h, old)
      BY <2>1, <2>5 DEF AddOneCallObject
    <3>2. old.ecc => ~old.isIn /\ h.dialEcc
      BY <1>1, <1>2, <1>3, <2>2
    <3>3. \A d \in Range(h.table) : d.id # old.id /\ Apart(old, d)
      BY <1>5, <2>2
    <3>4. old.id <= h.lastCallId
      BY <1>6, <2>2
    <3>5. /\ Good(r) /\ Held(r) /\ r.call = old
          /\ r.lastCallId = h.lastCallId /\ r.dialEcc = h.dialEcc
          /\ r.sent = h.sent /\ r.pendingMo = h.pendingMo
          /\ r.pendingHangup = h.pendingHangup
          /\ r.protectTask = h.protectTask
          /\ Range(r.table) = Range(h.table) \cup {old}
      BY <1>1, <2>3, <2>5, <3>1, <3>2, <3>3, <3>4, AppendIs
    <3>6. Range(r.table) # {}
      BY <3>5
    <3> QED
      BY <3>5, <3>6, <2>2
  <2>6. CASE ~Admits(h.table, old)
    <3>1. r = h
      BY <2>1, <2>6 DEF AddOneCallObject
    <3>2. ASSUME Range(h.table) = {} PROVE FALSE
      <4>1. h.table \in Seq(Call) /\ m.table \in Seq(Call)
        BY <2>3, ManagerFields DEF Good
      <4>2. Len(h.table) = 0
        <5>1. ASSUME NEW i \in DOMAIN h.table PROVE FALSE
          BY <5>1, <3>2, <4>1, RangeIs
        <5>2. Len(h.table) \in Nat /\ DOMAIN h.table = 1 .. Len(h.table)
          BY <4>1
        <5>3. 1 \notin DOMAIN h.table
          BY <5>1
        <5> QED
          BY <5>2, <5>3
      <4>3. PICK i \in DOMAIN m.table : m.table[i] = old
        BY <4>1, RangeIs
      <4>4. ~old.ecc => i <= MaxCallObjects - EccReserved
        BY <4>3 DEF Good, Sound
      <4>5. i \in Nat /\ i >= 1
        BY <4>1, <4>3
      <4> QED
        BY <2>6, <4>2, <4>4, <4>5, CallManagerAssumption DEF Admits
    <3> QED
      BY <3>1, <3>2, <2>2, <2>3, <2>4
  <2> QED
    BY <2>5, <2>6
<1>9. Outcome
    BY <1>7, <1>8
<1> HIDE DEF r
<1>10. {d \in Range(r.table) : d.id # old.id} = Range(n.table)
    BY <1>5, <1>9
<1>11. Kept(m, r, info)
  <2>1. ASSUME NEW y \in Range(r.table)
        PROVE  /\ \E x \in Range(m.table) : x.id = y.id /\ (x.ecc => y.ecc)
               /\ KeyIn(Range(m.table) \cup {info}, y)
    <3>1. CASE y \in Range(n.table)
      BY <3>1, <1>2, <1>3 DEF KeyIn
    <3>2. CASE y = r.call
      BY <3>2, <1>9 DEF KeyIn
    <3> QED
      BY <3>1, <3>2, <1>9
  <2>2. m.lastCallId <= r.lastCallId
    BY <1>1, <1>2, <1>3, <1>9
  <2> QED
    BY <2>1, <2>2, <1>2, <1>3, <1>9 DEF Kept
<1> QED
    BY <1>2, <1>3, <1>9, <1>10, <1>11 DEF r

\* So does RefreshCallIfNecessary, or it does nothing.
LEMMA RefreshIfNecessaryIs ==
    ASSUME NEW m, Good(m), Held(m), m.call \in Range(m.table),
           NEW info \in AnyInfo,
           \A d \in Range(m.table) : d.id # m.call.id => Apart(info, d)
    PROVE  LET n == RefreshCallIfNecessary(m, info)
           IN  /\ Good(n) /\ Held(n) /\ n.call.id = m.call.id
               /\ n.call.tel = m.call.tel
               /\ \/ n.call.index = info.index /\ n.call.slot = info.slot
                  \/ n.call = m.call
               /\ n.sent = m.sent /\ n.pendingMo = m.pendingMo
               /\ n.pendingHangup = m.pendingHangup
               /\ n.protectTask = m.protectTask
               /\ {d \in Range(n.table) : d.id # m.call.id} =
                  {d \in Range(m.table) : d.id # m.call.id}
               /\ Range(n.table) # {}
               /\ Kept(m, n, info)
<1>1. CASE m.call.type = info.type
  <2>1. RefreshCallIfNecessary(m, info) = m
    BY <1>1 DEF RefreshCallIfNecessary
  <2>2. Kept(m, m, info)
    BY KeptSelf DEF Alike
  <2> QED
    BY <2>1, <2>2
<1>2. CASE m.call.type # info.type
  <2>1. RefreshCallIfNecessary(m, info) = RefreshCall(m, info)
    BY <1>2 DEF RefreshCallIfNecessary
  <2> QED
    BY <2>1, RefreshCallIs
<1> QED
    BY <1>1, <1>2

-----------------------------------------------------------------------------
\* The record is the same but for the call that is held.
AsBefore(m, n) ==
    /\ n.table = m.table /\ n.lastCallId = m.lastCallId
    /\ n.dialEcc = m.dialEcc /\ n.sent = m.sent
    /\ Steady(m, n) /\ n.protectTask = m.protectTask

\* The call answers to the index and slot of a report.
HasKey(c, info) == c.index = info.index /\ c.slot = info.slot

\* A handler that takes a call of the table in hand changes nothing.
LEMMA HoldingIs ==
    ASSUME NEW m, Good(m), NEW c \in Range(m.table) \cup {NoCall}
    PROVE  LET n == Holding(m, c)
           IN  /\ Good(n) /\ AsBefore(m, n) /\ n.call = c
               /\ c # NoCall => Held(n)
               /\ Settles(m, n)
               /\ \A info : Kept(m, n, info)
<1> DEFINE n == Holding(m, c)
<1>1. /\ m \in Manager /\ m.table \in Seq(Call) /\ m.lastCallId \in Nat
    BY ManagerFields DEF Good
<1>2. c \in Call \cup {NoCall}
    BY <1>1, RangeIs
<1>3. n \in Manager /\ AsBefore(m, n) /\ n.call = c
    BY <1>1, <1>2 DEF Holding, Manager, AsBefore, Steady, Tones
<1> HIDE DEF n
<1>4. Good(n)
    BY <1>3 DEF Good, AsBefore
<1>5. ASSUME c # NoCall PROVE Held(n)
  <2>1. PICK i \in DOMAIN m.table : c = m.table[i]
    BY <1>1, <1>5, RangeIs
  <2>2. c.id <= m.lastCallId /\ (c.ecc => ~c.isIn /\ m.dialEcc)
    BY <2>1 DEF Good, Sound
  <2>3. \A d \in Range(m.table) : d.id = c.id => d = c
    BY <2>1, <1>1, RangeIs DEF Good, Sound
  <2> QED
    BY <1>2, <1>3, <1>5, <2>2, <2>3 DEF Held, AsBefore
<1>6. ASSUME NEW info PROVE Kept(m, n, info)
    BY <1>1, <1>3 DEF Kept, KeyIn, AsBefore
<1>7. Settles(m, n)
    BY <1>3, SteadySettles DEF AsBefore
<1> QED
    BY <1>3, <1>4, <1>5, <1>6, <1>7 DEF n

\* A report finds the call of its key if there is one.
LEMMA LookupIs ==
    ASSUME NEW m, Good(m), NEW info
    PROVE  LET n == Lookup(m, info)
           IN  /\ Good(n) /\ AsBefore(m, n)
               /\ n.call = NoCall =>
                     \A d \in Range(m.table) : ~HasKey(d, info)
               /\ n.call # NoCall =>
                     /\ n.call \in Range(m.table) /\ HasKey(n.call, info)
                     /\ Held(n)
               /\ Settles(m, n)
               /\ \A other : Kept(m, n, other)
<1> DEFINE c == CallByKey(m.table, info.index, info.slot)
<1>1. m.table \in Seq(Call)
    BY ManagerFields DEF Good
<1>2. /\ c = NoCall => \A d \in Range(m.table) : ~HasKey(d, info)
      /\ c # NoCall => c \in Range(m.table) /\ HasKey(c, info)
    BY <1>1, CallByKeyIs, RangeIs DEF HasKey
<1>3. Lookup(m, info) = Holding(m, c)
    BY DEF Lookup
<1> HIDE DEF c
<1> QED
    BY <1>2, <1>3, HoldingIs

\* If one call has the key, no other has.
LEMMA OthersApart ==
    ASSUME NEW m, Good(m), NEW c \in Range(m.table), NEW info, HasKey(c, info)
    PROVE  \A d \in Range(m.table) : d.id # c.id => Apart(info, d) /\ Apart(d, info)
BY DEF Good, Sound, Range, HasKey, Apart

\* If no call has the key, it is free.
LEMMA NoneApart ==
    ASSUME NEW m, NEW info, \A d \in Range(m.table) : ~HasKey(d, info)
    PROVE  \A d \in Range(m.table) : Apart(info, d)
BY DEF HasKey, Apart

\* A report of a bound call may replace it; the rest stays settled.
LEMMA RefreshSettles ==
    ASSUME NEW m, Good(m), Held(m), m.call \in Range(m.table),
           NEW info \in AnyInfo, HasKey(m.call, info),
           \A d \in Range(m.table) : d.id # m.call.id => Apart(info, d)
    PROVE  LET n == RefreshCallIfNecessary(m, info)
           IN  /\ Good(n) /\ Held(n) /\ n.call.id = m.call.id
               /\ HasKey(n.call, info)
               /\ Kept(m, n, info)
               /\ Range(n.table) # {}
               /\ info.index # InitIndex => Settles(m, n)
<1> DEFINE n == RefreshCallIfNecessary(m, info)
<1>1. /\ Good(n) /\ Held(n) /\ n.call.id = m.call.id
      /\ \/ n.call.index = info.index /\ n.call.slot = info.slot
         \/ n.call = m.call
      /\ n.pendingMo = m.pendingMo /\ n.pendingHangup = m.pendingHangup
      /\ {d \in Range(n.table) : d.id # m.call.id} =
         {d \in Range(m.table) : d.id # m.call.id}
      /\ Range(n.table) # {} /\ Kept(m, n, info)
    BY RefreshIfNecessaryIs
<1> HIDE DEF n
<1>2. HasKey(n.call, info)
    BY <1>1 DEF HasKey
<1>3. ASSUME info.index # InitIndex PROVE Touched(m, n, m.call)
  <2>1. \A d \in Range(n.table) : d.id = m.call.id => d.index # InitIndex
    BY <1>1, <1>2, <1>3 DEF Held, HasKey
  <2>2. m.call.index # InitIndex
    BY <1>3 DEF HasKey
  <2> QED
    BY <1>1, <2>1, <2>2 DEF Touched
<1>4. info.index # InitIndex => Settles(m, n)
    BY <1>3, TouchedSettles
<1> QED
    BY <1>1, <1>2, <1>4 DEF n

\* UpdateDialingCallInfo gives the key, which must be free, to the dialled call.
LEMMA BindIndexIs ==
    ASSUME NEW m, Good(m), NEW info \in AnyInfo,
           CallByIndex(m.table, InitIndex) # NoCall,
           \A d \in Range(m.table) : ~HasKey(d, info)
    PROVE  LET n == BindIndex(m, info)
           IN  /\ Good(n) /\ Kept(m, n, info)
               /\ info.index # InitIndex => Settles(m, n)
<1> DEFINE mo == CallByIndex(m.table, InitIndex)
           h == Holding(m, mo)
           r == RefreshCallIfNecessary(h, info)
           c == [r.call EXCEPT !.index = info.index, !.slot = info.slot,
                               !.type = info.type, !.tel = info.state]
           w == Write(r, c)
           n == ClearPendingState(w)
<1>0. BindIndex(m, info) = n
    BY DEF BindIndex
<1>1. mo \in Range(m.table)
    BY CallByIndexIs, RangeIs, ManagerFields DEF Good
<1> HIDE DEF mo
<1>2. Good(h) /\ AsBefore(m, h) /\ h.call = mo /\ Held(h) /\ Kept(m, h, info)
    BY <1>1, HoldingIs, CallsAreCalls, RangeIs, ManagerFields DEF Good
<1> HIDE DEF h
<1>3. \A d \in Range(h.table) : Apart(info, d)
    BY <1>2, NoneApart DEF AsBefore
<1>4. h.call \in Range(h.table)
    BY <1>1, <1>2 DEF AsBefore
<1>5. /\ Good(r) /\ Held(r) /\ r.call.id = h.call.id
      /\ {d \in Range(r.table) : d.id # h.call.id} =
         {d \in Range(h.table) : d.id # h.call.id}
      /\ Range(r.table) # {}
      /\ r.pendingMo = h.pendingMo /\ r.pendingHangup = h.pendingHangup
      /\ Kept(h, r, info)
    BY <1>2, <1>3, <1>4, RefreshIfNecessaryIs
<1> HIDE DEF r
<1>6. /\ c \in Call /\ c.id = r.call.id /\ c.ecc = r.call.ecc
      /\ c.isIn = r.call.isIn /\ HasKey(c, info)
    BY <1>5 DEF Held, Call, AnyInfo, HasKey
<1> HIDE DEF c
<1>7. \A d \in Range(r.table) : d.id # c.id => Apart(c, d)
    BY <1>3, <1>5, <1>6 DEF Apart, HasKey
<1>8. /\ Good(w) /\ Held(w) /\ w.call = c
      /\ w.lastCallId = r.lastCallId /\ w.dialEcc = r.dialEcc
      /\ w.sent = r.sent /\ Steady(r, w)
      /\ Range(w.table) = {d \in Range(r.table) : d.id # c.id}
            \cup {d \in {c} : r.call \in Range(r.table)}
  <2> DEFINE v == Write(r, c)
  <2>1. /\ c.id = r.call.id /\ c.ecc = r.call.ecc /\ c.isIn = r.call.isIn
        /\ Good(r) /\ Held(r) /\ c \in Call
    BY <1>5, <1>6
  <2> HIDE DEF v
  <2>2. /\ Good(v) /\ Held(v) /\ v.call = c
        /\ v.lastCallId = r.lastCallId /\ v.dialEcc = r.dialEcc
        /\ v.sent = r.sent /\ Steady(r, v)
        /\ Range(v.table) = {d \in Range(r.table) : d.id # c.id}
              \cup {d \in {c} : r.call \in Range(r.table)}
    BY <1>7, <2>1, WriteIs DEF v
  <2> QED
    BY <2>2 DEF v
<1> HIDE DEF w
<1>9. Kept(r, w, info)
  <2>1. ASSUME NEW y \in Range(w.table)
        PROVE  /\ \E x \in Range(r.table) : x.id = y.id /\ (x.ecc => y.ecc)
               /\ KeyIn(Range(r.table) \cup {info}, y)
    <3>1. CASE y \in Range(r.table)
      BY <3>1 DEF KeyIn
    <3>2. CASE y = c /\ r.call \in Range(r.table)
      BY <3>2, <1>6 DEF KeyIn, HasKey
    <3> QED
      BY <3>1, <3>2, <1>8
  <2>2. r.lastCallId <= w.lastCallId
    BY <1>5, <1>8, ManagerFields DEF Good
  <2> QED
    BY <2>1, <2>2, <1>8 DEF Kept
<1>10. /\ Quiet(w, n)
       /\ n.pendingMo = IF w.pendingMo = w.call.id THEN NoId ELSE w.pendingMo
       /\ n.pendingHangup = IF w.pendingHangup = w.call.id THEN NoId
                            ELSE w.pendingHangup
    BY <1>8, ClearPendingIs DEF Good, Held
<1>11. Good(n) /\ Kept(w, n, info)
    BY <1>8, <1>10, QuietIs
<1> HIDE DEF n
<1>12. \A S : KeyIn(S \cup {info}, info)
    BY DEF KeyIn
<1>13. Kept(m, r, info)
    BY <1>2, <1>5, <1>12, KeptTrans
<1>14. Kept(m, w, info)
    BY <1>5, <1>8, <1>9, <1>12, <1>13, KeptTrans
<1>15. Kept(m, n, info)
    BY <1>8, <1>11, <1>12, <1>14, KeptTrans
<1>16. ASSUME info.index # InitIndex PROVE Touched(m, n, mo)
  <2>1. /\ n.table = w.table /\ m.table = h.table
        /\ w.pendingMo = m.pendingMo /\ w.pendingHangup = m.pendingHangup
        /\ c.id = mo.id /\ w.call.id = mo.id
    BY <1>2, <1>5, <1>6, <1>8, <1>10 DEF Quiet, Alike, AsBefore, Steady
  <2>2. {d \in Range(n.table) : d.id # mo.id} = {d \in Range(m.table) : d.id # mo.id}
    BY <1>2, <1>5, <1>6, <1>8, <2>1
  <2>3. \A d \in Range(n.table) : d.id = mo.id => d.index # InitIndex
    BY <1>6, <1>8, <1>16, <2>1 DEF HasKey
  <2>4. Range(n.table) # {}
    <3>1. PICK y : y \in Range(r.table)
      BY <1>5
    <3>2. CASE y.id = c.id
      BY <3>1, <3>2, <1>5, <1>6, <1>8, <2>1 DEF Held
    <3>3. CASE y.id # c.id
      BY <3>1, <3>3, <1>8, <2>1
    <3> QED
      BY <3>2, <3>3
  <2>5. mo.id # NoId
    BY <1>1, RangeIs, CallsAreCalls, ManagerFields DEF Good
  <2>6. /\ n.pendingMo \in {m.pendingMo, NoId} \ {mo.id}
        /\ n.pendingHangup \in {m.pendingHangup, NoId} \ {mo.id}
    BY <1>10, <2>1, <2>5
  <2> QED
    BY <2>2, <2>3, <2>4, <2>6 DEF Touched
<1>17. info.index # InitIndex => Settles(m, n)
    BY <1>1, <1>16, TouchedSettles
<1> QED
    BY <1>0, <1>11, <1>15, <1>17

\* It looks the key up first.
LEMMA UpdateDialingCallInfoIs ==
    ASSUME NEW m, Good(m), NEW info \in AnyInfo
    PROVE  LET n == UpdateDialingCallInfo(m, info)
           IN  /\ Good(n) /\ Kept(m, n, info)
               /\ info.index # InitIndex => Settles(m, n)
<1> DEFINE known == Lookup(m, info)
           n == UpdateDialingCallInfo(m, info)
<1>1. /\ Good(known) /\ AsBefore(m, known) /\ Kept(m, known, info)
      /\ Settles(m, known)
      /\ known.call = NoCall =>
            \A d \in Range(m.table) : ~HasKey(d, info)
      /\ known.call # NoCall =>
            /\ known.call \in Range(m.table) /\ HasKey(known.call, info)
            /\ Held(known)
    BY LookupIs
<1>2. n = IF known.call # NoCall THEN RefreshCallIfNecessary(known, info)
          ELSE IF CallByIndex(m.table, InitIndex) = NoCall THEN m
          ELSE BindIndex(m, info)
    BY DEF UpdateDialingCallInfo
<1> HIDE DEF known
<1>3. \A S : KeyIn(S \cup {info}, info)
    BY DEF KeyIn
<1>4. CASE known.call # NoCall
  <2>1. known.call \in Range(known.table)
    BY <1>1, <1>4 DEF AsBefore
  <2>2. \A d \in Range(known.table) : d.id # known.call.id => Apart(info, d)
    BY <1>1, <1>4, <2>1, OthersApart
  <2> DEFINE r == RefreshCallIfNecessary(known, info)
  <2>3. /\ Good(r) /\ Kept(known, r, info)
        /\ info.index # InitIndex => Settles(known, r)
    BY <1>1, <1>4, <2>1, <2>2, RefreshSettles
  <2> HIDE DEF r
  <2>4. Kept(m, r, info)
    BY <1>1, <1>3, <2>3, KeptTrans
  <2>5. info.index # InitIndex => Settles(m, r)
    BY <1>1, <2>3 DEF Settles
  <2> QED
    BY <1>2, <1>4, <2>3, <2>4, <2>5 DEF r
<1>5. CASE known.call = NoCall /\ CallByIndex(m.table, InitIndex) = NoCall
  <2>1. n = m
    BY <1>2, <1>5
  <2> QED
    BY <2>1, KeptSelf DEF Alike, Settles
<1>6. CASE known.call = NoCall /\ CallByIndex(m.table, InitIndex) # NoCall
  <2>1. n = BindIndex(m, info)
    BY <1>2, <1>6
  <2> HIDE DEF n
  <2>2. /\ Good(n) /\ Kept(m, n, info)
        /\ info.index # InitIndex => Settles(m, n)
    BY <2>1, <1>1, <1>6, BindIndexIs
  <2> QED
    BY <2>2 DEF n
<1> QED
    BY <1>4, <1>5, <1>6

\* A call with a new id joins; if it is dialled, pendingMo names it.
LEMMA JoinSettles ==
    ASSUME NEW m, Good(m), NEW n, NEW c \in Call, c.id = m.lastCallId + 1,
           Range(n.table) = Range(m.table) \cup {c},
           c.index = InitIndex => c.tel = "DIALING",
           n.pendingMo = IF c.index = InitIndex THEN c.id ELSE m.pendingMo,
           n.pendingHangup = m.pendingHangup
    PROVE  Settles(m, n)
<1> SUFFICES ASSUME Settled(m) PROVE Settled(n)
    BY DEF Settles
<1>1. \A d \in Unbound(n) : d.tel = "DIALING"
    BY DEF Settled, Unbound
<1>2. Unbound(m) \subseteq Unbound(n)
    BY DEF Unbound
<1>3. ASSUME NEW id \in Waited(n) PROVE \E d \in Unbound(n) : d.id = id
  <2>1. CASE id \in Waited(m)
    BY <1>2, <2>1 DEF Settled
  <2>2. CASE id = c.id /\ c.index = InitIndex
    BY <2>2 DEF Unbound
  <2> QED
    BY <1>3, <2>1, <2>2 DEF Waited
<1>4. ASSUME n.pendingMo = n.pendingHangup PROVE n.pendingMo = NoId
  <2>1. CASE c.index # InitIndex
    BY <1>4, <2>1 DEF Settled
  <2>2. CASE c.index = InitIndex
    <3>1. CASE m.pendingHangup = NoId
      BY <1>4, <3>1
    <3>2. CASE m.pendingHangup # NoId
      <4>1. PICK d \in Range(m.table) : d.id = m.pendingHangup
        BY <3>2 DEF Settled, Waited, Unbound
      <4>2. /\ m.table \in Seq(Call) /\ m.lastCallId \in Nat
            /\ \A i \in DOMAIN m.table : m.table[i].id <= m.lastCallId
        BY ManagerFields DEF Good, Sound
      <4>3. d.id <= m.lastCallId /\ d.id \in Nat
        BY <4>1, <4>2, RangeIs, CallsAreCalls
      <4> QED
        BY <1>4, <2>2, <4>1, <4>2, <4>3
    <3> QED
      BY <3>1, <3>2
  <2> QED
    BY <2>1, <2>2
<1> QED
    BY <1>1, <1>3, <1>4 DEF Settled

\* DialingHandle with an index serves the report; without one it makes the
\* call of a dial, with the mark of that dial, if there is an entry for it.
LEMMA DialingHandleIs ==
    ASSUME NEW m, Good(m), NEW info \in AnyInfo
    PROVE  LET n == DialingHandle(m, info)
           IN  /\ Good(n) /\ Kept(m, n, info) /\ Settles(m, n)
               /\ info.index = InitIndex =>
                     \E c \in Call :
                        /\ c.id = m.lastCallId + 1 /\ n.lastCallId = c.id
                        /\ c.index = InitIndex /\ c.slot = info.slot
                        /\ c.ecc <=> m.dialEcc
                        /\ n.call.id = c.id /\ n.call \in Call
                        /\ \/ /\ Admits(m.table, c) /\ n.call = [c EXCEPT !.tel = "DIALING"]
                              /\ Range(n.table) = Range(m.table) \cup {n.call}
                           \/ /\ ~Admits(m.table, c)
                              /\ n.table = m.table
<1> DEFINE n == CreateNewCall(m, info, FALSE)
           added == AddOneCallObject(n, n.call)
           mo == [added EXCEPT !.pendingMo =
                     IF info.index = InitIndex THEN n.call.id ELSE @]
           o == UpdateCallState(mo, "DIALING")
           r == DialingHandle(m, info)
<1>0. \A S : KeyIn(S \cup {info}, info)
    BY DEF KeyIn
<1>1. r = IF info.index > 0 /\ UpdateDialingHandle(m.table, info)
          THEN UpdateDialingCallInfo(m, info)
          ELSE IF ~Admits(n.table, n.call) THEN n ELSE o
    BY DEF DialingHandle
<1>2. added = IF Admits(n.table, n.call) THEN Append1(n, n.call) ELSE n
    BY DEF AddOneCallObject
<1>3. /\ Good(n) /\ n.table = m.table /\ n.dialEcc = m.dialEcc
      /\ n.lastCallId = m.lastCallId + 1 /\ n.sent = m.sent
      /\ Steady(m, n)
      /\ n.call \in Call /\ n.call.id = m.lastCallId + 1
      /\ n.call.index = info.index /\ n.call.slot = info.slot
      /\ n.call.isIn = FALSE /\ (n.call.ecc <=> m.dialEcc)
      /\ Held(n) /\ Kept(m, n, info)
      /\ \A d \in Range(m.table) : d.id # n.call.id
  <2> DEFINE isIn == FALSE
  <2>1. isIn \in BOOLEAN /\ n = CreateNewCall(m, info, isIn)
    OBVIOUS
  <2> HIDE DEF n, isIn
  <2>2. /\ Good(n) /\ n.table = m.table /\ n.dialEcc = m.dialEcc
        /\ n.lastCallId = m.lastCallId + 1 /\ n.sent = m.sent
        /\ Steady(m, n)
        /\ n.call \in Call /\ n.call.id = m.lastCallId + 1
        /\ n.call.index = info.index /\ n.call.slot = info.slot
        /\ n.call.isIn = isIn /\ (n.call.ecc <=> ~isIn /\ m.dialEcc)
        /\ Held(n) /\ Kept(m, n, info)
        /\ \A d \in Range(m.table) : d.id # n.call.id
    BY <2>1, CreateNewCallIs
  <2> QED
    BY <2>2 DEF isIn
<1>4. m.table \in Seq(Call) /\ m.lastCallId \in Nat /\ info.index \in Nat
  <2>1. info.index \in Index \cup {0}
    BY DEF AnyInfo
  <2>2. Index \subseteq Nat
    BY CallManagerAssumption
  <2>3. info.index \in Nat
    <3>1. CASE info.index \in Index
      BY <2>2, <3>1
    <3>2. CASE info.index = 0
      BY <3>2
    <3> QED
      BY <2>1, <3>1, <3>2
  <2> QED
    BY <2>3, ManagerFields DEF Good
<1> HIDE DEF n
<1>5. CASE info.index > 0 /\ UpdateDialingHandle(m.table, info)
  <2>1. r = UpdateDialingCallInfo(m, info)
    BY <1>1, <1>5
  <2> HIDE DEF r
  <2>2. /\ Good(r) /\ Kept(m, r, info)
        /\ info.index # InitIndex => Settles(m, r)
    BY <2>1, UpdateDialingCallInfoIs
  <2>3. info.index # InitIndex
    BY <1>5, <1>4 DEF InitIndex
  <2> QED
    BY <2>2, <2>3 DEF r
<1>6. CASE /\ ~(info.index > 0 /\ UpdateDialingHandle(m.table, info))
           /\ ~Admits(n.table, n.call)
  <2>1. r = n
    BY <1>1, <1>6
  <2> HIDE DEF r
  <2>2. Settles(m, r)
    BY <2>1, <1>3, SteadySettles
  <2> QED
    BY <2>1, <2>2, <1>3, <1>6 DEF r
<1>7. CASE /\ ~(info.index > 0 /\ UpdateDialingHandle(m.table, info))
           /\ Admits(n.table, n.call)
  <2>1. r = o
    BY <1>1, <1>7
  <2>2. added = Append1(n, n.call)
    BY <1>2, <1>7
  <2>3. \A d \in Range(n.table) : Apart(n.call, d)
    <3>1. CASE info.index = InitIndex
      BY <3>1, <1>3 DEF Apart
    <3>2. CASE info.index # InitIndex
      <4>1. CallByKey(m.table, info.index, info.slot) = NoCall
        BY <3>2, <1>4, <1>7 DEF UpdateDialingHandle
      <4>2. \A d \in Range(m.table) : d.index # info.index \/ d.slot # info.slot
        BY <4>1, <1>4, CallByKeyIs, RangeIs
      <4> QED
        BY <4>2, <1>3 DEF Apart
    <3> QED
      BY <3>1, <3>2
  <2> HIDE DEF added
  <2>4. /\ Good(added) /\ Held(added) /\ added.call = n.call
        /\ added.lastCallId = n.lastCallId /\ added.dialEcc = n.dialEcc
        /\ added.sent = n.sent /\ added.pendingMo = n.pendingMo
        /\ added.pendingHangup = n.pendingHangup
        /\ Range(added.table) = Range(n.table) \cup {n.call}
    <3>1. \A d \in Range(n.table) : d.id # n.call.id /\ Apart(n.call, d)
      BY <1>3, <2>3
    <3>2. n.call.id <= n.lastCallId
      BY <1>3, <1>4
    <3>3. n.call.ecc => ~n.call.isIn /\ n.dialEcc
      BY <1>3
    <3>4. Admits(n.table, n.call) /\ n.call \in Call /\ Good(n)
      BY <1>3, <1>7
    <3> DEFINE new == n.call
               z == Append1(n, new)
    <3>5. added = z
      BY <2>2
    <3> HIDE DEF new, z
    <3>6. /\ Good(z) /\ Held(z) /\ z.call = new
          /\ z.lastCallId = n.lastCallId /\ z.dialEcc = n.dialEcc
          /\ z.sent = n.sent /\ z.pendingMo = n.pendingMo
          /\ z.pendingHangup = n.pendingHangup
          /\ Range(z.table) = Range(n.table) \cup {new}
      BY <3>1, <3>2, <3>3, <3>4, AppendIs DEF new, z
    <3> QED
      BY <3>5, <3>6 DEF new
  <2>5. /\ Good(mo) /\ Held(mo) /\ mo.call = n.call
        /\ mo.lastCallId = n.lastCallId /\ mo.dialEcc = n.dialEcc
        /\ mo.sent = n.sent /\ mo.table = added.table
        /\ mo.pendingMo = IF info.index = InitIndex THEN n.call.id ELSE n.pendingMo
        /\ mo.pendingHangup = n.pendingHangup
    <3>1. n.call.id \in Nat
      BY <1>3, CallsAreCalls
    <3>2. /\ mo \in Manager /\ Alike(added, mo) /\ mo.sent = added.sent
          /\ mo.pendingMo = IF info.index = InitIndex THEN n.call.id
                            ELSE added.pendingMo
          /\ mo.pendingHangup = added.pendingHangup
      BY <2>4, <3>1 DEF Good, Manager, Alike
    <3> HIDE DEF mo
    <3> QED
      BY <3>2, <2>4 DEF Good, Held, Alike
  <2> HIDE DEF mo, r
  <2>6. "DIALING" \in TelStates
    BY DEF TelStates
  <2>7. /\ Good(o) /\ Held(o) /\ o.call = [mo.call EXCEPT !.tel = "DIALING"]
        /\ o.lastCallId = mo.lastCallId /\ o.dialEcc = mo.dialEcc
        /\ o.sent = mo.sent /\ o.pendingMo = mo.pendingMo
        /\ o.pendingHangup = mo.pendingHangup
        /\ Range(o.table) = {d \in Range(mo.table) : d.id # o.call.id}
              \cup {d \in {o.call} : mo.call \in Range(mo.table)}
    <3> DEFINE c == [mo.call EXCEPT !.tel = "DIALING"]
    <3>1. /\ Good(o) /\ Held(o) /\ o.call = c
          /\ o.lastCallId = mo.lastCallId /\ o.dialEcc = mo.dialEcc
          /\ o.sent = mo.sent /\ o.pendingMo = mo.pendingMo
          /\ o.pendingHangup = mo.pendingHangup
          /\ Range(o.table) = {d \in Range(mo.table) : d.id # c.id}
                \cup {d \in {c} : mo.call \in Range(mo.table)}
      BY <2>5, <2>6, UpdateCallStateIs
    <3> HIDE DEF c, o
    <3> QED
      BY <3>1 DEF c
  <2> HIDE DEF o
  <2>8. /\ o.call \in Call /\ o.call.id = n.call.id /\ o.call.ecc = n.call.ecc
        /\ o.call.index = n.call.index /\ o.call.slot = n.call.slot
        /\ o.call.tel = "DIALING"
    BY <1>3, <2>5, <2>7 DEF Call, Held
  <2>9. Range(o.table) = Range(m.table) \cup {o.call}
    BY <1>3, <2>4, <2>5, <2>7, <2>8
  <2>10. Kept(m, o, info)
    <3>1. ASSUME NEW y \in Range(o.table)
          PROVE  /\ \/ m.lastCallId < y.id
                    \/ \E x \in Range(m.table) : x.id = y.id /\ (x.ecc => y.ecc)
                 /\ KeyIn(Range(m.table) \cup {info}, y)
      <4>1. CASE y \in Range(m.table)
        BY <4>1 DEF KeyIn
      <4>2. CASE y = o.call
        BY <4>2, <1>3, <1>4, <2>8 DEF KeyIn
      <4> QED
        BY <4>1, <4>2, <2>9
    <3>2. m.lastCallId <= o.lastCallId
      BY <1>3, <1>4, <2>5, <2>7
    <3> QED
      BY <3>1, <3>2, <1>3, <2>5, <2>7 DEF Kept
  <2>11. info.index = InitIndex =>
            /\ n.call \in Call
            /\ n.call.id = m.lastCallId + 1 /\ o.lastCallId = n.call.id
            /\ n.call.index = InitIndex /\ n.call.slot = info.slot
            /\ n.call.ecc <=> m.dialEcc
            /\ o.call.id = n.call.id /\ o.call \in Call
            /\ Admits(m.table, n.call) /\ o.call = [n.call EXCEPT !.tel = "DIALING"]
            /\ Range(o.table) = Range(m.table) \cup {o.call}
    BY <1>3, <1>7, <2>5, <2>7, <2>8, <2>9
  <2>12. Settles(m, o)
    <3>1. /\ o.pendingMo = IF o.call.index = InitIndex THEN o.call.id ELSE m.pendingMo
          /\ o.pendingHangup = m.pendingHangup
      BY <1>3, <2>5, <2>7, <2>8 DEF Steady
    <3>2. o.call \in Call /\ o.call.id = m.lastCallId + 1 /\ o.call.tel = "DIALING"
      BY <1>3, <2>8
    <3> QED
      BY <2>9, <3>1, <3>2, JoinSettles
  <2> QED
    BY <2>1, <2>7, <2>10, <2>11, <2>12 DEF r
<1> QED
    BY <1>5, <1>6, <1>7

\* RefreshDialingStateByOtherState hands the report the call of its key, or none.
LEMMA ResolveIs ==
    ASSUME NEW m, Good(m), NEW info \in AnyInfo
    PROVE  LET n == Resolve(m, info)
           IN  /\ Good(n) /\ Kept(m, n, info) /\ Settles(m, n)
               /\ n.call = NoCall =>
                     \A d \in Range(n.table) : ~HasKey(d, info)
               /\ n.call # NoCall =>
                     /\ n.call \in Range(n.table) /\ HasKey(n.call, info)
                     /\ Held(n)
                     /\ \A d \in Range(n.table) :
                           d.id # n.call.id => Apart(info, d)
<1> DEFINE n == Resolve(m, info)
           dialled == DialingHandle(m, [info EXCEPT !.state = "DIALING"])
<1>1. PICK k : /\ Good(k) /\ Kept(m, k, info) /\ n = Lookup(k, info)
               /\ Settles(m, k)
  <2>1. n = Lookup(m, info) \/ n = Lookup(dialled, info)
    BY DEF Resolve
  <2>2. [info EXCEPT !.state = "DIALING"] \in AnyInfo
        /\ HasKey([info EXCEPT !.state = "DIALING"], info)
    BY DEF AnyInfo, TelStates, HasKey
  <2>3. /\ Good(dialled) /\ Kept(m, dialled, [info EXCEPT !.state = "DIALING"])
        /\ Settles(m, dialled)
    BY <2>2, DialingHandleIs
  <2> HIDE DEF dialled, n
  <2>4. Kept(m, dialled, info)
    <3> DEFINE e == [info EXCEPT !.state = "DIALING"]
    <3>1. HasKey(e, info) /\ Kept(m, dialled, e)
      BY <2>2, <2>3
    <3> HIDE DEF e
    <3> QED
      BY <3>1 DEF Kept, KeyIn, HasKey
  <2>5. Kept(m, m, info) /\ Settles(m, m)
    BY KeptSelf DEF Alike, Settles
  <2> QED
    BY <2>1, <2>3, <2>4, <2>5
<1> HIDE DEF n
<1>2. /\ Good(n) /\ AsBefore(k, n)
      /\ n.call = NoCall => \A d \in Range(k.table) : ~HasKey(d, info)
      /\ n.call # NoCall =>
            /\ n.call \in Range(k.table) /\ HasKey(n.call, info)
            /\ Held(n)
      /\ Kept(k, n, info) /\ Settles(k, n)
    BY <1>1, LookupIs
<1>3. Kept(m, n, info)
    BY <1>1, <1>2 DEF Kept, AsBefore
<1>4. ASSUME n.call # NoCall
      PROVE  \A d \in Range(n.table) : d.id # n.call.id => Apart(info, d)
  <2>1. n.call \in Range(n.table)
    BY <1>2, <1>4 DEF AsBefore
  <2> QED
    BY <1>2, <1>4, <2>1, OthersApart
<1>5. Settles(m, n)
    BY <1>1, <1>2 DEF Settles
<1> QED
    BY <1>2, <1>3, <1>4, <1>5 DEF n, AsBefore

-----------------------------------------------------------------------------
\* The key of a report is the reported one.
LEMMA InfoKey == \A S, info : KeyIn(S \cup {info}, info)
BY DEF KeyIn

\* States the handlers name.
LEMMA FinalStates ==
    /\ "ACTIVE" \in TelStates /\ "ALERTING" \in TelStates
    /\ "DISCONNECTED" \in TelStates /\ "DIALING" \in TelStates
BY DEF TelStates

\* A bound call is named by no pending flag, so ClearPendingState does nothing,
LEMMA ClearSettles ==
    ASSUME NEW m, Good(m), m.call \in Range(m.table), m.call.index # InitIndex
    PROVE  Settles(m, ClearPendingState(m))
<1> DEFINE n == ClearPendingState(m)
<1>1. m \in Manager /\ m.call \in Call
    BY RangeIs, ManagerFields DEF Good
<1>2. /\ Quiet(m, n)
      /\ n.pendingMo = IF m.pendingMo = m.call.id THEN NoId ELSE m.pendingMo
      /\ n.pendingHangup = IF m.pendingHangup = m.call.id THEN NoId
                           ELSE m.pendingHangup
    BY <1>1, ClearPendingIs
<1> HIDE DEF n
<1>3. \A d \in Range(m.table) : d.id = m.call.id => d = m.call
    BY DEF Good, Sound, Range
<1>4. Touched(m, n, m.call)
    BY <1>2, <1>3 DEF Touched, Quiet, Alike
<1> QED
    BY <1>4, TouchedSettles DEF n

\* and a new state of it disturbs nothing.
LEMMA StateSettles ==
    ASSUME NEW m, Good(m), Held(m), m.call.index # InitIndex,
           Range(m.table) # {}, NEW next \in TelStates
    PROVE  Settles(m, UpdateCallState(m, next))
<1> DEFINE c == [m.call EXCEPT !.tel = next]
           n == UpdateCallState(m, next)
<1>1. /\ n.pendingMo = m.pendingMo /\ n.pendingHangup = m.pendingHangup
      /\ Range(n.table) = {d \in Range(m.table) : d.id # c.id}
            \cup {d \in {c} : m.call \in Range(m.table)}
    BY UpdateCallStateIs
<1>2. c.id = m.call.id /\ c.index = m.call.index
    BY DEF Held, Call
<1> HIDE DEF c, n
<1>3. CASE m.call \in Range(m.table)
  <2>1. Touched(m, n, m.call)
    <3>1. {d \in Range(n.table) : d.id # m.call.id} =
          {d \in Range(m.table) : d.id # m.call.id}
      BY <1>1, <1>2
    <3>2. \A d \in Range(n.table) : d.id = m.call.id => d.index # InitIndex
      BY <1>1, <1>2
    <3>3. Range(n.table) # {}
      BY <1>1, <1>3
    <3> QED
      BY <1>1, <3>1, <3>2, <3>3 DEF Touched
  <2> QED
    BY <1>3, <2>1, TouchedSettles DEF n
<1>4. CASE m.call \notin Range(m.table)
  <2>1. Range(n.table) = Range(m.table)
    BY <1>1, <1>2, <1>4 DEF Held
  <2>2. Settles(m, n)
    BY <1>1, <2>1 DEF Settles, Settled, Unbound, Waited
  <2> QED
    BY <2>2 DEF n
<1> QED
    BY <1>3, <1>4

\* ActiveHandle.
LEMMA ActiveHandleIs ==
    ASSUME NEW m, Good(m), NEW info \in AnyInfo
    PROVE  LET n == ActiveHandle(m, info)
           IN  /\ Good(n) /\ Kept(m, n, info)
               /\ info.index # InitIndex => Settles(m, n)
<1> DEFINE r == Resolve(m, info)
           p == ClearPendingState(r)
           f == RefreshCallIfNecessary(p, info)
           u == UpdateCallState(f, "ACTIVE")
           n == ActiveHandle(m, info)
<1>1. n = IF r.call = NoCall THEN r ELSE u
    BY DEF ActiveHandle
<1>2. /\ Good(r) /\ Kept(m, r, info) /\ Settles(m, r)
      /\ r.call # NoCall =>
            /\ r.call \in Range(r.table) /\ Held(r) /\ HasKey(r.call, info)
            /\ \A d \in Range(r.table) : d.id # r.call.id => Apart(info, d)
    BY ResolveIs
<1> HIDE DEF r
<1>3. CASE r.call = NoCall
  <2>1. n = r
    BY <1>1, <1>3
  <2> HIDE DEF n
  <2> QED
    BY <2>1, <1>2 DEF n
<1>4. CASE r.call # NoCall
  <2>1. Quiet(r, p) /\ (info.index # InitIndex => Settles(r, p))
    BY <1>2, <1>4, ClearPendingIs, ClearSettles DEF Good, Held, HasKey
  <2> HIDE DEF p
  <2>2. Good(p) /\ Held(p) /\ Kept(r, p, info)
    BY <1>2, <1>4, <2>1, QuietIs
  <2>3. /\ p.call \in Range(p.table) /\ HasKey(p.call, info)
        /\ \A d \in Range(p.table) : d.id # p.call.id => Apart(info, d)
    BY <1>2, <1>4, <2>1 DEF Quiet, Alike
  <2>4. /\ Good(f) /\ Held(f) /\ Kept(p, f, info) /\ HasKey(f.call, info)
        /\ Range(f.table) # {}
        /\ info.index # InitIndex => Settles(p, f)
    BY <2>2, <2>3, RefreshSettles
  <2> HIDE DEF f
  <2>5. /\ Good(u) /\ Kept(f, u, info)
        /\ info.index # InitIndex => Settles(f, u)
    BY <2>4, FinalStates, UpdateCallStateIs, StateSettles DEF HasKey
  <2> HIDE DEF u
  <2>6. Kept(m, p, info)
    BY <1>2, <2>2, InfoKey, KeptTrans
  <2>7. Kept(m, f, info)
    BY <2>2, <2>4, <2>6, InfoKey, KeptTrans
  <2>8. Kept(m, u, info)
    BY <2>4, <2>5, <2>7, InfoKey, KeptTrans
  <2>9. n = u
    BY <1>1, <1>4
  <2>10. info.index # InitIndex => Settles(m, p) /\ Settles(m, u)
    BY <1>2, <2>1, <2>4, <2>5 DEF Settles
  <2> HIDE DEF n
  <2> QED
    BY <2>5, <2>8, <2>9, <2>10 DEF n
<1> QED
    BY <1>3, <1>4

\* AlertHandle.
LEMMA AlertHandleIs ==
    ASSUME NEW m, Good(m), NEW info \in AnyInfo
    PROVE  LET n == AlertHandle(m, info)
           IN  /\ Good(n) /\ Kept(m, n, info)
               /\ info.index # InitIndex => Settles(m, n)
<1> DEFINE r == Resolve(m, info)
           p == ClearPendingState(r)
           f == RefreshCallIfNecessary(p, info)
           u == UpdateCallState(f, "ALERTING")
           n == AlertHandle(m, info)
<1>1. n = IF r.call = NoCall THEN r
          ELSE IF p.call.tel = "DISCONNECTING" THEN p ELSE u
    BY DEF AlertHandle
<1>2. /\ Good(r) /\ Kept(m, r, info) /\ Settles(m, r)
      /\ r.call # NoCall =>
            /\ r.call \in Range(r.table) /\ Held(r) /\ HasKey(r.call, info)
            /\ \A d \in Range(r.table) : d.id # r.call.id => Apart(info, d)
    BY ResolveIs
<1> HIDE DEF r
<1>3. CASE r.call = NoCall
  <2>1. n = r
    BY <1>1, <1>3
  <2> HIDE DEF n
  <2> QED
    BY <2>1, <1>2 DEF n
<1>4. CASE r.call # NoCall
  <2>1. Quiet(r, p) /\ (info.index # InitIndex => Settles(r, p))
    BY <1>2, <1>4, ClearPendingIs, ClearSettles DEF Good, Held, HasKey
  <2> HIDE DEF p
  <2>2. Good(p) /\ Held(p) /\ Kept(r, p, info)
    BY <1>2, <1>4, <2>1, QuietIs
  <2>3. /\ p.call \in Range(p.table) /\ HasKey(p.call, info)
        /\ \A d \in Range(p.table) : d.id # p.call.id => Apart(info, d)
    BY <1>2, <1>4, <2>1 DEF Quiet, Alike
  <2>4. /\ Good(f) /\ Held(f) /\ Kept(p, f, info) /\ HasKey(f.call, info)
        /\ Range(f.table) # {}
        /\ info.index # InitIndex => Settles(p, f)
    BY <2>2, <2>3, RefreshSettles
  <2> HIDE DEF f
  <2>5. /\ Good(u) /\ Kept(f, u, info)
        /\ info.index # InitIndex => Settles(f, u)
    BY <2>4, FinalStates, UpdateCallStateIs, StateSettles DEF HasKey
  <2> HIDE DEF u
  <2>6. Kept(m, p, info)
    BY <1>2, <2>2, InfoKey, KeptTrans
  <2>7. Kept(m, f, info)
    BY <2>2, <2>4, <2>6, InfoKey, KeptTrans
  <2>8. Kept(m, u, info)
    BY <2>4, <2>5, <2>7, InfoKey, KeptTrans
  <2>9. n = u \/ n = p
    BY <1>1, <1>4
  <2>10. info.index # InitIndex => Settles(m, p) /\ Settles(m, u)
    BY <1>2, <2>1, <2>4, <2>5 DEF Settles
  <2> HIDE DEF n
  <2> QED
    BY <2>2, <2>5, <2>6, <2>8, <2>9, <2>10 DEF n
<1> QED
    BY <1>3, <1>4

\* HoldingHandle and DisconnectingHandle.
LEMMA KnownHandleIs ==
    ASSUME NEW m, Good(m), NEW info \in AnyInfo
    PROVE  LET n == KnownHandle(m, info)
           IN  /\ Good(n) /\ Kept(m, n, info)
               /\ info.index # InitIndex => Settles(m, n)
<1> DEFINE r == Lookup(m, info)
           f == RefreshCallIfNecessary(r, info)
           u == UpdateCallState(f, info.state)
           n == KnownHandle(m, info)
<1>1. n = IF r.call = NoCall THEN r ELSE u
    BY DEF KnownHandle
<1>2. /\ Good(r) /\ AsBefore(m, r) /\ Kept(m, r, info) /\ Settles(m, r)
      /\ r.call # NoCall =>
            /\ r.call \in Range(m.table) /\ HasKey(r.call, info)
            /\ Held(r)
    BY LookupIs
<1> HIDE DEF r
<1>3. CASE r.call = NoCall
  <2>1. n = r
    BY <1>1, <1>3
  <2> HIDE DEF n
  <2> QED
    BY <2>1, <1>2 DEF n
<1>4. CASE r.call # NoCall
  <2>1. r.call \in Range(r.table)
    BY <1>2, <1>4 DEF AsBefore
  <2>2. \A d \in Range(r.table) : d.id # r.call.id => Apart(info, d)
    BY <1>2, <1>4, <2>1, OthersApart
  <2>3. /\ Good(f) /\ Held(f) /\ Kept(r, f, info) /\ HasKey(f.call, info)
        /\ Range(f.table) # {}
        /\ info.index # InitIndex => Settles(r, f)
    BY <1>2, <1>4, <2>1, <2>2, RefreshSettles
  <2> HIDE DEF f
  <2>4. info.state \in TelStates
    BY DEF AnyInfo
  <2>5. /\ Good(u) /\ Kept(f, u, info)
        /\ info.index # InitIndex => Settles(f, u)
    BY <2>3, <2>4, UpdateCallStateIs, StateSettles DEF HasKey
  <2> HIDE DEF u
  <2>6. Kept(m, f, info)
    BY <1>2, <2>3, InfoKey, KeptTrans
  <2>7. Kept(m, u, info)
    BY <2>3, <2>5, <2>6, InfoKey, KeptTrans
  <2>8. n = u
    BY <1>1, <1>4
  <2>9. info.index # InitIndex => Settles(m, u)
    BY <1>2, <2>3, <2>5 DEF Settles
  <2> HIDE DEF n
  <2> QED
    BY <2>5, <2>7, <2>8, <2>9 DEF n
<1> QED
    BY <1>3, <1>4

\* HandleHoldCallOrAutoAnswerCall only sends a command.
LEMMA AutoUnHoldIs ==
    ASSUME NEW m, Good(m), NEW prior
    PROVE  Quiet(m, AutoUnHold(m, prior)) /\ Steady(m, AutoUnHold(m, prior))
<1> DEFINE held == CallInState(m.table, "HOLD")
<1>1. \/ AutoUnHold(m, prior) = m
      \/ held # NoCall /\ AutoUnHold(m, prior) = Send(m, "UnHold", held)
    BY DEF AutoUnHold
<1>2. held # NoCall => held \in Call
    BY CallInStateIs, RangeIs, ManagerFields DEF Good
<1> HIDE DEF held
<1>3. CASE AutoUnHold(m, prior) = m
    BY <1>3 DEF Good, Quiet, Alike, Steady
<1>4. CASE held # NoCall /\ AutoUnHold(m, prior) = Send(m, "UnHold", held)
  <2>1. m \in Manager /\ held \in Call
    BY <1>2, <1>4 DEF Good
  <2>2. Quiet(m, Send(m, "UnHold", held)) /\ Steady(m, Send(m, "UnHold", held))
    BY <2>1, SendIs
  <2> QED
    BY <1>4, <2>2
<1> QED
    BY <1>1, <1>3, <1>4

\* DisconnectedHandle ends the call; afterwards no call has its key, also when
\* RefreshCall had lost it.
LEMMA DisconnectedHandleIs ==
    ASSUME NEW m, Good(m), NEW info \in AnyInfo
    PROVE  LET n == DisconnectedHandle(m, info)
           IN  /\ Good(n) /\ Kept(m, n, info) /\ Settles(m, n)
               /\ info.index # InitIndex =>
                     \A d \in Range(n.table) : ~HasKey(d, info)
<1> DEFINE r == Resolve(m, info)
           f == RefreshCallIfNecessary(r, info)
           p == ClearPendingState(f)
           u == UpdateCallState(p, "DISCONNECTED")
           a == AutoUnHold(u, p.call.tel)
           n == DisconnectedHandle(m, info)
<1>1. n = IF r.call = NoCall THEN r ELSE Delete(a)
    BY DEF DisconnectedHandle
<1>2. /\ Good(r) /\ Kept(m, r, info) /\ Settles(m, r)
      /\ r.call = NoCall => \A d \in Range(r.table) : ~HasKey(d, info)
      /\ r.call # NoCall =>
            /\ r.call \in Range(r.table) /\ Held(r) /\ HasKey(r.call, info)
            /\ \A d \in Range(r.table) : d.id # r.call.id => Apart(info, d)
    BY ResolveIs
<1> HIDE DEF r
<1>3. CASE r.call = NoCall
  <2>1. n = r
    BY <1>1, <1>3
  <2> HIDE DEF n
  <2> QED
    BY <2>1, <1>2, <1>3 DEF n
<1>4. CASE r.call # NoCall
  <2>1. /\ Good(f) /\ Held(f) /\ Kept(r, f, info) /\ f.call.id = r.call.id
        /\ {d \in Range(f.table) : d.id # r.call.id} =
           {d \in Range(r.table) : d.id # r.call.id}
        /\ f.pendingMo = r.pendingMo /\ f.pendingHangup = r.pendingHangup
    BY <1>2, <1>4, RefreshIfNecessaryIs
  <2> HIDE DEF f
  <2>2. /\ Quiet(f, p)
        /\ p.pendingMo = IF f.pendingMo = f.call.id THEN NoId ELSE f.pendingMo
        /\ p.pendingHangup = IF f.pendingHangup = f.call.id THEN NoId
                             ELSE f.pendingHangup
    BY <2>1, ClearPendingIs DEF Good, Held
  <2> HIDE DEF p
  <2>3. Good(p) /\ Held(p) /\ Kept(f, p, info)
    BY <2>1, <2>2, QuietIs
  <2>4. /\ Good(u) /\ Held(u) /\ Kept(p, u, info) /\ u.call.id = p.call.id
        /\ {d \in Range(u.table) : d.id # p.call.id} =
           {d \in Range(p.table) : d.id # p.call.id}
        /\ u.pendingMo = p.pendingMo /\ u.pendingHangup = p.pendingHangup
        /\ (\A d \in Range(p.table) : d.id = p.call.id) => Silent(u)
    <3> DEFINE c == [p.call EXCEPT !.tel = "DISCONNECTED"]
    <3>1. /\ Good(u) /\ Held(u) /\ u.call = c
          /\ Range(u.table) = {d \in Range(p.table) : d.id # c.id}
                \cup {d \in {c} : p.call \in Range(p.table)}
          /\ Kept(p, u, info)
          /\ u.pendingMo = p.pendingMo /\ u.pendingHangup = p.pendingHangup
          /\ (\A d \in Range(p.table) : d.id = p.call.id) => Silent(u)
      BY <2>3, FinalStates, UpdateCallStateIs
    <3>2. c.id = p.call.id
      BY <2>3 DEF Held, Call
    <3> HIDE DEF c, u
    <3> QED
      BY <3>1, <3>2
  <2> HIDE DEF u
  <2>5. Quiet(u, a) /\ Steady(u, a)
    BY <2>4, AutoUnHoldIs
  <2> HIDE DEF a
  <2>6. Good(a) /\ Kept(u, a, info)
    BY <2>4, <2>5, QuietIs
  <2> DEFINE o == Delete(a)
  <2>7. /\ Good(o) /\ Kept(a, o, info) /\ Steady(a, o)
        /\ Range(o.table) = {d \in Range(a.table) : d.id # a.call.id}
    BY <2>6, DeleteIs
  <2> HIDE DEF o
  <2>8. Kept(m, f, info)
    BY <1>2, <2>1, InfoKey, KeptTrans
  <2>9. Kept(m, p, info)
    BY <2>1, <2>3, <2>8, InfoKey, KeptTrans
  <2>10. Kept(m, u, info)
    BY <2>3, <2>4, <2>9, InfoKey, KeptTrans
  <2>11. Kept(m, a, info)
    BY <2>4, <2>6, <2>10, InfoKey, KeptTrans
  <2>12. Kept(m, o, info)
    BY <2>6, <2>7, <2>11, InfoKey, KeptTrans
  <2>13. Range(o.table) = {d \in Range(r.table) : d.id # r.call.id}
    <3>1. a.table = u.table /\ a.call = u.call /\ p.table = f.table /\ p.call = f.call
      BY <2>2, <2>5 DEF Quiet, Alike
    <3> QED
      BY <3>1, <2>1, <2>4, <2>7
  <2>14. info.index # InitIndex => \A d \in Range(o.table) : ~HasKey(d, info)
    BY <2>13, <1>2, <1>4 DEF HasKey, Apart
  <2>15. n = o
    BY <1>1, <1>4 DEF o
  <2>16. Touched(r, o, r.call)
    <3>1. /\ p.call.id = r.call.id /\ p.table = f.table /\ f.call.id = r.call.id
          /\ o.pendingMo = p.pendingMo /\ o.pendingHangup = p.pendingHangup
          /\ Tones(o) = Tones(u)
      BY <2>1, <2>2, <2>4, <2>5, <2>7 DEF Quiet, Alike, Steady
    <3>2. r.call.id # NoId
      BY <1>2, <1>4, CallsAreCalls DEF Held
    <3>3. /\ o.pendingMo \in {r.pendingMo, NoId} \ {r.call.id}
          /\ o.pendingHangup \in {r.pendingHangup, NoId} \ {r.call.id}
      BY <2>1, <2>2, <3>1, <3>2
    <3>4. ASSUME Range(o.table) = {} PROVE Silent(o)
      <4>1. \A d \in Range(f.table) : d.id = r.call.id
        BY <2>1, <2>13, <3>4
      <4>2. Silent(u)
        BY <2>4, <3>1, <4>1
      <4> QED
        BY <3>1, <4>2 DEF Silent
    <3> QED
      BY <2>13, <3>3, <3>4 DEF Touched
  <2>17. Settles(m, o)
    BY <1>2, <1>4, <2>16, TouchedSettles DEF Settles
  <2> HIDE DEF n
  <2> QED
    BY <2>7, <2>12, <2>14, <2>15, <2>17 DEF n
<1> QED
    BY <1>3, <1>4

\* DealFailDial is the DISCONNECTED of a call of the table.
LEMMA DealFailDialIs ==
    ASSUME NEW m, Good(m), NEW c \in Range(m.table), NEW info
    PROVE  LET n == DealFailDial(m, c)
           IN  Good(n) /\ Kept(m, n, info) /\ Settles(m, n)
<1> DEFINE e == [index |-> c.index, slot |-> c.slot, state |-> "DISCONNECTED",
                 type |-> c.type]
           n == DisconnectedHandle(m, e)
<1>1. c \in Call
    BY RangeIs, ManagerFields DEF Good
<1>2. e \in AnyInfo /\ HasKey(e, c)
    BY <1>1, FinalStates DEF AnyInfo, Call, HasKey
<1>3. DealFailDial(m, c) = n
    BY DEF DealFailDial
<1> HIDE DEF e
<1>4. Good(n) /\ Kept(m, n, e) /\ Settles(m, n)
    BY <1>2, DisconnectedHandleIs
<1>5. KeyIn(Range(m.table), e)
    BY <1>2 DEF KeyIn, HasKey
<1> HIDE DEF n
<1> QED
    BY <1>3, <1>4, <1>5, KeptAnyKey

\* IncomingHandle makes a call only for a key that is free.
LEMMA IncomingHandleIs ==
    ASSUME NEW m, Good(m), NEW info \in AnyInfo
    PROVE  LET n == IncomingHandle(m, info)
           IN  /\ Good(n) /\ Kept(m, n, info)
               /\ info.index # InitIndex => Settles(m, n)
<1> DEFINE mo == CallByIndex(m.table, InitIndex)
           d == IF mo = NoCall THEN m ELSE DealFailDial(m, mo)
           old == Lookup(d, info)
           n == CreateNewCall(d, info, TRUE)
           f == RefreshCall(old, info)
           a == Append1(n, n.call)
           r == IncomingHandle(m, info)
<1>1. \/ r = d /\ old.call # NoCall
      \/ r = UpdateCallState(f, info.state) /\ old.call # NoCall
      \/ /\ r = UpdateCallState(a, info.state) /\ old.call = NoCall
         /\ Admits(n.table, n.call)
      \/ r = Send(n, "HangUp", n.call)
    BY DEF IncomingHandle
<1>2. info.state \in TelStates
    BY DEF AnyInfo
<1> HIDE DEF r
<1>3. Good(d) /\ Kept(m, d, info) /\ Settles(m, d)
  <2>1. CASE mo = NoCall
    BY <2>1, KeptSelf DEF Alike, Settles
  <2>2. CASE mo # NoCall
    <3>1. mo \in Range(m.table)
      BY <2>2, CallByIndexIs, RangeIs, ManagerFields DEF Good
    <3> HIDE DEF mo
    <3>2. d = DealFailDial(m, mo)
      BY <2>2
    <3> HIDE DEF d
    <3> QED
      BY <3>1, <3>2, DealFailDialIs
  <2> QED
    BY <2>1, <2>2
<1> HIDE DEF d
<1>4. /\ Good(old) /\ AsBefore(d, old) /\ Kept(d, old, info) /\ Settles(d, old)
      /\ old.call = NoCall => \A x \in Range(d.table) : ~HasKey(x, info)
      /\ old.call # NoCall =>
            /\ old.call \in Range(d.table) /\ HasKey(old.call, info)
            /\ Held(old)
    BY <1>3, LookupIs
<1> HIDE DEF old
<1>5. /\ Good(n) /\ n.table = d.table /\ n.dialEcc = d.dialEcc
      /\ n.lastCallId = d.lastCallId + 1
      /\ n.call \in Call /\ n.call.id = d.lastCallId + 1
      /\ HasKey(n.call, info) /\ ~n.call.ecc
      /\ Kept(d, n, info) /\ Steady(d, n)
      /\ \A x \in Range(d.table) : x.id # n.call.id
  <2> DEFINE isIn == TRUE
  <2>1. isIn \in BOOLEAN /\ n = CreateNewCall(d, info, isIn)
    OBVIOUS
  <2> HIDE DEF n, isIn
  <2>2. /\ Good(n) /\ n.table = d.table /\ n.dialEcc = d.dialEcc
        /\ n.lastCallId = d.lastCallId + 1
        /\ n.call \in Call /\ n.call.id = d.lastCallId + 1
        /\ n.call.index = info.index /\ n.call.slot = info.slot
        /\ (n.call.ecc <=> ~isIn /\ d.dialEcc)
        /\ Kept(d, n, info) /\ Steady(d, n)
        /\ \A x \in Range(d.table) : x.id # n.call.id
    BY <1>3, <2>1, CreateNewCallIs
  <2> QED
    BY <2>2 DEF isIn, HasKey
<1> HIDE DEF n
<1>6. Kept(m, n, info)
    BY <1>3, <1>5, InfoKey, KeptTrans
<1>7. ASSUME r = d
      PROVE  Good(r) /\ Kept(m, r, info) /\ Settles(m, r)
    BY <1>3, <1>7
<1>8. ASSUME r = UpdateCallState(f, info.state), old.call # NoCall
      PROVE  /\ Good(r) /\ Kept(m, r, info)
             /\ info.index # InitIndex => Settles(m, r)
  <2>1. old.call \in Range(old.table)
    BY <1>4, <1>8 DEF AsBefore
  <2>2. \A x \in Range(old.table) : x.id # old.call.id => Apart(info, x)
    BY <1>4, <1>8, <2>1, OthersApart
  <2>3. /\ Good(f) /\ Held(f) /\ Kept(old, f, info) /\ f.call.id = old.call.id
        /\ \/ f.call.index = info.index /\ f.call.slot = info.slot
           \/ f.call = old.call
        /\ f.pendingMo = old.pendingMo /\ f.pendingHangup = old.pendingHangup
        /\ {x \in Range(f.table) : x.id # old.call.id} =
           {x \in Range(old.table) : x.id # old.call.id}
        /\ Range(f.table) # {}
    BY <1>4, <1>8, <2>1, <2>2, RefreshCallIs
  <2> HIDE DEF f
  <2>8. HasKey(f.call, info) /\ HasKey(old.call, info)
    BY <1>4, <1>8, <2>3 DEF HasKey
  <2>9. ASSUME info.index # InitIndex PROVE Settles(m, r)
    <3>1. \A x \in Range(f.table) : x.id = old.call.id => x.index # InitIndex
      BY <2>3, <2>8, <2>9 DEF Held, HasKey
    <3>2. Touched(old, f, old.call)
      BY <2>3, <2>8, <2>9, <3>1 DEF Touched, HasKey
    <3>3. Settles(old, f)
      BY <1>4, <2>1, <3>2, TouchedSettles
    <3>4. Settles(f, r)
      BY <1>2, <1>8, <2>3, <2>8, <2>9, StateSettles DEF HasKey
    <3> QED
      BY <1>3, <1>4, <3>3, <3>4 DEF Settles
  <2>4. Good(r) /\ Kept(f, r, info)
    BY <1>2, <1>8, <2>3, UpdateCallStateIs
  <2>5. Kept(m, old, info)
    BY <1>3, <1>4, InfoKey, KeptTrans
  <2>6. Kept(m, f, info)
    BY <1>4, <2>3, <2>5, InfoKey, KeptTrans
  <2>7. Kept(m, r, info)
    BY <2>3, <2>4, <2>6, InfoKey, KeptTrans
  <2> QED
    BY <2>4, <2>7, <2>9
<1>9. ASSUME r = UpdateCallState(a, info.state), old.call = NoCall,
             Admits(n.table, n.call)
      PROVE  /\ Good(r) /\ Kept(m, r, info)
             /\ info.index # InitIndex => Settles(m, r)
  <2>1. \A x \in Range(n.table) : x.id # n.call.id /\ Apart(n.call, x)
    BY <1>4, <1>5, <1>9 DEF HasKey, Apart
  <2>2. n.call.id <= n.lastCallId
    BY <1>3, <1>5, ManagerFields DEF Good
  <2>3. /\ Good(a) /\ Held(a) /\ a.call = n.call
        /\ a.lastCallId = n.lastCallId /\ a.dialEcc = n.dialEcc
        /\ a.sent = n.sent /\ a.pendingMo = n.pendingMo
        /\ a.pendingHangup = n.pendingHangup
        /\ Range(a.table) = Range(n.table) \cup {n.call}
    <3> DEFINE new == n.call
               z == Append1(n, new)
    <3>1. /\ Good(n) /\ new \in Call /\ new.id <= n.lastCallId
          /\ \A x \in Range(n.table) : x.id # new.id /\ Apart(new, x)
          /\ new.ecc => ~new.isIn /\ n.dialEcc
          /\ Admits(n.table, new)
      BY <1>5, <1>9, <2>1, <2>2
    <3>2. a = z
      OBVIOUS
    <3> HIDE DEF new, z, a
    <3>3. /\ Good(z) /\ Held(z) /\ z.call = new
          /\ z.lastCallId = n.lastCallId /\ z.dialEcc = n.dialEcc
          /\ z.sent = n.sent /\ z.pendingMo = n.pendingMo
          /\ z.pendingHangup = n.pendingHangup
          /\ Range(z.table) = Range(n.table) \cup {new}
      BY <3>1, AppendIs DEF z
    <3> QED
      BY <3>2, <3>3 DEF new
  <2> HIDE DEF a
  <2>4. Good(r) /\ Kept(a, r, info)
    BY <1>2, <1>9, <2>3, UpdateCallStateIs
  <2>5. Kept(d, a, info)
    <3>1. ASSUME NEW y \in Range(a.table)
          PROVE  /\ \/ d.lastCallId < y.id
                    \/ \E x \in Range(d.table) : x.id = y.id /\ (x.ecc => y.ecc)
                 /\ KeyIn(Range(d.table) \cup {info}, y)
      <4>1. CASE y \in Range(d.table)
        BY <4>1 DEF KeyIn
      <4>2. CASE y = n.call
        BY <4>2, <1>3, <1>5, ManagerFields DEF KeyIn, HasKey, Good
      <4> QED
        BY <4>1, <4>2, <1>5, <2>3
    <3> QED
      BY <3>1, <1>5, <2>3 DEF Kept
  <2>6. Kept(m, a, info)
    BY <1>3, <2>3, <2>5, InfoKey, KeptTrans
  <2>7. Kept(m, r, info)
    BY <2>3, <2>4, <2>6, InfoKey, KeptTrans
  <2>8. ASSUME info.index # InitIndex PROVE Settles(m, r)
    <3>1. n.call.index # InitIndex
      BY <1>5, <2>8 DEF HasKey
    <3>2. /\ Range(a.table) = Range(d.table) \cup {n.call}
          /\ a.pendingMo = d.pendingMo /\ a.pendingHangup = d.pendingHangup
      BY <1>5, <2>3 DEF Steady
    <3>3. Settles(d, a)
      BY <1>3, <1>5, <3>1, <3>2, JoinSettles
    <3>4. Settles(a, r)
      BY <1>2, <1>9, <2>3, <3>1, StateSettles
    <3> QED
      BY <1>3, <3>3, <3>4 DEF Settles
  <2> QED
    BY <2>4, <2>7, <2>8
<1>10. ASSUME r = Send(n, "HangUp", n.call)
      PROVE  Good(r) /\ Kept(m, r, info) /\ Settles(m, r)
  <2>1. Quiet(n, r) /\ Steady(n, r)
    BY <1>5, <1>10, SendIs DEF Good
  <2>2. Good(r) /\ Kept(n, r, info)
    BY <1>5, <2>1, QuietIs
  <2>3. Kept(m, r, info)
    BY <1>5, <1>6, <2>2, InfoKey, KeptTrans
  <2>4. Settles(d, r)
    <3>1. r.table = d.table /\ Steady(d, r)
      BY <1>5, <2>1 DEF Quiet, Alike, Steady
    <3> QED
      BY <3>1, SteadySettles
  <2> QED
    BY <1>3, <2>2, <2>3, <2>4 DEF Settles
<1>11. /\ Good(r) /\ Kept(m, r, info)
       /\ info.index # InitIndex => Settles(m, r)
    BY <1>1, <1>7, <1>8, <1>9, <1>10
<1> QED
    BY <1>11 DEF r

\* HandleCallReportInfo: whatever is reported, and in whatever order.
LEMMA HandleCallReportInfoIs ==
    ASSUME NEW m, Good(m), NEW info \in AnyInfo
    PROVE  LET n == HandleCallReportInfo(m, info)
           IN  /\ Good(n) /\ Kept(m, n, info)
               /\ info.index # InitIndex => Settles(m, n)
               /\ info.state = "DISCONNECTED" /\ info.index # InitIndex =>
                     \A d \in Range(n.table) : ~HasKey(d, info)
<1>1. info.state \in TelStates
    BY DEF AnyInfo
<1>2. CASE info.state = "ACTIVE"
    BY <1>2, ActiveHandleIs DEF HandleCallReportInfo
<1>3. CASE info.state = "ALERTING"
    BY <1>3, AlertHandleIs DEF HandleCallReportInfo
<1>4. CASE info.state = "DIALING"
  <2>1. HandleCallReportInfo(m, info) = DialingHandle(m, info)
    BY <1>4 DEF HandleCallReportInfo
  <2>2. /\ Good(DialingHandle(m, info)) /\ Kept(m, DialingHandle(m, info), info)
        /\ Settles(m, DialingHandle(m, info))
    BY DialingHandleIs
  <2> QED
    BY <1>4, <2>1, <2>2
<1>5. CASE info.state \in {"INCOMING", "WAITING"}
    BY <1>5, IncomingHandleIs DEF HandleCallReportInfo
<1>6. CASE info.state \in {"HOLDING", "DISCONNECTING"}
    BY <1>6, KnownHandleIs DEF HandleCallReportInfo
<1>7. CASE info.state = "DISCONNECTED"
    BY <1>7, DisconnectedHandleIs DEF HandleCallReportInfo
<1> QED
    BY <1>1, <1>2, <1>3, <1>4, <1>5, <1>6, <1>7 DEF TelStates

-----------------------------------------------------------------------------
\* The types of the other variables. "end" is never posted: EndCall posts the
\* request it has chosen.
Commands == [cmd : {"Dial", "Answer", "HangUp", "HangUpActive", "Hold",
                    "UnHold", "Switch"}, id : Nat]
Telling == [id : Nat, state : TelStates \cup {"ANSWERED"}]
Posted == [op : ControlOps \ {"end"}, id : Nat]
Results == {"none", "ok", "refused", "full", "failed"} \cup FailedRequests

\* The inductive invariant of the state between two tasks of the loop.
TypeInv ==
    /\ Good(Now)
    /\ requests \in Seq(Posted)
    /\ details \in [Slots -> [Index -> Entry \cup {Absent}]]
    /\ todo \in Seq(Info)
    /\ sent \in SUBSET Commands /\ told \in Seq(Telling)
    /\ result \in Results

\* The steps that are not reports bring no key.
NoKey == [index |-> InitIndex]

\* An answer is sent only for a call that rings, seen from before the step.
Asked(n) ==
    \A s \in n.sent :
       s.cmd = "Answer" => RunningState(CallById(table, s.id).tel) = "RINGING"

\* What a step does, seen from before it.
Follows(n, info) ==
    /\ lastCallId <= n.lastCallId
    /\ \A y \in Range(n.table) :
          /\ \/ lastCallId < y.id
             \/ \E x \in Range(table) : x.id = y.id /\ (x.ecc => y.ecc)
          /\ KeyIn(Range(table) \cup {info}, y)
    /\ Asked(n) /\ Settles(Now, n)

\* A task of the loop starts with the variables.
LEMMA NowIs ==
    /\ Now.table = table /\ Now.lastCallId = lastCallId
    /\ Now.dialEcc = dialEcc /\ Now.pendingMo = pendingMo
    /\ Now.pendingHangup = pendingHangup /\ Now.protectTask = protectTask
    /\ Now.ringtone = ringtone /\ Now.waitingTone = waitingTone
    /\ Now.callAudio = callAudio
    /\ Now.sent = {} /\ Now.told = <<>> /\ Now.call = NoCall
BY DEF Now

\* Before it the variables have their types and the table is sound.
LEMMA GoodNow ==
    ASSUME Good(Now)
    PROVE  /\ table \in Seq(Call) /\ lastCallId \in Nat
           /\ dialEcc \in BOOLEAN /\ pendingMo \in Nat
           /\ pendingHangup \in Nat /\ protectTask \in Nat
           /\ ringtone \in BOOLEAN /\ waitingTone \in BOOLEAN
           /\ callAudio \in BOOLEAN
           /\ Sound(table, lastCallId, dialEcc)
<1>1. Now \in Manager /\ Sound(table, lastCallId, dialEcc)
    BY NowIs DEF Good
<1> QED
    BY <1>1, ManagerFields, NowIs

\* After it they do again.
LEMMA ApplyIs ==
    ASSUME NEW m, Good(m), Apply(m)
    PROVE  Good(Now)' /\ sent' \in SUBSET Commands /\ told' \in Seq(Telling)
<1>1. /\ table' = m.table /\ lastCallId' = m.lastCallId /\ dialEcc' = m.dialEcc
      /\ pendingMo' = m.pendingMo /\ pendingHangup' = m.pendingHangup
      /\ protectTask' = m.protectTask /\ ringtone' = m.ringtone
      /\ waitingTone' = m.waitingTone /\ callAudio' = m.callAudio
      /\ sent' = m.sent /\ told' = m.told
    BY DEF Apply
<1>2. m \in Manager
    BY DEF Good
<1>3. sent' \in SUBSET Commands /\ told' \in Seq(Telling)
    BY <1>1, <1>2 DEF Manager, Commands, Telling
<1>4. <<>> \in Seq(Telling) /\ {} \in SUBSET Commands
    OBVIOUS
<1>5. Now' \in Manager
    BY <1>1, <1>2, <1>4 DEF Now, Manager, Commands, Telling
<1>6. Sound(m.table, m.lastCallId, m.dialEcc)
    BY DEF Good
<1>7. Sound(table', lastCallId', dialEcc')
    BY <1>1, <1>6
<1>8. Now'.table = table' /\ Now'.lastCallId = lastCallId' /\ Now'.dialEcc = dialEcc'
    BY DEF Now
<1> QED
    BY <1>3, <1>5, <1>7, <1>8 DEF Good

\* A handler that starts with the table and answers nothing.
LEMMA KeptFollows ==
    ASSUME NEW m, NEW n, NEW info, Kept(m, n, info), Settles(Now, n),
           m.table = table, m.lastCallId = lastCallId,
           \A s \in m.sent : s.cmd # "Answer"
    PROVE  Follows(n, info)
BY DEF Kept, Follows, Asked

\* A step that leaves the table.
LEMMA NothingFollows ==
    ASSUME Good(Now), NEW n, Settles(Now, n), n.table = table, n.lastCallId = lastCallId,
           \A s \in n.sent : s.cmd # "Answer", NEW info
    PROVE  Follows(n, info)
BY GoodNow DEF Follows, Asked, KeyIn

\* A step without a key, seen as one that serves a report.
LEMMA NoKeyFollows ==
    ASSUME NEW n, Follows(n, NoKey), NEW info
    PROVE  Follows(n, info)
BY DEF Follows, KeyIn, NoKey

\* A reported call is one of those.
LEMMA InfoIsAny == Info \subseteq AnyInfo
<1>1. StackStates \cup {"DISCONNECTED"} \subseteq TelStates
    BY FinalStates, CallManagerAssumption
<1> QED
    BY <1>1 DEF Info, AnyInfo

\* A report, single or of a list (HandleCallReportInfo).
LEMMA ReportStep ==
    ASSUME TypeInv, NEW info \in Info, Apply(HandleCallReportInfo(Now, info))
    PROVE  \E n : /\ Good(n) /\ Apply(n) /\ Follows(n, info)
                  /\ info.state = "DISCONNECTED" =>
                        \A d \in Range(n.table) : ~HasKey(d, info)
<1> DEFINE n == HandleCallReportInfo(Now, info)
<1>1. info \in AnyInfo /\ info.index # InitIndex
    BY InfoIsAny, CallManagerAssumption DEF Info
<1>2. /\ Good(n) /\ Kept(Now, n, info) /\ Settles(Now, n)
      /\ info.state = "DISCONNECTED" => \A d \in Range(n.table) : ~HasKey(d, info)
    BY <1>1, HandleCallReportInfoIs DEF TypeInv
<1> HIDE DEF n
<1>3. Follows(n, info)
    BY <1>2, KeptFollows, NowIs
<1> QED
    BY <1>2, <1>3 DEF n

\* A failed request (HandleEventResultReportInfo).
LEMMA EventResultStep ==
    ASSUME TypeInv, NEW event, EventResult(event)
    PROVE  \E n : Good(n) /\ Apply(n) /\ Follows(n, NoKey)
<1> DEFINE c == CallInState(table, "DIALING")
           n == DealFailDial(Now, c)
<1>1. c # NoCall /\ Apply(n)
    BY DEF EventResult
<1>2. c \in Range(Now.table)
    BY <1>1, CallInStateIs, RangeIs, GoodNow, NowIs DEF TypeInv
<1> HIDE DEF c
<1>3. Good(n) /\ Kept(Now, n, NoKey) /\ Settles(Now, n)
    BY <1>2, DealFailDialIs DEF TypeInv
<1> HIDE DEF n
<1>4. Follows(n, NoKey)
    BY <1>3, KeptFollows, NowIs
<1> QED
    BY <1>1, <1>3, <1>4

\* The protect task of a kept hang-up.
LEMMA ProtectTimeoutStep ==
    ASSUME TypeInv, ProtectTimeout
    PROVE  \E n : Good(n) /\ Apply(n) /\ Follows(n, NoKey)
<1> DEFINE m == [Now EXCEPT !.protectTask = NoId]
           c == CallById(table, protectTask)
           d == IF c = NoCall THEN m ELSE DealFailDial(m, c)
           n == IF pendingHangup = protectTask
                THEN [d EXCEPT !.pendingHangup = NoId] ELSE m
<1>1. Apply(n)
    BY DEF ProtectTimeout
<1>2. /\ Good(m) /\ m.table = table /\ m.lastCallId = lastCallId /\ m.sent = {}
      /\ Steady(Now, m)
    BY NowIs DEF TypeInv, Good, Manager, Steady, Tones
<1> HIDE DEF m
<1>8. Settles(Now, m)
    BY <1>2, NowIs, SteadySettles
<1>3. Good(d) /\ Kept(m, d, NoKey) /\ Settles(Now, d)
  <2>1. CASE c = NoCall
    BY <1>2, <1>8, <2>1, KeptSelf DEF Alike
  <2>2. CASE c # NoCall
    <3>1. c \in Range(m.table)
      BY <1>2, <2>2, CallByIdIs, RangeIs, GoodNow DEF TypeInv
    <3> HIDE DEF c
    <3>2. /\ Good(DealFailDial(m, c)) /\ Kept(m, DealFailDial(m, c), NoKey)
          /\ Settles(m, DealFailDial(m, c))
      BY <1>2, <3>1, DealFailDialIs
    <3> QED
      BY <1>8, <2>2, <3>2 DEF Settles
  <2> QED
    BY <2>1, <2>2
<1> HIDE DEF d
<1>4. Follows(d, NoKey) /\ Follows(m, NoKey)
  <2>1. Follows(m, NoKey)
    BY <1>2, <1>8, NothingFollows DEF TypeInv
  <2> QED
    BY <1>2, <1>3, <2>1, KeptFollows
<1> DEFINE e == [d EXCEPT !.pendingHangup = NoId]
<1>5. /\ Good(e) /\ e.table = d.table /\ e.lastCallId = d.lastCallId
      /\ e.sent = d.sent /\ e.pendingMo = d.pendingMo
      /\ e.pendingHangup = NoId /\ Tones(e) = Tones(d)
    BY <1>3 DEF Good, Manager, Tones
<1>6. n = e \/ n = m
    OBVIOUS
<1> HIDE DEF e, n
<1>9. Settles(Now, e)
    BY <1>3, <1>5 DEF Settles, Settled, Unbound, Waited, Silent
<1>7. Follows(e, NoKey)
    BY <1>4, <1>5, <1>9 DEF Follows, Asked
<1> QED
    BY <1>1, <1>2, <1>4, <1>5, <1>6, <1>7

\* DialPolicy lets a normal dial take the mark away only when no emergency call
\* is in the table.
LEMMA DialPolicyIs ==
    ASSUME TypeInv, NEW ecc \in BOOLEAN, DialPolicy(table, ecc)
    PROVE  LET n == [Now EXCEPT !.dialEcc = ecc]
           IN  /\ Good(n) /\ n.table = table /\ n.lastCallId = lastCallId
               /\ n.dialEcc = ecc /\ n.sent = {} /\ Steady(Now, n)
<1> DEFINE n == [Now EXCEPT !.dialEcc = ecc]
<1>1. /\ n \in Manager /\ n.table = table /\ n.lastCallId = lastCallId
      /\ n.dialEcc = ecc /\ n.sent = {} /\ Steady(Now, n)
    BY NowIs DEF TypeInv, Good, Manager, Steady, Tones
<1> HIDE DEF n
<1>2. table \in Seq(Call) /\ Sound(table, lastCallId, dialEcc)
    BY GoodNow DEF TypeInv
<1>3. ASSUME NEW i \in DOMAIN table, table[i].ecc PROVE ecc
  <2>1. table[i] \in Range(table)
    BY <1>2, RangeIs
  <2> QED
    BY <2>1, <1>3 DEF DialPolicy, HasEmergencyCall
<1>4. Sound(table, lastCallId, ecc)
    BY <1>2, <1>3, Zenon DEF Sound
<1> QED
    BY <1>1, <1>4 DEF Good, n

\* EccDialPolicy sends hang-ups and nothing else.
LEMMA EccDialPolicyIs ==
    ASSUME NEW m, Good(m), TypeInv
    PROVE  Quiet(m, EccDialPolicy(m)) /\ Steady(m, EccDialPolicy(m))
<1> DEFINE hung == UNION {HangUp(Now, c).sent : c \in EccClears(m.table)}
           rung == {[cmd |-> "HangUp", id |-> c.id] :
                       c \in {d \in Range(m.table) :
                                RunningState(d.tel) = "RINGING"}}
           n == [m EXCEPT !.sent = @ \cup hung \cup rung]
<1>1. EccDialPolicy(m) = n
    BY DEF EccDialPolicy
<1>2. /\ m \in Manager /\ \A c \in Range(m.table) : c \in Call /\ c.id \in Nat
    BY RangeIs, ManagerFields, CallsAreCalls DEF Good
<1>3. Now \in Manager /\ Now.sent = {}
    BY NowIs DEF TypeInv, Good
<1>4. ASSUME NEW c \in EccClears(m.table), NEW s \in HangUp(Now, c).sent
      PROVE  s \in Commands /\ s.cmd # "Answer"
  <2>1. c \in Call
    BY <1>2 DEF EccClears
  <2>2. Quiet(Now, HangUp(Now, c))
    BY <2>1, <1>3, HangUpIs
  <2>3. HangUp(Now, c).sent \in SUBSET Commands
    BY <2>2 DEF Quiet, Manager, Commands
  <2> QED
    BY <2>2, <2>3, <1>3 DEF Quiet
<1>5. ASSUME NEW s \in rung PROVE s \in Commands /\ s.cmd # "Answer"
    BY <1>2 DEF Commands
<1>6. ASSUME NEW s \in hung PROVE s \in Commands /\ s.cmd # "Answer"
    BY <1>4
<1> HIDE DEF hung, rung
<1>7. n.sent = m.sent \cup hung \cup rung /\ Alike(m, n) /\ Steady(m, n)
    BY <1>2 DEF Manager, Alike, Steady, Tones
<1>8. m.sent \cup hung \cup rung \in SUBSET Commands
    BY <1>2, <1>5, <1>6 DEF Manager, Commands
<1>9. n \in Manager
    BY <1>2, <1>8 DEF Manager, Commands
<1> QED
    BY <1>1, <1>5, <1>6, <1>7, <1>9 DEF Quiet, Steady

\* A client call that returns.
LEMMA ReturnIs ==
    ASSUME NEW n, Good(n), Follows(n, NoKey), NEW ret, Return(n, ret)
    PROVE  /\ \E m : Good(m) /\ Apply(m) /\ Follows(m, NoKey)
           /\ result' = ret /\ UNCHANGED <<requests, details, todo>>
BY DEF Return

\* A client call that is refused.
LEMMA NowFollows ==
    ASSUME TypeInv
    PROVE  Good(Now) /\ Follows(Now, NoKey)
BY NowIs, NothingFollows DEF TypeInv, Settles

\* DialCall: refused, refused for want of an entry, made, or made and ended
\* again by HandleDialFail, which finds a call to end.
LEMMA DialCallStep ==
    ASSUME TypeInv, NEW s \in Slots, NEW type \in CallTypes,
           NEW ecc \in BOOLEAN, NEW ok \in BOOLEAN, DialCall(s, type, ecc, ok)
    PROVE  /\ \E n : Good(n) /\ Apply(n) /\ Follows(n, NoKey)
           /\ UNCHANGED <<requests, details, todo>>
           /\ result' \in {"ok", "refused", "full", "failed"}
           /\ result' = "full" /\ dialEcc' => Len(table) >= MaxCallObjects
<1> DEFINE Post1 == /\ \E n : Good(n) /\ Apply(n) /\ Follows(n, NoKey)
                    /\ UNCHANGED <<requests, details, todo>>
                    /\ result' \in {"ok", "refused", "full", "failed"}
                    /\ result' = "full" /\ dialEcc' =>
                          Len(table) >= MaxCallObjects
<1>1. ASSUME ~DialPolicy(table, ecc) PROVE Post1
  <2>1. Return(Now, "refused")
    BY <1>1 DEF DialCall
  <2> QED
    BY <2>1, NowFollows, ReturnIs
<1>2. ASSUME DialPolicy(table, ecc) PROVE Post1
  <2> DEFINE dial == [Now EXCEPT !.dialEcc = ecc]
             cleared == IF ecc THEN EccDialPolicy(dial) ELSE dial
             info == [index |-> InitIndex, slot |-> s, state |-> "DIALING",
                      type |-> type]
             made == DialingHandle(cleared, info)
             sentDial == Send(made, "Dial", made.call)
             failed == HandleDialFail(sentDial)
  <2>1. \/ Return(dial, "refused")
        \/ made.call.id \notin Ids(made.table) /\ Return(made, "full")
        \/ /\ made.call.id \in Ids(made.table)
           /\ Return(sentDial, "ok") \/ Return(failed, "failed")
    BY <1>2 DEF DialCall, CarrierDialProcess
  <2>2. /\ Good(dial) /\ dial.table = table /\ dial.lastCallId = lastCallId
        /\ dial.dialEcc = ecc /\ dial.sent = {} /\ Steady(Now, dial)
    BY <1>2, DialPolicyIs
  <2> HIDE DEF dial
  <2>3. /\ Good(cleared) /\ Alike(dial, cleared) /\ Steady(dial, cleared)
        /\ \A c \in cleared.sent : c.cmd # "Answer"
    <3>1. Quiet(dial, EccDialPolicy(dial)) /\ Steady(dial, EccDialPolicy(dial))
      BY <2>2, EccDialPolicyIs
    <3>2. /\ Good(EccDialPolicy(dial)) /\ Alike(dial, EccDialPolicy(dial))
          /\ \A c \in EccDialPolicy(dial).sent : c.cmd # "Answer"
      BY <2>2, <3>1, QuietIs DEF Quiet
    <3>3. Alike(dial, dial) /\ Steady(dial, dial)
      BY DEF Alike, Steady
    <3> QED
      BY <2>2, <3>1, <3>2, <3>3
  <2> HIDE DEF cleared
  <2>4. cleared.table = table /\ cleared.lastCallId = lastCallId /\ cleared.dialEcc = ecc
    BY <2>2, <2>3 DEF Alike
  <2>5. info \in AnyInfo /\ info.index = InitIndex /\ info.slot = s
    BY FinalStates DEF AnyInfo
  <2> HIDE DEF info
  <2>6. /\ Good(made) /\ Kept(cleared, made, info) /\ Settles(cleared, made)
        /\ \E c \in Call :
              /\ c.ecc <=> ecc
              /\ made.call \in Call /\ made.call.id = lastCallId + 1
              /\ \/ /\ made.call = [c EXCEPT !.tel = "DIALING"]
                    /\ Range(made.table) = Range(table) \cup {made.call}
                 \/ /\ ~Admits(table, c) /\ made.table = table
    <3>1. /\ Good(made) /\ Kept(cleared, made, info) /\ Settles(cleared, made)
          /\ \E c \in Call :
                /\ c.id = cleared.lastCallId + 1 /\ made.lastCallId = c.id
                /\ c.index = InitIndex /\ c.slot = info.slot
                /\ c.ecc <=> cleared.dialEcc
                /\ made.call.id = c.id /\ made.call \in Call
                /\ \/ /\ Admits(cleared.table, c)
                      /\ made.call = [c EXCEPT !.tel = "DIALING"]
                      /\ Range(made.table) = Range(cleared.table) \cup {made.call}
                   \/ /\ ~Admits(cleared.table, c)
                      /\ made.table = cleared.table
      BY <2>3, <2>5, DialingHandleIs
    <3> HIDE DEF made
    <3> QED
      BY <3>1, <2>4, Zenon
  <2> HIDE DEF made
  <2>7. KeyIn(Range(cleared.table), info)
    BY <2>5 DEF KeyIn
  <2>8. Kept(cleared, made, NoKey)
    BY <2>6, <2>7, KeptAnyKey
  <2>19. Settles(Now, dial) /\ Settles(Now, made)
    <3>1. Settles(Now, dial)
      BY <2>2, NowIs, SteadySettles
    <3>2. Settles(dial, cleared)
      BY <2>3, SteadySettles DEF Alike
    <3> QED
      BY <2>6, <3>1, <3>2 DEF Settles
  <2>9. Follows(made, NoKey)
    BY <2>3, <2>4, <2>8, <2>19, KeptFollows
  <2>10. ASSUME Return(dial, "refused") PROVE Post1
    <3>1. Follows(dial, NoKey)
      BY <2>2, <2>19, NothingFollows DEF TypeInv
    <3> QED
      BY <2>10, <2>2, <3>1, ReturnIs
  <2>11. ASSUME made.call.id \notin Ids(made.table), Return(made, "full")
         PROVE  Post1
    <3>1. made.call \notin Range(made.table)
      BY <2>11 DEF Ids
    <3>2. PICK c \in Call : (c.ecc <=> ecc) /\ ~Admits(table, c)
      BY <3>1, <2>6
    <3>3. dialEcc' = made.dialEcc /\ made.dialEcc = ecc
      BY <2>11, <2>4, <2>6 DEF Return, Apply, Kept
    <3>4. ASSUME dialEcc' PROVE Len(table) >= MaxCallObjects
      <4>1. c.ecc
        BY <3>2, <3>3, <3>4
      <4>2. ~(Len(table) < MaxCallObjects)
        BY <4>1, <3>2 DEF Admits
      <4>3. Len(table) \in Nat /\ MaxCallObjects \in Nat
        BY GoodNow, CallManagerAssumption DEF TypeInv
      <4> QED
        BY <4>2, <4>3
    <3> QED
      BY <2>6, <2>9, <2>11, <3>4, ReturnIs
  <2>13. Quiet(made, sentDial) /\ Steady(made, sentDial)
    BY <2>6, SendIs DEF Good
  <2> HIDE DEF sentDial
  <2>14. Good(sentDial) /\ sentDial.table = made.table /\ Kept(made, sentDial, NoKey)
    BY <2>6, <2>13, QuietIs DEF Quiet, Alike
  <2>20. Settles(Now, sentDial)
    <3>1. Settles(made, sentDial)
      BY <2>13, <2>14, SteadySettles
    <3> QED
      BY <2>19, <3>1 DEF Settles
  <2>15. /\ sentDial.lastCallId = made.lastCallId
         /\ \A c \in sentDial.sent : c.cmd = "Answer" => c \in made.sent
    BY <2>13 DEF Quiet, Alike
  <2>16. Follows(sentDial, NoKey)
    BY <2>9, <2>14, <2>15, <2>20 DEF Follows, Asked
  <2>17. ASSUME Return(sentDial, "ok") PROVE Post1
    BY <2>14, <2>16, <2>17, ReturnIs
  <2>18. ASSUME made.call.id \in Ids(made.table), Return(failed, "failed")
         PROVE  Post1
    <3> DEFINE c == CallInState(sentDial.table, "DIALING")
    <3>1. sentDial.table \in Seq(Call) /\ sentDial.table = made.table
      BY <2>14, ManagerFields DEF Good
    <3>2. made.call.id \notin Ids(table)
      <4>1. \A i \in DOMAIN table : table[i].id <= lastCallId /\ table[i].id \in Nat
        BY GoodNow, CallsAreCalls, RangeIs DEF TypeInv, Sound
      <4>2. made.call.id = lastCallId + 1
        BY <2>6
      <4> QED
        BY <4>1, <4>2, GoodNow, RangeIs DEF TypeInv, Ids
    <3>3. made.call \in Range(made.table) /\ made.call.tel = "DIALING"
      BY <3>2, <2>6, <2>18, FinalStates DEF Call
    <3>4. RunningState(made.call.tel) = "DIALING"
      BY <3>3 DEF RunningState
    <3>5. c # NoCall
      BY <3>1, <3>3, <3>4, CallInStateIs, RangeIs
    <3>6. c \in Range(sentDial.table)
      BY <3>1, <3>5, CallInStateIs, RangeIs
    <3>7. failed = DealFailDial(sentDial, c)
      BY DEF HandleDialFail
    <3> HIDE DEF c, failed
    <3>8. Good(failed) /\ Kept(sentDial, failed, NoKey) /\ Settles(sentDial, failed)
      BY <2>14, <3>6, <3>7, DealFailDialIs
    <3>9. Kept(made, failed, NoKey)
      <4>1. KeyIn(Range(sentDial.table) \cup {NoKey}, NoKey)
        BY DEF KeyIn, NoKey
      <4> QED
        BY <4>1, <3>8, <2>6, <2>14, KeptTrans
    <3>10. Kept(cleared, failed, NoKey)
      <4>1. KeyIn(Range(made.table) \cup {NoKey}, NoKey)
        BY DEF KeyIn, NoKey
      <4> QED
        BY <4>1, <3>8, <3>9, <2>3, <2>6, <2>8, KeptTrans
    <3>11. Follows(failed, NoKey)
      <4>1. Settles(Now, failed)
        BY <2>20, <3>8 DEF Settles
      <4> QED
        BY <3>10, <4>1, <2>3, <2>4, KeptFollows
    <3> QED
      BY <2>18, <3>8, <3>11, ReturnIs
  <2> QED
    BY <2>1, <2>10, <2>11, <2>17, <2>18
<1> QED
    BY <1>1, <1>2

\* What every other client call comes to.
ControlDone ==
    /\ \E n : Good(n) /\ Apply(n) /\ Follows(n, NoKey)
    /\ requests' \in Seq(Posted) /\ UNCHANGED <<details, todo>>
    /\ result' \in {"ok", "refused"}

\* It returns,
LEMMA ReturnDone ==
    ASSUME TypeInv, NEW n, Good(n), Follows(n, NoKey),
           NEW ret \in {"ok", "refused"}, Return(n, ret)
    PROVE  ControlDone
BY DEF Return, ControlDone, TypeInv

\* or it posts a request, if the queue takes it.
LEMMA PostDone ==
    ASSUME TypeInv, NEW n, Good(n), Follows(n, NoKey),
           NEW op \in ControlOps \ {"end"}, NEW id \in Nat, Post(n, op, id)
    PROVE  ControlDone
<1>1. [op |-> op, id |-> id] \in Posted /\ requests \in Seq(Posted)
    BY DEF Posted, TypeInv
<1>2. requests' \in Seq(Posted)
    BY <1>1 DEF Post
<1> QED
    BY <1>2 DEF Post, ControlDone

\* HangUpCall returns, keeps the hang-up or posts it.
LEMMA HangUpCallStep ==
    ASSUME TypeInv, NEW c \in Range(table), HangUpCall(c)
    PROVE  ControlDone
<1> DEFINE n == [Now EXCEPT !.pendingMo = NoId, !.pendingHangup = c.id,
                            !.protectTask = IF @ = NoId THEN c.id ELSE @]
<1>1. c \in Call /\ c.id \in Nat
    BY RangeIs, GoodNow, CallsAreCalls DEF TypeInv
<1>2. n.table = table /\ n.lastCallId = lastCallId /\ n.sent = {} /\ Good(n)
    BY <1>1, NowIs, GoodNow DEF TypeInv, Good, Manager
<1>3. \/ Return(Now, "refused")
      \/ Return(n, "ok") /\ pendingMo = c.id
      \/ Post(Now, "hangup", c.id)
  <2>1. CASE pendingMo = c.id
    BY <2>1, Zenon DEF HangUpCall
  <2>2. ASSUME pendingMo # c.id PROVE Return(Now, "refused") \/ Post(Now, "hangup", c.id)
    <3>1. CASE Policy("hangup", table, c)
      BY <2>2, <3>1, Zenon DEF HangUpCall
    <3>2. CASE ~Policy("hangup", table, c)
      BY <3>2, Zenon DEF HangUpCall
    <3> QED
      BY <3>1, <3>2
  <2> QED
    BY <2>1, <2>2
<1>5. n.pendingMo = NoId /\ n.pendingHangup = c.id /\ Tones(n) = Tones(Now)
    BY NowIs DEF TypeInv, Good, Manager, Tones
<1> HIDE DEF n
<1>6. ASSUME pendingMo = c.id PROVE Settles(Now, n)
  <2>1. Now.table = table /\ Now.pendingMo = c.id /\ c.id # NoId
    BY <1>1, <1>6, NowIs, CallsAreCalls
  <2>2. Unbound(n) = Unbound(Now) /\ Waited(n) \subseteq Waited(Now)
    BY <1>2, <1>5, <2>1 DEF Unbound, Waited
  <2>3. n.pendingMo = n.pendingHangup => n.pendingMo = NoId
    BY <1>5
  <2> QED
    BY <1>2, <1>5, <2>1, <2>2, <2>3 DEF Settles, Settled, Silent
<1>4. pendingMo = c.id => Follows(n, NoKey)
    BY <1>2, <1>6, NothingFollows DEF TypeInv
<1> QED
    BY <1>1, <1>2, <1>3, <1>4, NowFollows, ReturnDone, PostDone DEF ControlOps

\* RejectCall, HoldCall, UnHoldCall, SwitchCall.
LEMMA PolicyThenPostStep ==
    ASSUME TypeInv, NEW c \in Range(table), NEW op \in ControlOps \ {"end"},
           PolicyThenPost(op, c)
    PROVE  ControlDone
<1>1. c.id \in Nat
    BY RangeIs, GoodNow, CallsAreCalls DEF TypeInv
<1>2. \/ Return(Now, "refused") \/ Post(Now, op, c.id)
    BY DEF PolicyThenPost
<1> QED
    BY <1>1, <1>2, NowFollows, ReturnDone, PostDone

\* AnswerCall tells the subscribers and posts.
LEMMA AnswerCallStep ==
    ASSUME TypeInv, NEW c \in Range(table), AnswerCall(c)
    PROVE  ControlDone
<1> DEFINE h == Holding(Now, c)
           n == Notify(h, "INCOMING", "ANSWERED")
<1>1. c.id \in Nat /\ c \in Call /\ c # NoCall
    BY RangeIs, GoodNow, CallsAreCalls DEF TypeInv
<1>2. /\ Return(Now, "refused") \/ Return(n, "refused") \/ Post(n, "answer", c.id)
    BY DEF AnswerCall
<1>3. /\ Good(h) /\ h.call = c /\ h.table = table /\ h.lastCallId = lastCallId
      /\ h.sent = {} /\ Steady(Now, h)
    BY NowIs, HoldingIs DEF TypeInv, AsBefore
<1> HIDE DEF h
<1>4. /\ n \in Manager /\ Alike(h, n) /\ n.sent = {}
      /\ n.pendingMo = h.pendingMo /\ n.pendingHangup = h.pendingHangup
    BY <1>1, <1>3, NotifyIs DEF Good
<1> HIDE DEF n
<1>5. Good(n) /\ n.table = table /\ n.lastCallId = lastCallId
    BY <1>3, <1>4 DEF Good, Alike
<1>7. Settles(Now, n)
    BY <1>3, <1>4, <1>5, NowIs DEF Steady, Settles, Settled, Unbound, Waited
<1>6. Follows(n, NoKey)
    BY <1>4, <1>5, <1>7, NothingFollows DEF TypeInv
<1> QED
    BY <1>1, <1>2, <1>5, <1>6, NowFollows, ReturnDone, PostDone DEF ControlOps

\* EndCall finds a call and rejects it or hangs it up.
LEMMA EndCallStep ==
    ASSUME TypeInv, EndCall
    PROVE  ControlDone
<1> DEFINE found == {i \in DOMAIN EndOrder :
                        CallInState(table, EndOrder[i]) # NoCall}
           c == CallInState(table, EndOrder[Min(found)])
<1>1. \/ found = {} /\ Return(Now, "ok")
      \/ found # {} /\ (PolicyThenPost("reject", c) \/ HangUpCall(c))
    BY DEF EndCall
<1>2. CASE found = {}
    BY <1>1, <1>2, NowFollows, ReturnDone
<1>3. CASE found # {}
  <2>1. found \in SUBSET Nat
    BY DEF EndOrder
  <2>2. Min(found) \in found
    BY <1>3, <2>1, MinOf, Zenon
  <2>3. c # NoCall
    BY <2>2
  <2>4. c \in Range(table)
    BY <2>3, CallInStateIs, RangeIs, GoodNow DEF TypeInv
  <2> HIDE DEF c
  <2> QED
    BY <1>1, <1>3, <2>4, PolicyThenPostStep, HangUpCallStep DEF ControlOps
<1> QED
    BY <1>2, <1>3

\* Every control call.
LEMMA ControlStep ==
    ASSUME TypeInv, NEW op \in ControlOps, NEW c \in Range(table), Control(op, c)
    PROVE  ControlDone
<1>1. CASE op = "answer"
    BY <1>1, AnswerCallStep DEF Control
<1>2. CASE op = "hangup"
    BY <1>2, HangUpCallStep DEF Control
<1>3. CASE op = "end"
    BY <1>3, EndCallStep DEF Control
<1>4. CASE op \notin {"answer", "hangup", "end"}
    BY <1>4, PolicyThenPostStep DEF Control
<1> QED
    BY <1>1, <1>2, <1>3, <1>4

\* What a posted request does: the table is kept, and only the held call is
\* answered, while it rings.
Requested(m, n) ==
    /\ Good(n) /\ Kept([m EXCEPT !.sent = n.sent], n, NoKey)
    /\ Settles(m, n)
    /\ \A s \in n.sent :
          s.cmd = "Answer" => /\ s.id = m.call.id
                              /\ RunningState(m.call.tel) = "RINGING"

\* A request that answers nothing.
LEMMA KeptRequested ==
    ASSUME NEW m, Good(m), m.sent = {}, NEW n, Good(n),
           Kept(m, n, NoKey), Settles(m, n)
    PROVE  Requested(m, n)
<1> DEFINE o == [m EXCEPT !.sent = n.sent]
<1>1. o.table = m.table /\ o.lastCallId = m.lastCallId /\ o.dialEcc = m.dialEcc
      /\ o.sent = n.sent
    BY DEF Good, Manager
<1>2. \A s \in n.sent : s.cmd # "Answer"
    BY DEF Kept
<1> HIDE DEF o
<1>3. Kept(o, n, NoKey)
    BY <1>1 DEF Kept
<1> QED
    BY <1>2, <1>3 DEF Requested, o

\* RejectRequest also marks the held call, another one of the table.
LEMMA RejectRequestIs ==
    ASSUME NEW m, Good(m), Held(m), m.sent = {}, NEW ok \in BOOLEAN
    PROVE  Requested(m, RejectRequest(m, ok))
<1> DEFINE s == Send(m, "HangUp", m.call)
           held == CallInState(m.table, "HOLD")
           g == Holding(s, held)
           c == [held EXCEPT !.canUnHold = FALSE]
           h == IF held = NoCall THEN s ELSE Write(s, c)
           r == [h EXCEPT !.ringtone = FALSE]
           n == RejectRequest(m, ok)
<1>1. n = r \/ n = s
    BY DEF RejectRequest
<1>2. Quiet(m, s) /\ Steady(m, s)
    BY SendIs DEF Good, Held
<1>3. /\ Good(s) /\ s.table = m.table /\ Kept(m, s, NoKey)
    BY <1>2, QuietIs DEF Quiet, Alike
<1>8. Settles(m, s)
    BY <1>2, <1>3, SteadySettles
<1>4. Write(s, c) = Write(g, c)
  <2>1. s \in Manager
    BY <1>3 DEF Good
  <2> HIDE DEF s, c, held
  <2> QED
    BY <2>1 DEF Write, Holding, Manager
<1>5. ASSUME held # NoCall
      PROVE  /\ Good(Write(s, c)) /\ Kept(m, Write(s, c), NoKey)
             /\ Settles(m, Write(s, c))
  <2>1. held \in Range(s.table)
    BY <1>3, <1>5, CallInStateIs, RangeIs, ManagerFields DEF Good
  <2>2. held \in Call
    BY <2>1, <1>3, RangeIs, ManagerFields DEF Good
  <2> HIDE DEF s, held
  <2>3. Good(g) /\ Held(g) /\ g.call = held /\ Kept(s, g, NoKey)
        /\ Settles(s, g)
    BY <1>3, <1>5, <2>1, HoldingIs
  <2>4. /\ c \in Call /\ c.id = held.id /\ c.index = held.index /\ c.slot = held.slot
        /\ c.ecc = held.ecc /\ c.isIn = held.isIn /\ c.tel = held.tel
    BY <2>2 DEF Call
  <2> HIDE DEF c, g
  <2> DEFINE w == Write(g, c)
  <2>5. Good(w) /\ Kept(g, w, NoKey) /\ Settles(g, w)
    BY <2>3, <2>4, WriteSame
  <2>6. KeyIn(Range(s.table) \cup {NoKey}, NoKey) /\ KeyIn(Range(g.table) \cup {NoKey}, NoKey)
    BY DEF KeyIn, NoKey
  <2> HIDE DEF w
  <2>7. Kept(m, g, NoKey)
    BY <1>3, <2>3, <2>6, KeptTrans
  <2>8. Kept(m, w, NoKey)
    BY <2>3, <2>5, <2>6, <2>7, KeptTrans
  <2>9. Settles(m, w)
    BY <1>8, <2>3, <2>5 DEF Settles
  <2> QED
    BY <1>4, <2>5, <2>8, <2>9 DEF w
<1>6. Good(h) /\ Kept(m, h, NoKey) /\ Settles(m, h)
    BY <1>3, <1>5, <1>8
<1> HIDE DEF h, s
<1>7. Good(r) /\ Kept(m, r, NoKey) /\ Settles(m, r)
  <2>1. r \in Manager /\ r.table = h.table /\ r.lastCallId = h.lastCallId
        /\ r.dialEcc = h.dialEcc /\ r.sent = h.sent
        /\ r.pendingMo = h.pendingMo /\ r.pendingHangup = h.pendingHangup
    BY <1>6 DEF Good, Manager
  <2>2. r.ringtone = FALSE /\ r.waitingTone = h.waitingTone /\ r.callAudio = h.callAudio
    BY <1>6 DEF Good, Manager
  <2> HIDE DEF r
  <2>3. Silent(h) => Silent(r)
    BY <2>2 DEF Silent, Tones
  <2>4. Settles(h, r)
    BY <2>1, <2>3 DEF Settles, Settled, Unbound, Waited
  <2> QED
    BY <2>1, <2>4, <1>6 DEF Good, Kept, Settles
<1> QED
    BY <1>1, <1>3, <1>6, <1>7, <1>8, KeptRequested

\* A request that sets a flag of its call and sends a command.
LEMMA WriteRequestIs ==
    ASSUME NEW m, Good(m), Held(m), m.sent = {}, NEW c \in Call,
           c.id = m.call.id, c.ecc = m.call.ecc, c.isIn = m.call.isIn,
           c.index = m.call.index, c.slot = m.call.slot, c.tel = m.call.tel,
           NEW n, n = Write(m, c) \/ (Quiet(Write(m, c), n) /\ Steady(Write(m, c), n))
    PROVE  Requested(m, n)
<1> DEFINE w == Write(m, c)
<1>1. Good(w) /\ Kept(m, w, NoKey) /\ Settles(m, w)
    BY WriteSame
<1>2. n = w \/ (Quiet(w, n) /\ Steady(w, n))
    OBVIOUS
<1> HIDE DEF w
<1>3. KeyIn(Range(w.table) \cup {NoKey}, NoKey)
    BY DEF KeyIn, NoKey
<1>4. CASE n = w
    BY <1>1, <1>4, KeptRequested
<1>5. CASE Quiet(w, n) /\ Steady(w, n)
  <2>1. Good(n) /\ Kept(w, n, NoKey)
    BY <1>1, <1>5, QuietIs
  <2>2. Kept(m, n, NoKey)
    BY <2>1, <1>1, <1>3, KeptTrans
  <2>3. Settles(m, n)
    <3>1. Settles(w, n)
      BY <1>5, SteadySettles DEF Quiet, Alike
    <3> QED
      BY <1>1, <3>1 DEF Settles
  <2> QED
    BY <2>1, <2>2, <2>3, KeptRequested
<1> QED
    BY <1>2, <1>4, <1>5

\* Every posted request.
LEMMA HandleRequestIs ==
    ASSUME NEW m, Good(m), Held(m), m.sent = {},
           NEW op \in ControlOps \ {"end"}, NEW ok \in BOOLEAN
    PROVE  Requested(m, HandleRequest(m, op, ok))
<1> DEFINE n == HandleRequest(m, op, ok)
<1>0. m \in Manager /\ m.call \in Call
    BY DEF Good, Held
<1>1. CASE op = "answer"
  <2>1. n = IF RunningState(m.call.tel) = "RINGING" THEN Send(m, "Answer", m.call) ELSE m
    BY <1>1 DEF HandleRequest, AnswerRequest
  <2>2. CASE RunningState(m.call.tel) = "RINGING"
    <3>1. /\ n \in Manager /\ Alike(m, n)
          /\ n.sent = {[cmd |-> "Answer", id |-> m.call.id]}
          /\ Steady(m, n)
      <4> DEFINE z == Send(m, "Answer", m.call)
      <4>1. /\ z \in Manager /\ Alike(m, z)
            /\ z.sent = m.sent \cup {[cmd |-> "Answer", id |-> m.call.id]}
            /\ Steady(m, z)
        BY <1>0, SendIs
      <4>2. n = z
        BY <2>1, <2>2
      <4> HIDE DEF z, n
      <4> QED
        BY <4>1, <4>2
    <3> HIDE DEF n
    <3> DEFINE o == [m EXCEPT !.sent = n.sent]
    <3>2. /\ Good(o) /\ Alike(o, n) /\ o.sent = n.sent
      BY <3>1 DEF Good, Manager, Alike
    <3> HIDE DEF o
    <3>3. Kept(o, n, NoKey)
      BY <3>2, KeptSelf
    <3>4. Good(n)
      BY <3>1 DEF Good, Alike
    <3>5. Settles(m, n)
      BY <3>1, SteadySettles DEF Alike
    <3> QED
      BY <2>2, <3>1, <3>3, <3>4, <3>5 DEF Requested, o, n
  <2>3. CASE RunningState(m.call.tel) # "RINGING"
    <3>1. n = m
      BY <2>1, <2>3
    <3>2. Kept(m, m, NoKey) /\ Settles(m, m)
      BY KeptSelf DEF Alike, Settles
    <3> QED
      BY <3>1, <3>2, KeptRequested
  <2> QED
    BY <2>2, <2>3
<1>2. CASE op = "reject"
    BY <1>2, RejectRequestIs DEF HandleRequest
<1>3. CASE op = "hangup"
  <2> DEFINE flag == /\ m.call.tel = "ACTIVE"
                     /\ \E c \in Range(m.table) :
                           c.type = m.call.type /\ c.tel = "HOLDING"
                     /\ ~Exists(m.table, {"WAITING"})
             on == m.call.hangUpActive \/ flag
             c == [m.call EXCEPT !.hangUpActive = on]
             w == Write(m, c)
  <2>1. n = HangUp(w, w.call)
    BY <1>3 DEF HandleRequest, HangUpRequest
  <2>2. on \in BOOLEAN
    OBVIOUS
  <2> HIDE DEF on
  <2>3. /\ c \in Call /\ c.id = m.call.id /\ c.index = m.call.index
        /\ c.slot = m.call.slot /\ c.ecc = m.call.ecc /\ c.isIn = m.call.isIn
        /\ c.tel = m.call.tel
    BY <1>0, <2>2 DEF Call
  <2> HIDE DEF c
  <2>4. Good(w) /\ w.call = c
    BY <2>3, WriteSame
  <2>5. Quiet(w, n) /\ Steady(w, n)
    BY <2>1, <2>3, <2>4, HangUpIs DEF Good
  <2> HIDE DEF n
  <2> QED
    BY <2>3, <2>5, WriteRequestIs DEF n
<1>4. CASE op = "unhold"
  <2> DEFINE c == [m.call EXCEPT !.canUnHold = TRUE]
             w == Write(m, c)
  <2>1. n = w \/ n = Send(w, "UnHold", w.call)
    BY <1>4 DEF HandleRequest, UnHoldRequest
  <2>2. /\ c \in Call /\ c.id = m.call.id /\ c.index = m.call.index
        /\ c.slot = m.call.slot /\ c.ecc = m.call.ecc /\ c.isIn = m.call.isIn
        /\ c.tel = m.call.tel
    BY <1>0 DEF Call
  <2> HIDE DEF c
  <2>3. Good(w) /\ w.call = c
    BY <2>2, WriteSame
  <2>4. n = w \/ (Quiet(w, n) /\ Steady(w, n))
    <3>1. w \in Manager /\ w.call \in Call
      BY <2>2, <2>3 DEF Good
    <3> HIDE DEF n, w
    <3>2. Quiet(w, Send(w, "UnHold", w.call)) /\ Steady(w, Send(w, "UnHold", w.call))
      BY <3>1, SendIs
    <3>3. ASSUME n = Send(w, "UnHold", w.call) PROVE Quiet(w, n) /\ Steady(w, n)
      BY <3>2, <3>3, Zenon
    <3> QED
      BY <2>1, <3>3, Zenon
  <2> HIDE DEF n
  <2> QED
    BY <2>2, <2>4, WriteRequestIs DEF n
<1>5. CASE op \in {"hold", "switch"}
  <2>1. n = Send(m, "Hold", m.call) \/ n = Send(m, "Switch", m.call)
    BY <1>5 DEF HandleRequest
  <2>2. Quiet(m, n) /\ Steady(m, n)
    BY <1>0, <2>1, SendIs
  <2> HIDE DEF n
  <2>3. Good(n) /\ Kept(m, n, NoKey) /\ Settles(m, n)
    BY <2>2, QuietIs, SteadySettles DEF Quiet, Alike
  <2> QED
    BY <2>3, KeptRequested DEF n
<1> QED
    BY <1>1, <1>2, <1>3, <1>4, <1>5 DEF ControlOps

\* A posted request finds its call by id or does nothing.
LEMMA RunRequestStep ==
    ASSUME TypeInv, NEW ok \in BOOLEAN, RunRequest(ok)
    PROVE  /\ \E n : Good(n) /\ Apply(n) /\ Follows(n, NoKey)
           /\ requests' \in Seq(Posted) /\ UNCHANGED <<details, todo>>
           /\ result' = "none"
<1> DEFINE r == Head(requests)
           c == CallById(table, r.id)
           h == Holding(Now, c)
           n == HandleRequest(h, r.op, ok)
<1>1. /\ requests # <<>> /\ requests' = Tail(requests)
      /\ Apply(IF c = NoCall THEN Now ELSE n)
      /\ UNCHANGED <<details, todo>> /\ result' = "none"
    BY DEF RunRequest
<1>2. r \in Posted /\ requests' \in Seq(Posted)
    BY <1>1 DEF TypeInv
<1>3. CASE c = NoCall
    BY <1>1, <1>2, <1>3, NowFollows
<1>4. CASE c # NoCall
  <2>1. c \in Range(Now.table) /\ c.id = r.id
    BY <1>4, CallByIdIs, RangeIs, GoodNow, NowIs DEF TypeInv
  <2>2. r.op \in ControlOps \ {"end"}
    BY <1>2 DEF Posted
  <2>3. c = CallById(table, r.id) /\ Apply(n)
    BY <1>1, <1>4
  <2> HIDE DEF c, r
  <2>4. /\ Good(h) /\ Held(h) /\ h.call = c /\ h.table = table
        /\ h.lastCallId = lastCallId /\ h.sent = {}
        /\ Settles(Now, h)
    BY <1>4, <2>1, HoldingIs, NowIs DEF TypeInv, AsBefore
  <2> HIDE DEF h
  <2>5. Requested(h, n)
    BY <2>2, <2>4, HandleRequestIs
  <2> HIDE DEF n
  <2> DEFINE o == [h EXCEPT !.sent = n.sent]
  <2>6. /\ o.table = table /\ o.lastCallId = lastCallId
    BY <2>4 DEF Good, Manager
  <2>7. Kept(o, n, NoKey)
    BY <2>5 DEF Requested
  <2> HIDE DEF o
  <2>8. Asked(n)
    BY <2>1, <2>3, <2>4, <2>5 DEF Requested, Asked
  <2>10. Settles(Now, n)
    BY <2>4, <2>5 DEF Requested, Settles
  <2>9. Follows(n, NoKey)
    BY <2>6, <2>7, <2>8, <2>10 DEF Kept, Follows
  <2> QED
    BY <1>1, <1>2, <2>3, <2>5, <2>9 DEF Requested
<1> QED
    BY <1>3, <1>4

\* An order of a finite set has each of its members.
LEMMA SetToSeqsIs ==
    ASSUME NEW S, IsFiniteSet(S), NEW f \in SetToSeqs(S)
    PROVE  f \in Seq(S) /\ Range(f) = S
<1> DEFINE D == 1 .. Cardinality(S)
<1>1. Cardinality(S) \in Nat
    BY FS_CardinalityType
<1>2. f \in [D -> S] /\ \A i, j \in D : i # j => f[i] # f[j]
    BY DEF SetToSeqs
<1>3. f \in Injection(D, S)
    BY <1>2 DEF Injection, IsInjective
<1>4. Cardinality(D) = Cardinality(S)
    BY <1>1, FS_Interval
<1> HIDE DEF D
<1>5. f \in Surjection(D, S)
    BY <1>3, <1>4, FS_Injection
<1>6. Range(f) = S
    BY <1>2, <1>5 DEF Surjection, Range
<1> QED
    BY <1>1, <1>2, <1>6 DEF D

\* Two lists, one after the other.
LEMMA ConcatIs ==
    ASSUME NEW S, NEW a \in Seq(S), NEW b \in Seq(S)
    PROVE  a \o b \in Seq(S) /\ Range(a \o b) = Range(a) \cup Range(b)
<1>1. /\ a \o b \in Seq(S) /\ Len(a \o b) = Len(a) + Len(b)
      /\ \A i \in 1 .. Len(a) + Len(b) :
            (a \o b)[i] = IF i <= Len(a) THEN a[i] ELSE b[i - Len(a)]
    OBVIOUS
<1>2. ASSUME NEW x \in Range(a) PROVE x \in Range(a \o b)
  <2>1. PICK i \in 1 .. Len(a) : x = a[i]
    BY DEF Range
  <2>2. i \in 1 .. Len(a) + Len(b) /\ (a \o b)[i] = x
    BY <1>1, <2>1
  <2> QED
    BY <1>1, <2>2 DEF Range
<1>3. ASSUME NEW x \in Range(b) PROVE x \in Range(a \o b)
  <2>1. PICK i \in 1 .. Len(b) : x = b[i]
    BY DEF Range
  <2>2. Len(a) + i \in 1 .. Len(a) + Len(b) /\ (a \o b)[Len(a) + i] = x
    BY <1>1, <2>1
  <2> QED
    BY <1>1, <2>2 DEF Range
<1>4. ASSUME NEW x \in Range(a \o b) PROVE x \in Range(a) \cup Range(b)
  <2>1. PICK i \in 1 .. Len(a) + Len(b) : x = (a \o b)[i]
    BY <1>1 DEF Range
  <2>2. CASE i <= Len(a)
    BY <1>1, <2>1, <2>2 DEF Range
  <2>3. CASE ~(i <= Len(a))
    <3>1. i - Len(a) \in 1 .. Len(b) /\ x = b[i - Len(a)]
      BY <1>1, <2>1, <2>3
    <3> QED
      BY <3>1 DEF Range
  <2> QED
    BY <2>2, <2>3
<1> QED
    BY <1>1, <1>2, <1>3, <1>4

\* A list reports finitely many calls.
LEMMA ReportsAreFinite ==
    ASSUME NEW s, NEW list
    PROVE  IsFiniteSet(Changed(s, list)) /\ IsFiniteSet(Gone(s, list))
<1>1. ASSUME NEW f, f \in [Index -> Range(f)] PROVE IsFiniteSet(Range(f))
  <2>1. f \in Surjection(Index, Range(f))
    BY <1>1 DEF Surjection, Range
  <2> QED
    BY <2>1, FS_Surjection, CallManagerAssumption
<1>2. IsFiniteSet(Changed(s, list))
  <2> DEFINE f == [i \in Index |-> AsInfo(s, i, list[i])]
  <2>1. Changed(s, list) \in SUBSET Range(f)
    BY DEF Changed, Range
  <2>2. f \in [Index -> Range(f)]
    BY DEF Range
  <2> HIDE DEF f
  <2>3. IsFiniteSet(Range(f))
    BY <1>1, <2>2
  <2> QED
    BY <2>1, <2>3, FS_Subset
<1>3. IsFiniteSet(Gone(s, list))
  <2> DEFINE f == [i \in Index |->
                     [AsInfo(s, i, details[s][i]) EXCEPT !.state = "DISCONNECTED"]]
  <2>1. Gone(s, list) \in SUBSET Range(f)
    BY DEF Gone, Range
  <2>2. f \in [Index -> Range(f)]
    BY DEF Range
  <2> HIDE DEF f
  <2>3. IsFiniteSet(Range(f))
    BY <1>1, <2>2
  <2> QED
    BY <2>1, <2>3, FS_Subset
<1> QED
    BY <1>2, <1>3

\* HandleCallsReportInfo leaves the table; the entries it will handle are the
\* changed calls and those that are gone.
LEMMA ReportCallsStep ==
    ASSUME TypeInv, NEW s \in Slots, NEW list \in Lists, ReportCalls(s, list)
    PROVE  /\ Good(Now) /\ Apply(Now) /\ Follows(Now, NoKey)
           /\ todo' \in Seq(Info)
           /\ Range(todo') = Changed(s, list) \cup Gone(s, list)
           /\ details' \in [Slots -> [Index -> Entry \cup {Absent}]]
           /\ result' = "none" /\ UNCHANGED requests
<1>1. list \in [Index -> Entry \cup {Absent}]
    BY DEF Lists
<1>2. details' \in [Slots -> [Index -> Entry \cup {Absent}]]
  <2> DEFINE row == [i \in Index |->
                       IF list[i] # Absent /\ list[i].state = "DISCONNECTED"
                       THEN Absent ELSE list[i]]
  <2>1. row \in [Index -> Entry \cup {Absent}]
    BY <1>1
  <2>2. details' = [details EXCEPT ![s] = row]
    BY DEF ReportCalls
  <2> HIDE DEF row
  <2> QED
    BY <2>1, <2>2 DEF TypeInv
<1>3. Changed(s, list) \in SUBSET Info
  <2>1. ASSUME NEW i \in Index, IsChanged(details[s][i], list[i])
        PROVE  AsInfo(s, i, list[i]) \in Info
    <3>1. list[i] \in Entry
      BY <1>1, <2>1 DEF IsChanged
    <3> QED
      BY <3>1 DEF AsInfo, Info, Entry
  <2> QED
    BY <2>1 DEF Changed
<1>4. Gone(s, list) \in SUBSET Info
  <2>1. ASSUME NEW i \in Index, details[s][i] # Absent
        PROVE  [AsInfo(s, i, details[s][i]) EXCEPT !.state = "DISCONNECTED"] \in Info
    <3>1. details[s][i] \in Entry
      BY <2>1 DEF TypeInv
    <3> QED
      BY <3>1 DEF AsInfo, Info, Entry
  <2> QED
    BY <2>1 DEF Gone
<1> DEFINE C == Changed(s, list)
           G == Gone(s, list)
<1>5. IsFiniteSet(C) /\ IsFiniteSet(G)
    BY ReportsAreFinite
<1>6. PICK first \in SetToSeqs(C), last \in SetToSeqs(G) : todo' = first \o last
    BY DEF ReportCalls
<1> HIDE DEF C, G
<1>7. /\ first \in Seq(C) /\ Range(first) = C
      /\ last \in Seq(G) /\ Range(last) = G
    BY <1>5, SetToSeqsIs
<1>8. first \in Seq(Info) /\ last \in Seq(Info)
    BY <1>3, <1>4, <1>7 DEF C, G
<1>9. todo' \in Seq(Info) /\ Range(todo') = C \cup G
    BY <1>6, <1>7, <1>8, ConcatIs
<1> QED
    BY <1>2, <1>9, NowFollows DEF ReportCalls, C, G

-----------------------------------------------------------------------------
\* A step of the call core that serves info.
Reached(info) == \E n : Good(n) /\ Apply(n) /\ Follows(n, info)

\* It leaves the types and the table sound.
LEMMA ReachedGood ==
    ASSUME NEW info, Reached(info)
    PROVE  Good(Now)' /\ sent' \in SUBSET Commands /\ told' \in Seq(Telling)
BY ApplyIs DEF Reached

\* Every step does. A dial that is made as an emergency call finds no entry only
\* in a full table.
LEMMA NextKeeps ==
    ASSUME TypeInv, Next
    PROVE  /\ TypeInv' /\ \E info : Reached(info)
           /\ result' = "full" /\ dialEcc' => Len(table) >= MaxCallObjects
<1> DEFINE Done == /\ TypeInv' /\ \E info : Reached(info)
                   /\ result' = "full" /\ dialEcc' =>
                         Len(table) >= MaxCallObjects
<1>1. ASSUME NEW info, Reached(info),
             requests' \in Seq(Posted), todo' \in Seq(Info),
             details' \in [Slots -> [Index -> Entry \cup {Absent}]],
             result' \in Results,
             result' = "full" /\ dialEcc' => Len(table) >= MaxCallObjects
      PROVE  Done
    BY <1>1, ReachedGood DEF TypeInv
<1>2. /\ requests \in Seq(Posted) /\ todo \in Seq(Info)
      /\ details \in [Slots -> [Index -> Entry \cup {Absent}]]
    BY DEF TypeInv
<1>3. ASSUME NEW info \in Reports, ReportCall(info) PROVE Done
  <2>1. info \in Info /\ Apply(HandleCallReportInfo(Now, info))
    BY <1>3 DEF ReportCall, Reports
  <2>2. Reached(info)
    BY <2>1, ReportStep DEF Reached
  <2> QED
    BY <1>1, <1>2, <1>3, <2>2 DEF ReportCall, Results
<1>4. ASSUME NEW s \in Slots, NEW list \in Lists, ReportCalls(s, list) PROVE Done
  <2>1. Reached(NoKey)
    BY <1>4, ReportCallsStep DEF Reached
  <2> QED
    BY <1>1, <1>2, <1>4, <2>1, ReportCallsStep DEF Results
<1>5. ASSUME HandleEntry PROVE Done
  <2>1. /\ Head(todo) \in Info /\ todo' \in Seq(Info)
        /\ Apply(HandleCallReportInfo(Now, Head(todo)))
    BY <1>2, <1>5 DEF HandleEntry
  <2>2. Reached(Head(todo))
    BY <2>1, ReportStep DEF Reached
  <2> QED
    BY <1>1, <1>2, <1>5, <2>1, <2>2 DEF HandleEntry, Results
<1>6. ASSUME NEW event \in FailedRequests, EventResult(event) PROVE Done
  <2>1. Reached(NoKey)
    BY <1>6, EventResultStep DEF Reached
  <2> QED
    BY <1>1, <1>2, <1>6, <2>1 DEF EventResult, Results, FailedRequests
<1>7. ASSUME NEW s \in Slots, NEW type \in CallTypes, NEW ecc \in BOOLEAN,
             NEW ok \in BOOLEAN, DialCall(s, type, ecc, ok)
      PROVE  Done
  <2>1. Reached(NoKey)
    BY <1>7, DialCallStep DEF Reached
  <2>2. /\ UNCHANGED <<requests, details, todo>>
        /\ result' \in {"ok", "refused", "full", "failed"}
        /\ result' = "full" /\ dialEcc' => Len(table) >= MaxCallObjects
    BY <1>7, DialCallStep
  <2> QED
    BY <1>1, <1>2, <2>1, <2>2 DEF Results
<1>8. ASSUME NEW op \in ControlOps, NEW c \in Range(table), Control(op, c) PROVE Done
  <2>1. ControlDone
    BY <1>8, ControlStep
  <2>2. Reached(NoKey)
    BY <2>1 DEF Reached, ControlDone
  <2> QED
    BY <1>1, <1>2, <2>1, <2>2 DEF ControlDone, Results
<1>9. ASSUME NEW ok \in BOOLEAN, RunRequest(ok) PROVE Done
  <2>1. Reached(NoKey)
    BY <1>9, RunRequestStep DEF Reached
  <2>2. /\ requests' \in Seq(Posted) /\ UNCHANGED <<details, todo>>
        /\ result' = "none"
    BY <1>9, RunRequestStep
  <2> QED
    BY <1>1, <1>2, <2>1, <2>2 DEF Results
<1>10. ASSUME ProtectTimeout PROVE Done
  <2>1. Reached(NoKey)
    BY <1>10, ProtectTimeoutStep DEF Reached
  <2> QED
    BY <1>1, <1>2, <1>10, <2>1 DEF ProtectTimeout, Results
<1> QED
    BY <1>3, <1>4, <1>5, <1>6, <1>7, <1>8, <1>9, <1>10 DEF Next

\* The start.
LEMMA TypeInit ==
    ASSUME Init
    PROVE  TypeInv
<1>1. table = <<>> /\ lastCallId = NoId /\ dialEcc = FALSE
    BY DEF Init
<1>2. <<>> \in Seq(Call) /\ <<>> \in Seq(Telling) /\ {} \in SUBSET Commands
    OBVIOUS
<1>3. Now \in Manager
    BY <1>2 DEF Init, Now, Manager, Telling, Commands
<1>4. Sound(<<>>, NoId, FALSE)
    BY CallManagerAssumption DEF Sound
<1>5. Good(Now)
    BY <1>1, <1>3, <1>4, NowIs DEF Good
<1>6. details \in [Slots -> [Index -> Entry \cup {Absent}]]
    BY DEF Init
<1> QED
    BY <1>2, <1>5, <1>6 DEF Init, TypeInv, Results

\* A step that changes nothing.
LEMMA TypeStutter ==
    ASSUME TypeInv, UNCHANGED vars
    PROVE  TypeInv'
<1>1. Now' = Now
    BY DEF vars, coreVars, Now
<1> QED
    BY <1>1 DEF vars, coreVars, TypeInv

\* The invariant of the call core holds, for every value of the constants.
THEOREM TypesHold == Spec => []TypeInv
<1>1. Init => TypeInv
    BY TypeInit
<1>2. TypeInv /\ [Next]_vars => TypeInv'
    BY NextKeeps, TypeStutter
<1> QED
    BY <1>1, <1>2, PTL DEF Spec

\* Every variable keeps its type, and the table its size, in every order of
\* reports, client calls and requests (CallObjectManager::AddOneCallObject).
THEOREM TableIsTyped == Spec => []TypeOK
<1>1. TypeInv => TypeOK
  <2> SUFFICES ASSUME TypeInv PROVE TypeOK
    OBVIOUS
  <2> DEFINE T == [op : ControlOps, id : Nat]
  <2>1. requests \in Seq(T)
    <3>1. Posted \in SUBSET T
      BY DEF Posted
    <3>2. requests \in Seq(Posted)
      BY DEF TypeInv
    <3> HIDE DEF T
    <3> QED
      BY <3>1, <3>2
  <2> QED
    BY <2>1, GoodNow DEF TypeInv, TypeOK, Sound, Commands, Telling, Results
<1> QED
    BY <1>1, TypesHold, PTL

\* No two calls of the table share an id or answer to the same index of a slot,
\* however indexes are reused, types changed and dials resolved out of order
\* (CallStatusManager).
THEOREM KeysAreUnique == Spec => []UniqueKey
<1>1. TypeInv => UniqueKey
    BY GoodNow DEF TypeInv, UniqueKey, Sound, Apart
<1> QED
    BY <1>1, TypesHold, PTL

\* However long an answer waits in the queue, it goes to the stack only for a
\* call that rings (CallRequestProcess::AnswerRequest).
THEOREM AnswersReachRingingCalls == Spec => AnswerOnlyRinging
<1>1. TypeInv /\ [Next]_vars =>
         [\A s \in sent' : s.cmd = "Answer" =>
            RunningState(CallById(table, s.id).tel) = "RINGING"]_vars
  <2> SUFFICES ASSUME TypeInv, Next
               PROVE  \A s \in sent' : s.cmd = "Answer" =>
                        RunningState(CallById(table, s.id).tel) = "RINGING"
    OBVIOUS
  <2>1. \E info : Reached(info)
    BY NextKeeps
  <2> QED
    BY <2>1 DEF Reached, Apply, Follows, Asked
<1> QED
    BY <1>1, TypesHold, PTL DEF Spec, AnswerOnlyRinging

\* A full table holds at least as many emergency calls as entries are reserved:
\* those entries can hold no other call, and each holds one of its own.
LEMMA ReservedEntries ==
    ASSUME TypeInv, Len(table) >= MaxCallObjects
    PROVE  Cardinality({c \in Range(table) : c.ecc}) >= EccReserved
<1> DEFINE E == {c \in Range(table) : c.ecc}
           D == (MaxCallObjects - EccReserved) + 1 .. MaxCallObjects
           f == [i \in D |-> table[i]]
<1>1. /\ MaxCallObjects \in Nat /\ EccReserved \in Nat
      /\ EccReserved <= MaxCallObjects
    BY CallManagerAssumption
<1>2. /\ table \in Seq(Call) /\ Len(table) = MaxCallObjects
      /\ \A i, j \in DOMAIN table : i # j => table[i].id # table[j].id
      /\ \A i \in DOMAIN table :
            ~table[i].ecc => i <= MaxCallObjects - EccReserved
    BY <1>1, GoodNow DEF TypeInv, Sound
<1>3. \A i \in D : /\ i \in DOMAIN table /\ ~(i <= MaxCallObjects - EccReserved)
    BY <1>1, <1>2
<1>4. Cardinality(D) = EccReserved
  <2>1. (MaxCallObjects - EccReserved) + 1 \in Int /\ MaxCallObjects \in Int
    BY <1>1
  <2> QED
    BY <1>1, <2>1, FS_Interval
<1> HIDE DEF D
<1>5. \A i \in D : table[i] \in E
    BY <1>2, <1>3, RangeIs
<1>6. f \in [D -> E]
    BY <1>5
<1>7. f \in Injection(D, E)
    BY <1>2, <1>3, <1>6 DEF Injection, IsInjective
<1>8. IsFiniteSet(Range(table))
  <2>1. table \in Surjection(1 .. Len(table), Range(table))
    BY <1>2 DEF Surjection, Range
  <2>2. IsFiniteSet(1 .. Len(table))
    BY <1>1, <1>2, FS_Interval
  <2> QED
    BY <2>1, <2>2, FS_Surjection
<1>9. IsFiniteSet(E)
    BY <1>8, FS_Subset
<1> HIDE DEF E, f
<1>10. Cardinality(D) <= Cardinality(E)
    BY <1>7, <1>9, FS_Injection
<1>11. Cardinality(E) \in Nat
    BY <1>9, FS_CardinalityType
<1> QED
    BY <1>1, <1>4, <1>10, <1>11 DEF E

\* An emergency dial finds no entry only if emergency calls fill those reserved
\* for them (MINI_ECC_RESERVED_CALL_OBJECTS).
THEOREM EccEntriesAreKept == Spec => EccHasRoom
<1>1. TypeInv /\ [Next]_vars =>
         [result' = "full" /\ dialEcc' =>
            Cardinality({c \in Range(table) : c.ecc}) >= EccReserved]_vars
    BY NextKeeps, ReservedEntries
<1> QED
    BY <1>1, TypesHold, PTL DEF Spec, EccHasRoom

-----------------------------------------------------------------------------
\* The last list of its slot reported the call.
Listed(c) == details[c.slot][c.index] # Absent

\* An entry that is going to end the call.
Ends(e, c) == e.state = "DISCONNECTED" /\ HasKey(c, e)

\* Between two entries of a list: no list keeps an ended call; what is still to
\* be handled, other than an end, is listed; and a bound call is listed or one
\* of the entries to come ends it.
ListInv ==
    /\ \A s \in Slots, i \in Index :
          details[s][i] # Absent => details[s][i].state # "DISCONNECTED"
    /\ \A e \in Range(todo) : e.state # "DISCONNECTED" => Listed(e)
    /\ \A c \in Range(table) :
          c.index # InitIndex =>
             Listed(c) \/ \E e \in Range(todo) : Ends(e, c)

\* A step that is no report brings no key.
LEMMA QuietStep ==
    ASSUME TypeInv, ListInv, Reached(NoKey), UNCHANGED <<details, todo>>
    PROVE  ListInv'
<1>1. PICK n : Apply(n) /\ Follows(n, NoKey)
    BY DEF Reached
<1>2. table' = n.table
    BY <1>1 DEF Apply
<1>3. ASSUME NEW y \in Range(table'), y.index # InitIndex
      PROVE  \E x \in Range(table) : HasKey(y, x)
    BY <1>1, <1>2, <1>3 DEF Follows, KeyIn, NoKey, HasKey
<1>4. ASSUME NEW y \in Range(table'), y.index # InitIndex
      PROVE  Listed(y) \/ \E e \in Range(todo) : Ends(e, y)
    BY <1>3, <1>4 DEF ListInv, Listed, Ends, HasKey
<1> QED
    BY <1>4 DEF ListInv, Listed

\* One entry of a list: the key it may bring is listed, and a call that was to
\* be ended by it is ended.
LEMMA EntryListed ==
    ASSUME TypeInv, ListInv, HandleEntry
    PROVE  ListInv'
<1> DEFINE h == Head(todo)
<1>1. /\ todo \in Seq(Info) /\ todo # <<>> /\ todo' = Tail(todo)
      /\ Apply(HandleCallReportInfo(Now, h)) /\ details' = details
    BY DEF HandleEntry, TypeInv
<1>2. h \in Info /\ h \in Range(todo) /\ Range(todo) = Range(todo') \cup {h}
  <2>1. /\ todo' \in Seq(Info) /\ Len(todo') = Len(todo) - 1
        /\ \A i \in 1 .. Len(todo) - 1 : todo'[i] = todo[i + 1]
    BY <1>1
  <2>2. ASSUME NEW x \in Range(todo) PROVE x = h \/ x \in Range(todo')
    <3>1. PICK i \in 1 .. Len(todo) : x = todo[i]
      BY <1>1 DEF Range
    <3>2. CASE i = 1
      BY <1>1, <3>1, <3>2
    <3>3. CASE i # 1
      <4>1. i - 1 \in 1 .. Len(todo) - 1 /\ todo'[i - 1] = x
        BY <1>1, <2>1, <3>1, <3>3
      <4> QED
        BY <2>1, <4>1 DEF Range
    <3> QED
      BY <3>2, <3>3
  <2>3. ASSUME NEW x \in Range(todo') PROVE x \in Range(todo)
    <3>1. PICK i \in 1 .. Len(todo) - 1 : x = todo'[i]
      BY <2>1 DEF Range
    <3>2. i + 1 \in 1 .. Len(todo) /\ x = todo[i + 1]
      BY <1>1, <2>1, <3>1
    <3> QED
      BY <1>1, <3>2 DEF Range
  <2>4. h \in Info /\ h = todo[1] /\ 1 \in DOMAIN todo
    BY <1>1
  <2>5. h \in Range(todo)
    BY <2>4 DEF Range
  <2> QED
    BY <2>2, <2>3, <2>4, <2>5
<1> HIDE DEF h
<1>3. PICK n : /\ Apply(n) /\ Follows(n, h)
               /\ h.state = "DISCONNECTED" =>
                     \A d \in Range(n.table) : ~HasKey(d, h)
    BY <1>1, <1>2, ReportStep
<1>4. table' = n.table
    BY <1>3 DEF Apply
<1>5. ASSUME NEW y \in Range(table'), y.index # InitIndex
      PROVE  Listed(y) \/ \E e \in Range(todo') : Ends(e, y)
  <2>1. h.state = "DISCONNECTED" => ~HasKey(y, h)
    BY <1>3, <1>4
  <2>2. HasKey(y, h) \/ \E x \in Range(table) : HasKey(y, x)
    BY <1>3, <1>4, <1>5 DEF Follows, KeyIn, HasKey
  <2>3. CASE HasKey(y, h)
    <3>1. Listed(h)
      BY <2>1, <2>3, <1>2 DEF ListInv
    <3> QED
      BY <3>1, <2>3 DEF Listed, HasKey
  <2>4. CASE ~HasKey(y, h)
    <3>1. PICK x \in Range(table) : HasKey(y, x)
      BY <2>2, <2>4
    <3>2. x.index # InitIndex
      BY <3>1, <1>5 DEF HasKey
    <3>3. CASE Listed(x)
      BY <3>1, <3>3 DEF Listed, HasKey
    <3>4. CASE \E e \in Range(todo) : Ends(e, x)
      <4>1. PICK e \in Range(todo) : Ends(e, x)
        BY <3>4
      <4>2. Ends(e, y)
        BY <3>1, <4>1 DEF Ends, HasKey
      <4>3. e # h
        BY <4>2, <2>4 DEF Ends
      <4> QED
        BY <4>1, <4>2, <4>3, <1>2
    <3> QED
      BY <3>2, <3>3, <3>4 DEF ListInv
  <2> QED
    BY <2>3, <2>4
<1>6. \A e \in Range(todo') : e.state # "DISCONNECTED" => Listed(e)
    BY <1>2 DEF ListInv
<1> QED
    BY <1>1, <1>5, <1>6 DEF ListInv, Listed

\* A new list: the calls that are gone from it, or in it as ended, are entries
\* to come.
LEMMA ListListed ==
    ASSUME TypeInv, ListInv, NEW s \in Slots, NEW list \in Lists,
           ReportCalls(s, list)
    PROVE  ListInv'
<1> DEFINE row == [i \in Index |->
                     IF list[i] # Absent /\ list[i].state = "DISCONNECTED"
                     THEN Absent ELSE list[i]]
<1>1. /\ todo = <<>> /\ details' = [details EXCEPT ![s] = row]
      /\ Apply(Now)
    BY DEF ReportCalls, Idle
<1>2. /\ list \in [Index -> Entry \cup {Absent}]
      /\ details \in [Slots -> [Index -> Entry \cup {Absent}]]
    BY DEF Lists, TypeInv
<1>3. Range(todo') = Changed(s, list) \cup Gone(s, list)
    BY ReportCallsStep
<1>4. table' = table /\ table \in Seq(Call)
    BY <1>1, NowIs, GoodNow DEF Apply, TypeInv
<1>5. \A i \in Index :
         row[i] = IF list[i] # Absent /\ list[i].state = "DISCONNECTED"
                  THEN Absent ELSE list[i]
    OBVIOUS
<1> HIDE DEF row
<1>6. /\ details'[s] = row
      /\ \A t \in Slots : t # s => details'[t] = details[t]
    BY <1>1, <1>2
<1>7. ASSUME NEW t \in Slots, NEW i \in Index, details'[t][i] # Absent
      PROVE  details'[t][i].state # "DISCONNECTED"
    BY <1>5, <1>6, <1>7 DEF ListInv
<1>8. ASSUME NEW e \in Range(todo'), e.state # "DISCONNECTED"
      PROVE  details'[e.slot][e.index] # Absent
  <2>1. e \notin Gone(s, list)
    BY <1>8 DEF Gone, AsInfo
  <2>2. PICK i \in Index : /\ IsChanged(details[s][i], list[i])
                           /\ e = AsInfo(s, i, list[i])
    BY <1>3, <2>1 DEF Changed
  <2>3. e.slot = s /\ e.index = i /\ e.state = list[i].state /\ list[i] # Absent
    BY <2>2 DEF AsInfo, IsChanged
  <2> QED
    BY <1>5, <1>6, <1>8, <2>3
<1>9. ASSUME NEW c \in Range(table'), c.index # InitIndex
      PROVE  \/ details'[c.slot][c.index] # Absent
             \/ \E e \in Range(todo') : Ends(e, c)
  <2>1. c \in Range(table) /\ c.index \in Index /\ c.slot \in Slots
    BY <1>4, <1>9, RangeIs DEF Call
  <2>2. details[c.slot][c.index] # Absent
    BY <1>1, <1>9, <2>1 DEF ListInv, Listed, Range
  <2>3. CASE c.slot # s
    BY <1>6, <2>1, <2>2, <2>3
  <2>4. CASE c.slot = s
    <3> DEFINE i == c.index
    <3>1. CASE list[i] = Absent
      <4> DEFINE e == [AsInfo(s, i, details[s][i]) EXCEPT !.state = "DISCONNECTED"]
      <4>1. e \in Gone(s, list)
        BY <2>1, <2>2, <2>4, <3>1 DEF Gone
      <4>2. Ends(e, c)
        BY <2>4 DEF Ends, HasKey, AsInfo
      <4> QED
        BY <4>1, <4>2, <1>3
    <3>2. CASE list[i] # Absent /\ list[i].state = "DISCONNECTED"
      <4> DEFINE e == AsInfo(s, i, list[i])
      <4>1. list[i] # details[s][i]
        BY <2>1, <2>2, <2>4, <3>2 DEF ListInv
      <4>2. e \in Changed(s, list)
        BY <2>1, <3>2, <4>1 DEF Changed, IsChanged
      <4>3. Ends(e, c)
        BY <2>4, <3>2 DEF Ends, HasKey, AsInfo
      <4> QED
        BY <4>2, <4>3, <1>3
    <3>3. CASE list[i] # Absent /\ list[i].state # "DISCONNECTED"
      BY <1>5, <1>6, <2>1, <2>4, <3>3
    <3> QED
      BY <3>1, <3>2, <3>3
  <2> QED
    BY <2>3, <2>4
<1> QED
    BY <1>7, <1>8, <1>9 DEF ListInv, Listed

\* Every step, where all reports are lists.
LEMMA ListNext ==
    ASSUME "one" \notin ReportKinds, TypeInv, ListInv, [Next]_vars
    PROVE  ListInv'
<1>1. CASE UNCHANGED vars
    BY <1>1 DEF vars, coreVars, ListInv, Listed
<1>2. Reports = {}
    BY DEF Reports
<1>3. ASSUME Reached(NoKey), UNCHANGED <<details, todo>> PROVE ListInv'
    BY <1>3, QuietStep
<1>4. ASSUME NEW event \in FailedRequests, EventResult(event) PROVE ListInv'
    BY <1>3, <1>4, EventResultStep DEF Reached, EventResult
<1>5. ASSUME NEW s \in Slots, NEW type \in CallTypes, NEW ecc \in BOOLEAN,
             NEW ok \in BOOLEAN, DialCall(s, type, ecc, ok)
      PROVE  ListInv'
    BY <1>3, <1>5, DialCallStep DEF Reached
<1>6. ASSUME NEW op \in ControlOps, NEW c \in Range(table), Control(op, c)
      PROVE  ListInv'
    BY <1>3, <1>6, ControlStep DEF Reached, ControlDone
<1>7. ASSUME NEW ok \in BOOLEAN, RunRequest(ok) PROVE ListInv'
    BY <1>3, <1>7, RunRequestStep DEF Reached
<1>8. ASSUME ProtectTimeout PROVE ListInv'
    BY <1>3, <1>8, ProtectTimeoutStep DEF Reached, ProtectTimeout
<1> QED
    BY <1>1, <1>2, <1>4, <1>5, <1>6, <1>7, <1>8, ListListed, EntryListed DEF Next

\* Where the stack reports lists, no call outlives the stack's: between two
\* lists every bound call is in the last list of its slot, so that the next one
\* can end it (CallStatusManager::HandleCallsReportInfo).
THEOREM NoZombieCalls ==
    ASSUME "one" \notin ReportKinds
    PROVE  Spec => []NoZombieCall
<1>1. Init => ListInv
    BY DEF Init, ListInv, Range
<1>2. TypeInv /\ ListInv /\ [Next]_vars => ListInv'
    BY ListNext
<1>3. ListInv => NoZombieCall
    BY DEF ListInv, NoZombieCall, Listed, Idle, Range
<1> QED
    BY <1>1, <1>2, <1>3, TypesHold, PTL DEF Spec

\* An emergency call keeps its mark as long as it lives, through every change of
\* its type and every later dial (RefreshCall, CreateNewCall).
EccMarkKept ==
    [][\A id \in Ids(table) \cap Ids(table') :
          CallById(table, id).ecc => CallById(table', id).ecc]_vars

\* A call of the table is what its id finds.
LEMMA CallOfId ==
    ASSUME Good(Now), NEW x \in Range(table)
    PROVE  CallById(table, x.id) = x
<1>1. table \in Seq(Call) /\ Sound(table, lastCallId, dialEcc)
    BY GoodNow
<1>2. PICK i \in DOMAIN table : x = table[i]
    BY <1>1, RangeIs
<1> QED
    BY <1>1, <1>2, CallByIdIs DEF Sound

\* EccMarkKept for every table and every mix of dials: a refresh may overwrite
\* the slot and type of a call, its mark of an emergency number never.
THEOREM EccMarksAreKept == Spec => EccMarkKept
<1>1. TypeInv /\ [Next]_vars =>
         [\A id \in Ids(table) \cap Ids(table') :
             CallById(table, id).ecc => CallById(table', id).ecc]_vars
  <2> SUFFICES ASSUME TypeInv, Next, NEW id \in Ids(table) \cap Ids(table'),
                      CallById(table, id).ecc
               PROVE  CallById(table', id).ecc
    OBVIOUS
  <2>1. PICK info : Reached(info)
    BY NextKeeps
  <2>2. PICK n : Good(n) /\ Apply(n) /\ Follows(n, info)
    BY <2>1 DEF Reached
  <2>3. PICK y \in Range(n.table) : y.id = id
    BY <2>2 DEF Apply, Ids
  <2>4. PICK x \in Range(table) : x.id = id
    BY DEF Ids
  <2>5. id \in Nat /\ id <= lastCallId /\ lastCallId \in Nat
    BY <2>4, GoodNow, RangeIs, CallsAreCalls DEF TypeInv, Sound
  <2>6. \E z \in Range(table) : z.id = y.id /\ (z.ecc => y.ecc)
    BY <2>2, <2>3, <2>5 DEF Follows
  <2>7. y.ecc
    BY <2>3, <2>6, CallOfId DEF TypeInv
  <2>8. CallById(n.table, id) = y
    <3>1. n.table \in Seq(Call) /\ Sound(n.table, n.lastCallId, n.dialEcc)
      BY <2>2, ManagerFields DEF Good
    <3>2. PICK i \in DOMAIN n.table : y = n.table[i]
      BY <3>1, RangeIs
    <3> QED
      BY <2>3, <3>1, <3>2, CallByIdIs DEF Sound
  <2> QED
    BY <2>2, <2>7, <2>8 DEF Apply
<1> QED
    BY <1>1, TypesHold, PTL DEF Spec, EccMarkKept
-----------------------------------------------------------------------------
\* What the pending flags and the tones rest on survives a step: a handler's
\* record that settles is settled when its fields are the variables again.
LEMMA SettledApply ==
    ASSUME NEW n, Settled(n), Apply(n)
    PROVE  Settled(Now)'
<1>1. /\ Now'.table = n.table /\ Now'.pendingMo = n.pendingMo
      /\ Now'.pendingHangup = n.pendingHangup
      /\ Now'.ringtone = n.ringtone /\ Now'.waitingTone = n.waitingTone
      /\ Now'.callAudio = n.callAudio
    BY DEF Apply, Now
<1>2. Settled(Now')
  <2> DEFINE z == Now'
  <2>1. Unbound(z) = Unbound(n) /\ Waited(z) = Waited(n) /\ Tones(z) = Tones(n)
    BY <1>1 DEF Unbound, Waited, Tones
  <2>2. /\ z.table = n.table /\ z.pendingMo = n.pendingMo
        /\ z.pendingHangup = n.pendingHangup
    BY <1>1
  <2> HIDE DEF z
  <2>3. Settled(z)
    BY <2>1, <2>2 DEF Settled, Silent
  <2> QED
    BY <2>3 DEF z
<1> QED
    BY <1>2

\* Nothing is pending and nothing sounds at the start.
LEMMA SettledInit ==
    ASSUME Init
    PROVE  Settled(Now)
<1>1. /\ Now.table = <<>> /\ Now.pendingMo = NoId /\ Now.pendingHangup = NoId
      /\ Now.ringtone = FALSE /\ Now.waitingTone = FALSE /\ Now.callAudio = FALSE
    BY DEF Init, Now
<1>2. Range(Now.table) = {}
    BY <1>1 DEF Range
<1>3. Unbound(Now) = {} /\ Waited(Now) = {} /\ Silent(Now)
    BY <1>1, <1>2 DEF Unbound, Waited, Silent, Tones
<1> QED
    BY <1>1, <1>3 DEF Settled

\* A settled state is what CallRequestEventHandlerHelper and AudioControlManager
\* rely on: the flag of a dial names a call that waits for its index, and the
\* tones end with the last call.
LEMMA SettledIsSound ==
    ASSUME TypeInv, Settled(Now)
    PROVE  PendingIsUnbound /\ QuietWhenEmpty
<1>1. /\ Now.table = table /\ Now.pendingMo = pendingMo
      /\ Now.pendingHangup = pendingHangup /\ Now.ringtone = ringtone
      /\ Now.waitingTone = waitingTone /\ Now.callAudio = callAudio
    BY DEF Now
<1>2. ASSUME NEW id \in {pendingMo, pendingHangup} \ {NoId}
      PROVE  /\ CallById(table, id) # NoCall
             /\ CallById(table, id).index = InitIndex
             /\ CallById(table, id).tel = "DIALING"
  <2>1. id \in Waited(Now)
    BY <1>1 DEF Waited
  <2>2. PICK c \in Unbound(Now) : c.id = id
    BY <2>1 DEF Settled
  <2>3. c \in Range(table) /\ c.index = InitIndex /\ c.tel = "DIALING"
    BY <1>1 DEF Settled, Unbound
  <2>4. c \in Call
    BY <2>3, GoodNow, RangeIs DEF TypeInv
  <2>5. CallById(table, id) = c
    BY <2>2, <2>3, CallOfId DEF TypeInv
  <2> QED
    BY <2>3, <2>4, <2>5, CallsAreCalls
<1>3. PendingIsUnbound
    BY <1>1, <1>2 DEF PendingIsUnbound, Settled
<1>4. QuietWhenEmpty
  <2> SUFFICES ASSUME table = <<>>
               PROVE  /\ ~ringtone /\ ~waitingTone /\ ~callAudio
                      /\ pendingMo = NoId /\ pendingHangup = NoId
    BY DEF QuietWhenEmpty
  <2>1. Range(Now.table) = {}
    BY <1>1 DEF Range
  <2>2. Silent(Now) /\ Unbound(Now) = {}
    BY <2>1 DEF Settled, Unbound
  <2>3. Waited(Now) = {}
    BY <2>2 DEF Settled
  <2> QED
    BY <1>1, <2>2, <2>3 DEF Silent, Tones, Waited
<1> QED
    BY <1>3, <1>4

\* The pending flags name a dial that has no index yet, never one call twice,
\* and nothing of a call is left behind it: no tone, no audio, no flag
\* (CallRequestEventHandlerHelper, AudioControlManager).
THEOREM TableStaysSound == Spec => []TableIsSound
<1>1. Init => Settled(Now)
    BY SettledInit
<1>2. TypeInv /\ Settled(Now) /\ [Next]_vars => Settled(Now)'
  <2> SUFFICES ASSUME TypeInv, Settled(Now), [Next]_vars PROVE Settled(Now)'
    OBVIOUS
  <2>1. CASE Next
    <3>1. PICK info : Reached(info)
      BY <2>1, NextKeeps
    <3>2. PICK n : Apply(n) /\ Follows(n, info)
      BY <3>1 DEF Reached
    <3>3. Settled(n)
      BY <3>2 DEF Follows, Settles
    <3> QED
      BY <3>2, <3>3, SettledApply
  <2>2. CASE UNCHANGED vars
    <3>1. Now' = Now
      BY <2>2 DEF vars, coreVars, Now
    <3>2. Settled(Now')
      BY <3>1
    <3> QED
      BY <3>2
  <2> QED
    BY <2>1, <2>2
<1>3. TypeOK /\ TypeInv /\ Settled(Now) => TableIsSound
    BY SettledIsSound DEF TableIsSound
<1> QED
    BY <1>1, <1>2, <1>3, TypesHold, TableIsTyped, PTL DEF Spec
-----------------------------------------------------------------------------
\* The state and slot of a call of the table, by its id, and what was told of it
\* in the step, at which place.
Calls(m, id) == {x \in Range(m.table) : x.id = id}
View(m, id) == {<<x.tel, x.slot>> : x \in Calls(m, id)}
Heard(m, id) == {<<i, m.told[i].state>> :
                    i \in {j \in DOMAIN m.told : m.told[j].id = id}}

\* The calls that were there before, but for those of S, are as they were, and
\* nothing was told of them.
Still(m, n, S) ==
    \A id \in Nat : id <= m.lastCallId /\ id \notin S =>
        View(n, id) = View(m, id) /\ Heard(n, id) = Heard(m, id)

\* No command is taken back, and the mark of a kept hang-up goes only with it.
Hung(m, n) ==
    /\ m.sent \subseteq n.sent
    /\ m.pendingHangup # NoId /\ n.pendingHangup # m.pendingHangup =>
          \E s \in n.sent : /\ s.id = m.pendingHangup
                            /\ s.cmd \in {"HangUp", "HangUpActive"}

UnboundIds(m) == {c.id : c \in Unbound(m)}

\* What a handler does that has only calls of S in hand.
Leaves(m, n, S) ==
    Still(m, n, S) /\ Hung(m, n) /\ m.lastCallId <= n.lastCallId
Serves(m, n, S) == Leaves(m, n, S) /\ UnboundIds(n) \subseteq UnboundIds(m)

\* A call nothing was told of is as it was, with nothing told, or its new state,
\* on the old slot, or its end was told once.
Tells(m, n, id) ==
    Heard(m, id) = {} =>
        \/ View(n, id) = View(m, id) /\ Heard(n, id) = {}
        \/ \E k, state :
              /\ Heard(n, id) = {<<k, state>>}
              /\ \/ View(n, id) = {} /\ state = "DISCONNECTED"
                 \/ \E tel, slot : /\ <<tel, slot>> \in View(m, id)
                                   /\ View(n, id) = {<<state, slot>>}

\* As long as the last dial was no emergency call, at most one call waits for
\* its index.
OneUnbound(m) == \A c, d \in Unbound(m) : c.id = d.id
Normal(m) == Good(m) /\ Settled(m) /\ m.dialEcc = FALSE /\ OneUnbound(m)

\* Ids are numbers.
LEMMA IdsAreNumbers ==
    ASSUME NEW m, Good(m)
    PROVE  /\ m.lastCallId \in Nat
           /\ \A x \in Range(m.table) :
                 x \in Call /\ x.id \in Nat /\ x.id # NoId /\ x.id <= m.lastCallId
<1>1. m.table \in Seq(Call) /\ m.lastCallId \in Nat
    BY ManagerFields DEF Good
<1> QED
    BY <1>1, RangeIs, CallsAreCalls DEF Good, Sound

\* What changes neither the table nor the tellings serves any calls.
LEMMA ServesSelf ==
    ASSUME NEW m, Good(m), NEW n, NEW S, n.table = m.table, n.told = m.told,
           m.lastCallId <= n.lastCallId, Hung(m, n)
    PROVE  Serves(m, n, S)
<1>1. \A id : View(n, id) = View(m, id) /\ Heard(n, id) = Heard(m, id)
    BY DEF View, Calls, Heard
<1>2. UnboundIds(n) = UnboundIds(m)
    BY DEF UnboundIds, Unbound
<1> QED
    BY <1>1, <1>2 DEF Serves, Leaves, Still

\* Handlers one after the other.
LEMMA LeavesTrans ==
    ASSUME NEW m, NEW n, NEW o, Good(m), Good(n), Good(o), NEW S, NEW T, NEW U,
           Leaves(m, n, S), Leaves(n, o, T), S \subseteq U, T \subseteq U
    PROVE  Leaves(m, o, U)
<1>1. m.lastCallId \in Nat /\ n.lastCallId \in Nat /\ o.lastCallId \in Nat
    BY IdsAreNumbers
<1>2. m.lastCallId <= n.lastCallId /\ n.lastCallId <= o.lastCallId
    BY DEF Leaves
<1>3. ASSUME NEW id \in Nat, id <= m.lastCallId, id \notin U
      PROVE  View(o, id) = View(m, id) /\ Heard(o, id) = Heard(m, id)
  <2>1. id <= n.lastCallId /\ id \notin S /\ id \notin T
    BY <1>1, <1>2, <1>3
  <2>2. View(n, id) = View(m, id) /\ Heard(n, id) = Heard(m, id)
    BY <1>3, <2>1 DEF Leaves, Still
  <2>3. View(o, id) = View(n, id) /\ Heard(o, id) = Heard(n, id)
    BY <1>3, <2>1 DEF Leaves, Still
  <2> QED
    BY <2>2, <2>3
<1>4. Hung(m, o)
  <2>1. Hung(m, n) /\ Hung(n, o)
    BY DEF Leaves
  <2>2. CASE n.pendingHangup = m.pendingHangup
    BY <2>1, <2>2 DEF Hung
  <2>3. CASE n.pendingHangup # m.pendingHangup
    BY <2>1, <2>3 DEF Hung
  <2> QED
    BY <2>2, <2>3
<1>5. m.lastCallId <= o.lastCallId
    BY <1>1, <1>2
<1> QED
    BY <1>3, <1>4, <1>5 DEF Leaves, Still

\* Two handlers serve what one of them serves.
LEMMA ServesTrans ==
    ASSUME NEW m, NEW n, NEW o, Good(m), Good(n), Good(o), NEW S, NEW T, NEW U,
           Serves(m, n, S), Serves(n, o, T), S \subseteq U, T \subseteq U
    PROVE  Serves(m, o, U)
<1>1. Leaves(m, n, S) /\ Leaves(n, o, T)
    BY DEF Serves
<1>2. Leaves(m, o, U)
    BY <1>1, LeavesTrans
<1> QED
    BY <1>2 DEF Serves

\* The ids that are still to be given out are no call's.
LEMMA LeavesFresh ==
    ASSUME NEW m, Good(m), NEW n, NEW id, id = m.lastCallId + 1,
           Leaves(m, n, {id})
    PROVE  Leaves(m, n, {})
<1>1. m.lastCallId \in Nat
    BY IdsAreNumbers
<1> QED
    BY <1>1 DEF Leaves, Still

\* Two handlers, one of which has not the call in hand, tell of it once.
LEMMA TellsTrans ==
    ASSUME NEW m, NEW n, NEW o, Good(m), Good(n), NEW S, NEW T, NEW id \in Nat,
           id <= m.lastCallId, Serves(m, n, S), Serves(n, o, T),
           \/ id \notin S /\ Tells(n, o, id)
           \/ id \notin T /\ Tells(m, n, id)
    PROVE  Tells(m, o, id)
<1>1. m.lastCallId \in Nat /\ n.lastCallId \in Nat /\ id <= n.lastCallId
    BY IdsAreNumbers DEF Serves, Leaves
<1>2. CASE id \notin S /\ Tells(n, o, id)
  <2>1. View(n, id) = View(m, id) /\ Heard(n, id) = Heard(m, id)
    BY <1>2 DEF Serves, Leaves, Still
  <2> QED
    BY <1>2, <2>1 DEF Tells
<1>3. CASE id \notin T /\ Tells(m, n, id)
  <2>1. View(o, id) = View(n, id) /\ Heard(o, id) = Heard(n, id)
    BY <1>1, <1>3 DEF Serves, Leaves, Still
  <2> QED
    BY <1>3, <2>1 DEF Tells
<1> QED
    BY <1>2, <1>3

\* Nothing told, nothing changed.
LEMMA StillTells ==
    ASSUME NEW m, NEW n, NEW S, Serves(m, n, S), NEW id \in Nat,
           id <= m.lastCallId, id \notin S
    PROVE  Tells(m, n, id)
BY DEF Serves, Leaves, Still, Tells

\* A good record that a handler made of a normal one is normal.
LEMMA NormalKept ==
    ASSUME NEW m, Normal(m), NEW n, NEW S, Good(n), Settles(m, n),
           n.dialEcc = m.dialEcc, Serves(m, n, S)
    PROVE  Normal(n)
<1>1. \A c \in Unbound(n) : c.id \in UnboundIds(n)
    BY DEF UnboundIds
<1>2. \A i, j \in UnboundIds(m) : i = j
    BY DEF UnboundIds, Normal, OneUnbound
<1>3. OneUnbound(n)
    BY <1>1, <1>2 DEF Serves, Leaves, OneUnbound
<1> QED
    BY <1>3 DEF Normal, Settles
-----------------------------------------------------------------------------
\* The parts of the handlers: what each tells and sends.
LEMMA ToldAndSent ==
    ASSUME NEW m \in Manager, NEW c
    PROVE  /\ Holding(m, c).told = m.told
           /\ Write(m, c).told = m.told
           /\ Delete(m).told = m.told
           /\ Append1(m, c).told = m.told /\ Append1(m, c).sent = m.sent
           /\ \A cmd : Send(m, cmd, c).told = m.told
           /\ HangUp(m, c).told = m.told
           /\ \A info, isIn : CreateNewCall(m, info, isIn).told = m.told
BY DEF Holding, Write, Delete, Append1, Send, HangUp, CreateNewCall, Manager

\* Sending a command takes none back and leaves the mark of a kept hang-up.
LEMMA SendHung ==
    ASSUME NEW m \in Manager, NEW c, NEW cmd
    PROVE  /\ m.sent \subseteq Send(m, cmd, c).sent
           /\ [cmd |-> cmd, id |-> c.id] \in Send(m, cmd, c).sent
           /\ Send(m, cmd, c).pendingHangup = m.pendingHangup
           /\ Hung(m, Send(m, cmd, c))
<1>1. Send(m, cmd, c).sent = m.sent \cup {[cmd |-> cmd, id |-> c.id]}
      /\ Send(m, cmd, c).pendingHangup = m.pendingHangup
    BY DEF Send, Manager
<1> QED
    BY <1>1 DEF Hung

\* HangUp sends one of its two commands for the call.
LEMMA HangUpHung ==
    ASSUME NEW m \in Manager, NEW c
    PROVE  /\ m.sent \subseteq HangUp(m, c).sent
           /\ \E s \in HangUp(m, c).sent :
                 s.id = c.id /\ s.cmd \in {"HangUp", "HangUpActive"}
<1>1. CASE c.hangUpActive
  <2> DEFINE e == [cmd |-> "HangUpActive", id |-> c.id]
             n == Send(m, "HangUpActive", c)
  <2>1. HangUp(m, c) = n
    BY <1>1 DEF HangUp
  <2>2. m.sent \subseteq n.sent /\ e \in n.sent
    BY SendHung
  <2>3. e.id = c.id /\ e.cmd = "HangUpActive"
    OBVIOUS
  <2> HIDE DEF e, n
  <2> QED
    BY <2>1, <2>2, <2>3
<1>2. CASE ~c.hangUpActive
  <2> DEFINE e == [cmd |-> "HangUp", id |-> c.id]
             n == Send(m, "HangUp", c)
  <2>1. HangUp(m, c) = n
    BY <1>2 DEF HangUp
  <2>2. m.sent \subseteq n.sent /\ e \in n.sent
    BY SendHung
  <2>3. e.id = c.id /\ e.cmd = "HangUp"
    OBVIOUS
  <2> HIDE DEF e, n
  <2> QED
    BY <2>1, <2>2, <2>3
<1> QED
    BY <1>1, <1>2

\* NotifyCallStateUpdated tells the state of the held call.
LEMMA NotifyTells ==
    ASSUME NEW m \in Manager, NEW prior, NEW next
    PROVE  Notify(m, prior, next).told =
              Append(m.told, [id |-> m.call.id, state |-> next])
<1> DEFINE e == [id |-> m.call.id, state |-> next]
           a == [m EXCEPT !.told = Append(@, e)]
<1>1. a.told = Append(m.told, e) /\ DOMAIN a = DOMAIN m
    BY DEF Manager
<1>2. /\ {"ringtone", "waitingTone", "callAudio", "told"} \subseteq DOMAIN m
    BY DEF Manager
<1>3. Notify(m, prior, next) = CallStateUpdated(a, prior, next)
    BY DEF Notify
<1> HIDE DEF a
<1>4. CallStateUpdated(a, prior, next).told = a.told
    BY <1>1, <1>2 DEF CallStateUpdated
<1> QED
    BY <1>1, <1>3, <1>4

\* One more entry of what is told, and tables that differ in one call.
Says(m, n, e) == m \in Manager /\ e \in Telling /\ n.told = Append(m.told, e)
SameBut(m, n, id) ==
    \A d : d.id # id => (d \in Range(n.table) <=> d \in Range(m.table))

\* A telling more is heard of its own call only, at the end.
LEMMA HeardAppend ==
    ASSUME NEW m, NEW n, NEW e, Says(m, n, e), NEW id
    PROVE  /\ e.id # id => Heard(n, id) = Heard(m, id)
           /\ e.id = id => Heard(n, id) = Heard(m, id)
                                          \cup {<<Len(m.told) + 1, e.state>>}
<1> DEFINE k == Len(m.told) + 1
           f == m.told
           g == n.told
<1>1. /\ DOMAIN f = 1 .. Len(m.told) /\ DOMAIN g = 1 .. k /\ g[k] = e
      /\ \A i \in DOMAIN f : g[i] = f[i]
      /\ Len(m.told) \in Nat
  <2>1. m.told \in Seq(Telling)
    BY DEF Says, Manager, Telling
  <2> QED
    BY <2>1 DEF Says
<1>2. DOMAIN g = DOMAIN f \cup {k} /\ k \notin DOMAIN f
    BY <1>1
<1>3. /\ Heard(m, id) = {<<i, f[i].state>> : i \in {j \in DOMAIN f : f[j].id = id}}
      /\ Heard(n, id) = {<<i, g[i].state>> : i \in {j \in DOMAIN g : g[j].id = id}}
    BY DEF Heard
<1> HIDE DEF k, f, g
<1>4. ASSUME e.id # id PROVE Heard(n, id) = Heard(m, id)
  <2>1. {j \in DOMAIN g : g[j].id = id} = {j \in DOMAIN f : f[j].id = id}
    BY <1>1, <1>2, <1>4
  <2> QED
    BY <1>1, <1>3, <2>1
<1>5. ASSUME e.id = id PROVE Heard(n, id) = Heard(m, id) \cup {<<k, e.state>>}
  <2>1. {j \in DOMAIN g : g[j].id = id} = {j \in DOMAIN f : f[j].id = id} \cup {k}
    BY <1>1, <1>2, <1>5
  <2> QED
    BY <1>1, <1>3, <2>1
<1> QED
    BY <1>4, <1>5 DEF k

\* The view of a call of which the table holds one.
LEMMA ViewIs ==
    ASSUME NEW m, Good(m), NEW x \in Range(m.table)
    PROVE  View(m, x.id) = {<<x.tel, x.slot>>}
<1>1. \A y \in Range(m.table) : y.id = x.id => y = x
    BY DEF Good, Sound, Range
<1>2. Calls(m, x.id) = {x}
    BY <1>1 DEF Calls
<1> QED
    BY <1>2 DEF View

\* A call that the table does not hold has none.
LEMMA NoView ==
    ASSUME NEW m, NEW id
    PROVE  View(m, id) = {} <=> id \notin Ids(m.table)
BY DEF View, Calls, Ids

\* Calls that were left alone look as before.
LEMMA OtherViews ==
    ASSUME NEW m, NEW n, NEW id, SameBut(m, n, id)
    PROVE  \A other : other # id => View(n, other) = View(m, other)
<1>1. ASSUME NEW other, other # id PROVE Calls(n, other) = Calls(m, other)
    BY <1>1 DEF Calls, SameBut
<1> QED
    BY <1>1 DEF View

\* UpdateCallState: the new state of the held call, told once.
LEMMA UpdateCallStateServes ==
    ASSUME NEW m, Good(m), Held(m), m.call \in Range(m.table), NEW next \in TelStates
    PROVE  LET n == UpdateCallState(m, next)
           IN  /\ Good(n) /\ Held(n) /\ n.call \in Range(n.table)
               /\ n.call.id = m.call.id /\ n.call.slot = m.call.slot
               /\ n.dialEcc = m.dialEcc /\ n.pendingHangup = m.pendingHangup
               /\ Serves(m, n, {m.call.id})
               /\ View(n, m.call.id) = {<<next, m.call.slot>>}
               /\ Ids(n.table) = Ids(m.table)
               /\ Heard(m, m.call.id) = {} =>
                     \E k : Heard(n, m.call.id) = {<<k, next>>}
               /\ Tells(m, n, m.call.id)
<1> DEFINE c == [m.call EXCEPT !.tel = next]
           w == Write(m, c)
           n == UpdateCallState(m, next)
           id == m.call.id
           e == [id |-> id, state |-> next]
<1>1. /\ Good(n) /\ Held(n) /\ n.call = c
      /\ n.lastCallId = m.lastCallId /\ n.dialEcc = m.dialEcc
      /\ n.sent = m.sent /\ n.pendingHangup = m.pendingHangup
      /\ Range(n.table) = {d \in Range(m.table) : d.id # c.id} \cup {c}
    BY UpdateCallStateIs
<1>2. c \in Call /\ c.id = id /\ c.tel = next /\ c.slot = m.call.slot
      /\ c.index = m.call.index
    BY DEF Held, Call
<1>3. n = Notify(w, m.call.tel, next)
    BY DEF UpdateCallState
<1>4. w \in Manager /\ w.told = m.told /\ w.call = c
  <2>1. c.ecc = m.call.ecc /\ c.isIn = m.call.isIn
    BY DEF Held, Call
  <2> HIDE DEF c
  <2>2. Good(w) /\ w.call = c
    BY <1>2, <2>1, WriteSame
  <2> QED
    BY <2>2, ToldAndSent DEF Good
<1> HIDE DEF w, n
<1>5. n.told = Append(m.told, e)
  <2>1. n.told = Append(w.told, [id |-> w.call.id, state |-> next])
    BY <1>3, <1>4, NotifyTells
  <2>2. w.told = m.told /\ w.call.id = id
    BY <1>2, <1>4
  <2> QED
    BY <2>1, <2>2
<1> HIDE DEF c
<1>6. Says(m, n, e) /\ e.id = id /\ e.state = next
    BY <1>5, IdsAreNumbers DEF Good, Telling, Says
<1> HIDE DEF e
<1>7. \A other : /\ id # other => Heard(n, other) = Heard(m, other)
                 /\ id = other => Heard(n, other) = Heard(m, other)
                                     \cup {<<Len(m.told) + 1, next>>}
  <2> SUFFICES ASSUME NEW other
               PROVE  /\ id # other => Heard(n, other) = Heard(m, other)
                      /\ id = other => Heard(n, other) = Heard(m, other)
                                          \cup {<<Len(m.told) + 1, next>>}
    OBVIOUS
  <2>2. /\ e.id # other => Heard(n, other) = Heard(m, other)
        /\ e.id = other => Heard(n, other) = Heard(m, other)
                                \cup {<<Len(m.told) + 1, e.state>>}
    BY <1>6, HeardAppend
  <2> QED
    BY <1>6, <2>2
<1>8. {d \in Range(n.table) : d.id # id} = {d \in Range(m.table) : d.id # id}
    BY <1>1, <1>2
<1>9. Still(m, n, {id})
  <2>0. SameBut(m, n, id)
    BY <1>8 DEF SameBut
  <2>1. \A other : other # id => View(n, other) = View(m, other)
    BY <2>0, OtherViews
  <2> QED
    BY <1>7, <2>1 DEF Still
<1>10. View(n, id) = {<<next, m.call.slot>>}
  <2>1. c \in Range(n.table)
    BY <1>1
  <2> QED
    BY <1>1, <1>2, <2>1, ViewIs
<1>11. \A d \in Range(m.table) : d.id = id => d = m.call
    BY DEF Held
<1>12. UnboundIds(n) \subseteq UnboundIds(m)
    BY <1>1, <1>2, <1>8 DEF UnboundIds, Unbound
<1>13. Hung(m, n) /\ m.lastCallId <= n.lastCallId
    BY <1>1, IdsAreNumbers DEF Hung
<1>14. Ids(n.table) = Ids(m.table)
    BY <1>1, <1>2, <1>8 DEF Ids
<1>15. Tells(m, n, id)
  <2>1. View(m, id) = {<<m.call.tel, m.call.slot>>}
    BY ViewIs
  <2>2. ASSUME Heard(m, id) = {}
        PROVE  \E k : Heard(n, id) = {<<k, next>>}
    BY <1>7, <2>2
  <2> QED
    BY <1>10, <2>1, <2>2 DEF Tells
<1> QED
    BY <1>1, <1>2, <1>7, <1>9, <1>10, <1>12, <1>13, <1>14, <1>15 DEF Serves, Leaves, n

-----------------------------------------------------------------------------
\* As long as no emergency call was dialled the table never reaches into the
\* reserved entries, so RefreshCall always finds room for the new object.
LEMMA RefreshNormal ==
    ASSUME NEW m, Good(m), Held(m), m.call \in Range(m.table),
           m.dialEcc = FALSE, NEW info \in AnyInfo
    PROVE  LET n == RefreshCall(m, info)
           IN  n.call \in Range(n.table) /\ n.told = m.told
<1> DEFINE old == m.call
           del == Delete(m)
           isIn == old.isIn
           n == CreateNewCall(del, info, isIn)
           new == [n.call EXCEPT !.id = old.id, !.tel = old.tel,
                                 !.hangUpActive = old.hangUpActive]
           r == RefreshCall(m, info)
<1>1. /\ m \in Manager /\ m.table \in Seq(Call) /\ isIn \in BOOLEAN
      /\ old \in Call /\ old.id \in Nat
    BY ManagerFields, CallsAreCalls DEF Good, Held, Call
<1>2. Len(del.table) < MaxCallObjects - EccReserved
  <2>1. del.table = Without(m.table, old.id)
    BY <1>1 DEF Delete, Manager
  <2>2. PICK k \in DOMAIN m.table : m.table[k] = old
    BY <1>1, RangeIs
  <2>3. Len(Without(m.table, old.id)) = Len(m.table) - 1
    BY <1>1, <2>2, WithoutIs
  <2>4. /\ Len(m.table) \in Nat /\ DOMAIN m.table = 1 .. Len(m.table)
    BY <1>1
  <2>5. Len(m.table) \in DOMAIN m.table
    BY <2>2, <2>4
  <2>6. ~m.table[Len(m.table)].ecc
    BY <2>5 DEF Good, Sound
  <2>7. Len(m.table) <= MaxCallObjects - EccReserved
    BY <2>5, <2>6 DEF Good, Sound
  <2> QED
    BY <2>1, <2>3, <2>4, <2>7, CallManagerAssumption
<1>3. Good(del) /\ del.dialEcc = FALSE /\ del.told = m.told
    BY <1>1, DeleteIs, ToldAndSent
<1> HIDE DEF del, isIn
<1>4. /\ Good(n) /\ n.table = del.table /\ n.told = del.told
      /\ n.call \in Call /\ (n.call.ecc <=> ~isIn /\ del.dialEcc)
  <2>1. /\ Good(n) /\ n.table = del.table
        /\ n.call \in Call /\ (n.call.ecc <=> ~isIn /\ del.dialEcc)
    BY <1>1, <1>3, CreateNewCallIs
  <2>2. n.told = del.told
    BY <1>3, ToldAndSent DEF Good
  <2> QED
    BY <2>1, <2>2
<1> HIDE DEF n
<1>5. new \in Call /\ ~new.ecc
    BY <1>1, <1>3, <1>4 DEF Call
<1> HIDE DEF new
<1>6. Admits(n.table, new)
    BY <1>2, <1>4, <1>5 DEF Admits
<1>7. r = Append1(n, new)
    BY <1>6 DEF RefreshCall, del, n, new, isIn
<1> HIDE DEF r
<1>8. r.call = new /\ r.table = Append(n.table, new) /\ r.told = n.told
    BY <1>4, <1>7 DEF Append1, Good, Manager
<1>9. r.call \in Range(r.table)
  <2>1. n.table \in Seq(Call)
    BY <1>4, ManagerFields DEF Good
  <2>2. /\ Append(n.table, new)[Len(n.table) + 1] = new
        /\ Len(n.table) + 1 \in DOMAIN Append(n.table, new)
    BY <1>5, <2>1
  <2> QED
    BY <1>8, <2>2 DEF Range
<1> QED
    BY <1>3, <1>4, <1>8, <1>9 DEF r

\* RefreshCall leaves the state and the slot of every call, and tells nothing.
LEMMA RefreshCallServes ==
    ASSUME NEW m, Good(m), Held(m), m.call \in Range(m.table),
           m.dialEcc = FALSE, NEW info \in AnyInfo, info.slot = m.call.slot,
           info.index = m.call.index \/ info.index # InitIndex,
           \A d \in Range(m.table) : d.id # m.call.id => Apart(info, d),
           NEW n, n = RefreshCall(m, info)
    PROVE  /\ Good(n) /\ Held(n) /\ n.call \in Range(n.table)
           /\ n.call.id = m.call.id /\ n.call.tel = m.call.tel
           /\ n.call.slot = m.call.slot
           /\ n.call.index = info.index \/ n.call = m.call
           /\ n.dialEcc = m.dialEcc
           /\ n.pendingHangup = m.pendingHangup
           /\ n.pendingMo = m.pendingMo
           /\ Ids(n.table) = Ids(m.table)
           /\ Serves(m, n, {})
<1>1. /\ Good(n) /\ Held(n) /\ n.call.id = m.call.id
      /\ n.call.tel = m.call.tel
      /\ \/ n.call.index = info.index /\ n.call.slot = info.slot
         \/ n.call = m.call
      /\ n.sent = m.sent /\ n.pendingMo = m.pendingMo
      /\ n.pendingHangup = m.pendingHangup
      /\ {d \in Range(n.table) : d.id # m.call.id} =
         {d \in Range(m.table) : d.id # m.call.id}
      /\ Kept(m, n, info)
    BY RefreshCallIs
<1>2. n.call \in Range(n.table) /\ n.told = m.told
    BY RefreshNormal
<1>3. n.dialEcc = m.dialEcc /\ m.lastCallId <= n.lastCallId
    BY <1>1 DEF Kept
<1>4. n.call.slot = m.call.slot
    BY <1>1
<1>5. SameBut(m, n, m.call.id)
    BY <1>1 DEF SameBut
<1>6. View(n, m.call.id) = View(m, m.call.id)
  <2>1. View(m, m.call.id) = {<<m.call.tel, m.call.slot>>}
    BY ViewIs
  <2>2. View(n, n.call.id) = {<<n.call.tel, n.call.slot>>}
    BY <1>1, <1>2, ViewIs
  <2> QED
    BY <1>1, <1>4, <2>1, <2>2
<1>7. \A id : View(n, id) = View(m, id) /\ Heard(n, id) = Heard(m, id)
    BY <1>2, <1>5, <1>6, OtherViews DEF Heard
<1>8. UnboundIds(n) \subseteq UnboundIds(m)
  <2>1. ASSUME NEW d \in Unbound(n) PROVE d.id \in UnboundIds(m)
    <3>1. CASE d.id # m.call.id
      <4>1. d \in Range(m.table) /\ d.index = InitIndex
        BY <2>1, <3>1, <1>5 DEF SameBut, Unbound
      <4> QED
        BY <4>1 DEF Unbound, UnboundIds
    <3>2. CASE d.id = m.call.id
      <4>1. d = n.call /\ d.index = InitIndex
        BY <2>1, <3>2, <1>1 DEF Held, Unbound
      <4>2. m.call \in Unbound(m)
        BY <1>1, <4>1 DEF Unbound
      <4> QED
        BY <3>2, <4>2 DEF UnboundIds
    <3> QED
      BY <3>1, <3>2
  <2> QED
    BY <2>1 DEF UnboundIds
<1>9. Ids(n.table) = Ids(m.table)
    BY <1>1, <1>2, <1>5 DEF Ids, SameBut
<1>10. Hung(m, n)
    BY <1>1 DEF Hung
<1>11. Serves(m, n, {})
    BY <1>3, <1>7, <1>8, <1>10 DEF Serves, Leaves, Still
<1> QED
    BY <1>1, <1>2, <1>3, <1>4, <1>9, <1>11

\* So does RefreshCallIfNecessary.
CanRefresh(m, info) ==
    /\ Good(m) /\ Held(m) /\ m.call \in Range(m.table)
    /\ m.dialEcc = FALSE /\ info \in AnyInfo /\ info.slot = m.call.slot
    /\ info.index = m.call.index \/ info.index # InitIndex
    /\ \A d \in Range(m.table) : d.id # m.call.id => Apart(info, d)
Refreshed(m, n, info) ==
    /\ Good(n) /\ Held(n) /\ n.call \in Range(n.table)
    /\ n.call.id = m.call.id /\ n.call.tel = m.call.tel
    /\ n.call.slot = m.call.slot
    /\ n.call.index = info.index \/ n.call = m.call
    /\ n.dialEcc = m.dialEcc
    /\ n.pendingHangup = m.pendingHangup
    /\ n.pendingMo = m.pendingMo
    /\ Ids(n.table) = Ids(m.table)
    /\ Serves(m, n, {})

\* RefreshCallIfNecessary shows the held call as before.
LEMMA RefreshServes ==
    ASSUME NEW m, NEW info, CanRefresh(m, info),
           NEW n, n = RefreshCallIfNecessary(m, info)
    PROVE  Refreshed(m, n, info)
<1>0. /\ Good(m) /\ Held(m) /\ m.call \in Range(m.table)
      /\ m.dialEcc = FALSE /\ info \in AnyInfo /\ info.slot = m.call.slot
      /\ \A d \in Range(m.table) : d.id # m.call.id => Apart(info, d)
    BY DEF CanRefresh
<1>00. info.index = m.call.index \/ info.index # InitIndex
    BY DEF CanRefresh
<1>1. CASE m.call.type = info.type
  <2>1. n = m
    BY <1>1 DEF RefreshCallIfNecessary
  <2>2. Serves(m, m, {})
    BY <1>0, IdsAreNumbers, ServesSelf DEF Hung
  <2> QED
    BY <1>0, <2>1, <2>2 DEF Refreshed
<1>2. CASE m.call.type # info.type
  <2>1. n = RefreshCall(m, info)
    BY <1>2 DEF RefreshCallIfNecessary
  <2> QED
    BY <1>0, <1>00, <2>1, RefreshCallServes DEF Refreshed
<1> QED
    BY <1>1, <1>2

\* ClearPendingState sends the hang-up it takes the mark of.
LEMMA ClearServes ==
    ASSUME NEW m, Good(m), m.call \in Call,
           m.pendingHangup = m.call.id => m.call.tel # "DISCONNECTED",
           NEW n, n = ClearPendingState(m)
    PROVE  /\ Quiet(m, n) /\ Serves(m, n, {})
<1> DEFINE mo == [m EXCEPT !.pendingMo = IF @ = m.call.id THEN NoId ELSE @]
           hung == IF m.call.tel = "DISCONNECTED" THEN mo ELSE HangUp(mo, m.call)
<1>1. /\ Quiet(m, n)
      /\ n.pendingHangup = IF m.pendingHangup = m.call.id THEN NoId
                           ELSE m.pendingHangup
    BY ClearPendingIs DEF Good
<1>0. m \in Manager
    BY DEF Good
<1>2. /\ mo \in Manager /\ mo.told = m.told /\ mo.sent = m.sent
  <2> DEFINE v == IF m.pendingMo = m.call.id THEN NoId ELSE m.pendingMo
  <2>1. v \in Nat
    BY <1>0 DEF Manager
  <2>2. mo = [m EXCEPT !.pendingMo = v]
    OBVIOUS
  <2> HIDE DEF v, mo
  <2> QED
    BY <1>0, <2>1, <2>2 DEF Manager
<1>3. n = IF m.pendingHangup = m.call.id
          THEN [hung EXCEPT !.pendingHangup = NoId, !.protectTask = NoId] ELSE mo
    BY DEF ClearPendingState
<1> HIDE DEF mo
<1>4. n.told = m.told /\ Hung(m, n)
  <2>1. CASE m.pendingHangup = m.call.id
    <3>1. hung = HangUp(mo, m.call)
      BY <2>1
    <3>2. /\ hung.told = m.told /\ m.sent \subseteq hung.sent
          /\ \E s \in hung.sent : s.id = m.call.id /\ s.cmd \in {"HangUp", "HangUpActive"}
      BY <1>2, <3>1, ToldAndSent, HangUpHung
    <3>3. hung \in Manager
      BY <1>2, <3>1, HangUpIs DEF Quiet
    <3> HIDE DEF hung
    <3>4. n = [hung EXCEPT !.pendingHangup = NoId, !.protectTask = NoId]
      BY <1>3, <2>1
    <3>5. n.told = hung.told /\ n.sent = hung.sent
      BY <3>3, <3>4 DEF Manager
    <3> QED
      BY <2>1, <3>2, <3>5 DEF Hung
  <2>2. CASE m.pendingHangup # m.call.id
    <3>1. n = mo
      BY <1>3, <2>2, Zenon
    <3> QED
      BY <3>1, <1>1, <1>2, <2>2 DEF Hung
  <2> QED
    BY <2>1, <2>2
<1>5. Serves(m, n, {})
  <2>1. n.table = m.table /\ m.lastCallId <= n.lastCallId
    BY <1>1, IdsAreNumbers DEF Quiet, Alike
  <2> QED
    BY <1>4, <2>1, ServesSelf
<1> QED
    BY <1>1, <1>5

-----------------------------------------------------------------------------
\* A setter of the held call that changes neither its state nor its slot.
LEMMA WriteServes ==
    ASSUME NEW m, Good(m), Held(m), m.call \in Range(m.table), NEW c \in Call,
           c.id = m.call.id, c.ecc = m.call.ecc, c.isIn = m.call.isIn,
           c.tel = m.call.tel, c.slot = m.call.slot,
           c.index = m.call.index \/ c.index # InitIndex,
           \A d \in Range(m.table) : d.id # c.id => Apart(c, d),
           NEW n, n = Write(m, c)
    PROVE  /\ Good(n) /\ Held(n) /\ n.call = c /\ c \in Range(n.table)
           /\ n.dialEcc = m.dialEcc /\ Steady(m, n)
           /\ Serves(m, n, {})
<1>1. /\ Good(n) /\ Held(n) /\ n.call = c
      /\ n.lastCallId = m.lastCallId /\ n.dialEcc = m.dialEcc
      /\ n.sent = m.sent /\ Steady(m, n)
      /\ Range(n.table) = {d \in Range(m.table) : d.id # c.id} \cup {c}
  <2> DEFINE w == Write(m, c)
  <2> HIDE DEF w
  <2>1. /\ Good(w) /\ Held(w) /\ w.call = c
        /\ w.lastCallId = m.lastCallId /\ w.dialEcc = m.dialEcc
        /\ w.sent = m.sent /\ Steady(m, w)
        /\ Range(w.table) = {d \in Range(m.table) : d.id # c.id}
              \cup {d \in {c} : m.call \in Range(m.table)}
    BY WriteIs DEF w
  <2> QED
    BY <2>1 DEF w
<1>2. n.told = m.told
    BY ToldAndSent DEF Good
<1>3. SameBut(m, n, c.id)
    BY <1>1 DEF SameBut
<1>4. View(n, c.id) = View(m, c.id)
  <2>1. View(m, m.call.id) = {<<m.call.tel, m.call.slot>>}
    BY ViewIs
  <2>2. c \in Range(n.table)
    BY <1>1
  <2>3. View(n, c.id) = {<<c.tel, c.slot>>}
    BY <1>1, <2>2, ViewIs
  <2> QED
    BY <2>1, <2>3
<1>5. \A id : View(n, id) = View(m, id) /\ Heard(n, id) = Heard(m, id)
    BY <1>2, <1>3, <1>4, OtherViews DEF Heard
<1>6. UnboundIds(n) \subseteq UnboundIds(m)
  <2>1. ASSUME NEW d \in Unbound(n) PROVE d.id \in UnboundIds(m)
    <3>1. CASE d = c
      <4>1. m.call \in Unbound(m)
        BY <2>1, <3>1 DEF Unbound
      <4> QED
        BY <3>1, <4>1 DEF UnboundIds
    <3>2. CASE d # c
      <4>1. d \in Unbound(m)
        BY <2>1, <3>2, <1>1 DEF Unbound
      <4> QED
        BY <4>1 DEF UnboundIds
    <3> QED
      BY <3>1, <3>2
  <2> QED
    BY <2>1 DEF UnboundIds
<1>7. Hung(m, n) /\ m.lastCallId <= n.lastCallId
    BY <1>1, IdsAreNumbers DEF Hung, Steady
<1> QED
    BY <1>1, <1>5, <1>6, <1>7 DEF Serves, Leaves, Still

\* Taking a call in hand.
LEMMA HoldingServes ==
    ASSUME NEW m, Good(m), NEW c \in Range(m.table) \cup {NoCall},
           NEW n, n = Holding(m, c)
    PROVE  /\ Good(n) /\ AsBefore(m, n) /\ n.call = c
           /\ c # NoCall => Held(n)
           /\ Serves(m, n, {})
<1>1. /\ Good(n) /\ AsBefore(m, n) /\ n.call = c
      /\ c # NoCall => Held(n)
    BY HoldingIs
<1>2. n.told = m.told
    BY ToldAndSent DEF Good
<1>3. Hung(m, n) /\ m.lastCallId <= n.lastCallId /\ n.table = m.table
    BY <1>1, IdsAreNumbers DEF Hung, AsBefore, Steady
<1>4. Serves(m, n, {})
    BY <1>2, <1>3, ServesSelf
<1> QED
    BY <1>1, <1>4

\* The call that waits for its index is one.
LEMMA TheUnbound ==
    ASSUME NEW m, Normal(m), NEW c \in Range(m.table), c.index = InitIndex,
           NEW d \in Range(m.table), d.index = InitIndex
    PROVE  c = d
<1>1. c.id = d.id
    BY DEF Normal, OneUnbound, Unbound
<1> QED
    BY <1>1 DEF Normal, Good, Sound, Range

\* Binding an index changes neither the state of the dialled call nor its slot.
LEMMA BindServes ==
    ASSUME NEW m, Normal(m), NEW info \in AnyInfo, info.state = "DIALING",
           info.index # InitIndex, NEW mo, mo = CallByIndex(m.table, InitIndex),
           mo # NoCall, mo.slot = info.slot,
           \A d \in Range(m.table) : ~HasKey(d, info),
           NEW n, n = BindIndex(m, info)
    PROVE  Serves(m, n, {})
<1> DEFINE h == Holding(m, mo)
           r == RefreshCallIfNecessary(h, info)
           c == [r.call EXCEPT !.index = info.index, !.slot = info.slot,
                               !.type = info.type, !.tel = info.state]
           w == Write(r, c)
<1>0. n = ClearPendingState(w)
    BY DEF BindIndex
<1>1. mo \in Range(m.table) /\ mo.index = InitIndex /\ mo.tel = "DIALING"
  <2>1. mo \in Range(m.table) /\ mo.index = InitIndex
    BY CallByIndexIs, RangeIs, ManagerFields DEF Good, Normal
  <2> QED
    BY <2>1 DEF Normal, Settled, Unbound
<1>2. Good(h) /\ AsBefore(m, h) /\ h.call = mo /\ Held(h) /\ Serves(m, h, {})
    BY <1>1, HoldingServes DEF Normal
<1> HIDE DEF h
<1>3. \A d \in Range(h.table) : Apart(info, d)
    BY <1>2, NoneApart DEF AsBefore
<1>4. h.call \in Range(h.table) /\ h.dialEcc = FALSE
    BY <1>1, <1>2 DEF AsBefore, Normal
<1>5. /\ Good(r) /\ Held(r) /\ r.call \in Range(r.table)
      /\ r.call.id = h.call.id /\ r.call.tel = h.call.tel
      /\ r.call.slot = h.call.slot
      /\ Serves(h, r, {})
  <2>1. CanRefresh(h, info)
    BY <1>2, <1>3, <1>4 DEF CanRefresh
  <2> HIDE DEF r
  <2>2. r = RefreshCallIfNecessary(h, info)
    BY DEF r
  <2>3. Refreshed(h, r, info)
    BY <2>1, <2>2, RefreshServes
  <2> QED
    BY <2>3 DEF Refreshed
<1>6. {d \in Range(r.table) : d.id # h.call.id} =
      {d \in Range(h.table) : d.id # h.call.id}
  <2>1. \A d \in Range(h.table) : d.id # h.call.id => Apart(info, d)
    BY <1>3
  <2> HIDE DEF r
  <2>2. r = RefreshCallIfNecessary(h, info)
    BY DEF r
  <2> QED
    BY <1>2, <1>4, <2>1, <2>2, RefreshIfNecessaryIs
<1> HIDE DEF r
<1>7. /\ c \in Call /\ c.id = r.call.id /\ c.ecc = r.call.ecc
      /\ c.isIn = r.call.isIn /\ c.index = info.index /\ c.slot = info.slot
      /\ c.tel = "DIALING"
    BY <1>5 DEF Held, Call, AnyInfo
<1> HIDE DEF c
<1>8. \A d \in Range(r.table) : d.id # c.id => Apart(c, d)
    BY <1>3, <1>5, <1>6, <1>7 DEF Apart
<1>9. Good(w) /\ w.call = c /\ Serves(r, w, {})
  <2>1. c.tel = r.call.tel /\ c.slot = r.call.slot /\ c.index # InitIndex
    BY <1>1, <1>2, <1>5, <1>7
  <2> HIDE DEF w
  <2>2. w = Write(r, c)
    BY DEF w
  <2> QED
    BY <1>5, <1>7, <1>8, <2>1, <2>2, WriteServes
<1> HIDE DEF w
<1>10. Quiet(w, n) /\ Serves(w, n, {})
    BY <1>0, <1>7, <1>9, ClearServes
<1>11. Good(n)
    BY <1>9, <1>10, QuietIs
<1>12. Serves(m, r, {})
    BY <1>2, <1>5, ServesTrans DEF Normal
<1>13. Serves(m, w, {})
    BY <1>5, <1>9, <1>12, ServesTrans DEF Normal
<1> QED
    BY <1>9, <1>10, <1>11, <1>13, ServesTrans DEF Normal

\* A new call leaves the others and is told of only afterwards.
Fresh(m, info) ==
    /\ Good(m) /\ info \in AnyInfo
    /\ \A d \in Range(m.table) : Apart(info, d)
Created(m, n, info) ==
    /\ Good(n) /\ Held(n) /\ n.call \in Range(n.table)
    /\ n.call.id = m.lastCallId + 1 /\ n.lastCallId = m.lastCallId + 1
    /\ n.call.slot = info.slot /\ n.call.index = info.index
    /\ n.dialEcc = m.dialEcc
    /\ Leaves(m, n, {})
    /\ info.index # InitIndex => UnboundIds(n) \subseteq UnboundIds(m)

\* A call more, under a new id, is nothing to the calls of before.
LEMMA CreateServes ==
    ASSUME NEW m, NEW info, Fresh(m, info), NEW isIn \in BOOLEAN,
           NEW n, n = CreateNewCall(m, info, isIn), Admits(n.table, n.call),
           NEW a, a = Append1(n, n.call)
    PROVE  Created(m, a, info)
<1>0. /\ Good(m) /\ info \in AnyInfo
      /\ \A d \in Range(m.table) : Apart(info, d)
    BY DEF Fresh
<1>1. /\ Good(n) /\ n.table = m.table /\ n.dialEcc = m.dialEcc
      /\ n.lastCallId = m.lastCallId + 1 /\ n.sent = m.sent
      /\ Steady(m, n)
      /\ n.call \in Call /\ n.call.id = m.lastCallId + 1
      /\ n.call.index = info.index /\ n.call.slot = info.slot
      /\ n.call.isIn = isIn /\ (n.call.ecc <=> ~isIn /\ m.dialEcc)
      /\ \A d \in Range(m.table) : d.id # n.call.id
    BY <1>0, CreateNewCallIs
<1>2. n.told = m.told
    BY <1>0, ToldAndSent DEF Good
<1>3. m.lastCallId \in Nat
    BY <1>0, IdsAreNumbers
<1>4. \A d \in Range(n.table) : d.id # n.call.id /\ Apart(n.call, d)
    BY <1>0, <1>1 DEF Apart
<1>5. /\ Good(a) /\ Held(a) /\ a.call = n.call
      /\ a.lastCallId = n.lastCallId /\ a.dialEcc = n.dialEcc
      /\ a.sent = n.sent /\ a.pendingHangup = n.pendingHangup
      /\ Range(a.table) = Range(n.table) \cup {n.call}
    BY <1>1, <1>3, <1>4, AppendIs
<1>6. a.told = m.told
    BY <1>1, <1>2, ToldAndSent DEF Good
<1>7. SameBut(m, a, m.lastCallId + 1)
    BY <1>1, <1>5 DEF SameBut
<1>8. \A other : other # m.lastCallId + 1 => View(a, other) = View(m, other)
    BY <1>7, OtherViews
<1>9. Still(m, a, {})
    BY <1>3, <1>6, <1>8 DEF Still, Heard
<1>10. Hung(m, a) /\ m.lastCallId <= a.lastCallId
    BY <1>1, <1>3, <1>5 DEF Hung, Steady
<1>11. info.index # InitIndex => UnboundIds(a) \subseteq UnboundIds(m)
    BY <1>1, <1>5 DEF UnboundIds, Unbound
<1> QED
    BY <1>1, <1>5, <1>9, <1>10, <1>11 DEF Created, Leaves

\* Looking a call up serves all of them.
LEMMA LookupServes ==
    ASSUME NEW m, Good(m), NEW info, NEW n, n = Lookup(m, info)
    PROVE  Serves(m, n, {})
<1>1. /\ AsBefore(m, n)
    BY LookupIs
<1>2. n.told = m.told
    BY ToldAndSent DEF Good, Lookup
<1>3. Hung(m, n) /\ m.lastCallId <= n.lastCallId /\ n.table = m.table
    BY <1>1, IdsAreNumbers DEF Hung, AsBefore, Steady
<1> QED
    BY <1>2, <1>3, ServesSelf

\* A call with the reported key may be refreshed.
LEMMA KnownRefresh ==
    ASSUME NEW m, Good(m), m.dialEcc = FALSE, Held(m), NEW info \in AnyInfo,
           m.call \in Range(m.table), HasKey(m.call, info)
    PROVE  CanRefresh(m, info)
<1>1. \A d \in Range(m.table) : d.id # m.call.id => Apart(info, d)
    BY OthersApart
<1> QED
    BY <1>1 DEF CanRefresh, HasKey

\* UpdateDialingCallInfo, when UpdateDialingHandle has found what it needs.
LEMMA UpdateDialingServes ==
    ASSUME NEW m, Normal(m), NEW info \in AnyInfo, info.state = "DIALING",
           info.index # InitIndex, UpdateDialingHandle(m.table, info),
           NEW n, n = UpdateDialingCallInfo(m, info)
    PROVE  Serves(m, n, {})
<1> DEFINE known == Lookup(m, info)
           mo == CallByIndex(m.table, InitIndex)
<1>0. Good(m) /\ m.dialEcc = FALSE /\ m.table \in Seq(Call)
    BY ManagerFields DEF Normal, Good
<1>1. /\ Good(known) /\ AsBefore(m, known)
      /\ known.call = NoCall => \A d \in Range(m.table) : ~HasKey(d, info)
      /\ known.call # NoCall =>
            /\ known.call \in Range(m.table) /\ HasKey(known.call, info)
            /\ Held(known)
    BY <1>0, LookupIs
<1>2. Serves(m, known, {})
    BY <1>0, LookupServes
<1>3. n = IF known.call # NoCall THEN RefreshCallIfNecessary(known, info)
          ELSE IF mo = NoCall THEN m ELSE BindIndex(m, info)
    BY DEF UpdateDialingCallInfo
<1> HIDE DEF known
<1>4. CASE known.call # NoCall
  <2>1. CanRefresh(known, info)
    BY <1>0, <1>1, <1>4, KnownRefresh DEF AsBefore
  <2>2. n = RefreshCallIfNecessary(known, info)
    BY <1>3, <1>4
  <2>3. Refreshed(known, n, info)
    BY <2>1, <2>2, RefreshServes
  <2> QED
    BY <1>0, <1>1, <1>2, <2>3, ServesTrans DEF Refreshed
<1>5. CASE known.call = NoCall
  <2>1. \A d \in Range(m.table) : ~HasKey(d, info)
    BY <1>1, <1>5
  <2>2. PICK u \in Range(m.table) : u.index = InitIndex /\ u.slot = info.slot
    <3>1. CallByKey(m.table, info.index, info.slot) # NoCall =>
             \E d \in Range(m.table) : HasKey(d, info)
      BY <1>0, CallByKeyIs, RangeIs DEF HasKey
    <3>2. CallByKey(m.table, InitIndex, info.slot) # NoCall =>
             \E d \in Range(m.table) : d.index = InitIndex /\ d.slot = info.slot
      BY <1>0, CallByKeyIs, RangeIs
    <3> QED
      BY <2>1, <3>1, <3>2 DEF UpdateDialingHandle
  <2>3. mo # NoCall => mo \in Range(m.table) /\ mo.index = InitIndex
    BY <1>0, CallByIndexIs, RangeIs
  <2>4. mo # NoCall /\ mo = u
    <3>1. mo = NoCall => \A d \in Range(m.table) : d.index # InitIndex
      BY <1>0, CallByIndexIs, RangeIs
    <3> HIDE DEF mo
    <3>2. mo # NoCall
      BY <2>2, <3>1
    <3> QED
      BY <2>2, <2>3, <3>2, TheUnbound
  <2>5. n = BindIndex(m, info)
    BY <1>3, <1>5, <2>4
  <2>6. mo.slot = info.slot
    BY <2>2, <2>4
  <2>7. mo = CallByIndex(m.table, InitIndex)
    OBVIOUS
  <2> HIDE DEF mo
  <2> QED
    BY <2>1, <2>4, <2>5, <2>6, <2>7, BindServes
<1> QED
    BY <1>4, <1>5

\* DialingHandle: a new index reaches the dialled call, or a new call appears.
LEMMA DialingServes ==
    ASSUME NEW m, Normal(m), NEW info \in AnyInfo, info.state = "DIALING",
           NEW r, r = DialingHandle(m, info)
    PROVE  /\ Leaves(m, r, {})
           /\ info.index # InitIndex => Serves(m, r, {})
<1> DEFINE n == CreateNewCall(m, info, FALSE)
           added == AddOneCallObject(n, n.call)
           mo == [added EXCEPT !.pendingMo =
                     IF info.index = InitIndex THEN n.call.id ELSE @]
           o == UpdateCallState(mo, "DIALING")
<1>0. Good(m) /\ m.table \in Seq(Call) /\ m \in Manager
    BY ManagerFields DEF Normal, Good
<1>1. r = IF info.index > 0 /\ UpdateDialingHandle(m.table, info)
          THEN UpdateDialingCallInfo(m, info)
          ELSE IF ~Admits(n.table, n.call) THEN n ELSE o
    BY DEF DialingHandle
<1>2. added = IF Admits(n.table, n.call) THEN Append1(n, n.call) ELSE n
    BY DEF AddOneCallObject
<1>3. /\ Good(n) /\ n.table = m.table /\ n.sent = m.sent
      /\ n.lastCallId = m.lastCallId + 1 /\ n.pendingHangup = m.pendingHangup
      /\ n.told = m.told
  <2> DEFINE isIn == FALSE
  <2>1. isIn \in BOOLEAN /\ n = CreateNewCall(m, info, isIn)
    OBVIOUS
  <2> HIDE DEF n, isIn
  <2>2. /\ Good(n) /\ n.table = m.table /\ n.sent = m.sent
        /\ n.lastCallId = m.lastCallId + 1 /\ Steady(m, n)
    BY <1>0, <2>1, CreateNewCallIs
  <2>3. n.told = m.told
    BY <1>0, <2>1, ToldAndSent
  <2> QED
    BY <2>2, <2>3 DEF Steady
<1>4. info.index \in Nat
  <2>1. info.index \in Index \cup {0}
    BY DEF AnyInfo
  <2>2. Index \subseteq Nat
    BY CallManagerAssumption
  <2>3. CASE info.index \in Index
    BY <2>2, <2>3
  <2>4. CASE info.index = 0
    BY <2>4
  <2> QED
    BY <2>1, <2>3, <2>4
<1>5. CASE info.index > 0 /\ UpdateDialingHandle(m.table, info)
  <2>1. r = UpdateDialingCallInfo(m, info)
    BY <1>1, <1>5
  <2>3. info.index # InitIndex
    BY <1>4, <1>5
  <2>2. Serves(m, r, {})
    BY <1>5, <2>1, <2>3, UpdateDialingServes
  <2> QED
    BY <2>2 DEF Serves
<1>6. CASE /\ ~(info.index > 0 /\ UpdateDialingHandle(m.table, info))
           /\ ~Admits(n.table, n.call)
  <2>1. r = n
    BY <1>1, <1>6
  <2>4. m.lastCallId \in Nat
    BY <1>0, IdsAreNumbers
  <2> HIDE DEF n
  <2>2. Hung(m, n) /\ m.lastCallId <= n.lastCallId
    BY <1>3, <2>4 DEF Hung
  <2>3. Serves(m, n, {})
    BY <1>0, <1>3, <2>2, ServesSelf
  <2> QED
    BY <2>1, <2>3 DEF Serves
<1>7. CASE /\ ~(info.index > 0 /\ UpdateDialingHandle(m.table, info))
           /\ Admits(n.table, n.call)
  <2>1. r = o /\ added = Append1(n, n.call)
    BY <1>1, <1>2, <1>7
  <2>2. Fresh(m, info)
    <3>1. ASSUME NEW d \in Range(m.table) PROVE Apart(info, d)
      <4>1. CASE info.index = InitIndex
        BY <4>1 DEF Apart
      <4>2. CASE info.index # InitIndex
        <5>1. CallByKey(m.table, info.index, info.slot) = NoCall
          BY <4>2, <1>4, <1>7 DEF UpdateDialingHandle
        <5>2. d.index # info.index \/ d.slot # info.slot
          BY <5>1, <1>0, CallByKeyIs, RangeIs
        <5> QED
          BY <5>2 DEF Apart
      <4> QED
        BY <4>1, <4>2
    <3> QED
      BY <1>0, <3>1 DEF Fresh
  <2>3. Created(m, added, info)
    <3> DEFINE isIn == FALSE
    <3>1. isIn \in BOOLEAN /\ n = CreateNewCall(m, info, isIn)
      OBVIOUS
    <3>2. Admits(n.table, n.call)
      BY <1>7
    <3> HIDE DEF n, isIn, added
    <3> QED
      BY <2>1, <2>2, <3>1, <3>2, CreateServes
  <2>4. /\ Good(mo) /\ Held(mo) /\ mo.call = added.call
        /\ mo.table = added.table /\ mo.told = added.told
        /\ mo.sent = added.sent /\ mo.pendingHangup = added.pendingHangup
        /\ mo.lastCallId = added.lastCallId
    <3>0. Good(added) /\ Held(added)
      BY <2>3 DEF Created
    <3>1. n.call.id \in Nat
      <4>1. n.call = added.call
        BY <2>1, <1>3 DEF Append1, Good, Manager
      <4> HIDE DEF n, added
      <4> QED
        BY <3>0, <4>1, CallsAreCalls DEF Held
    <3> DEFINE v == IF info.index = InitIndex THEN n.call.id ELSE added.pendingMo
    <3>2. v \in Nat /\ mo = [added EXCEPT !.pendingMo = v]
      BY <3>0, <3>1, ManagerFields DEF Good
    <3> HIDE DEF v, mo, added
    <3>3. /\ mo \in Manager /\ Alike(added, mo) /\ mo.sent = added.sent
          /\ mo.pendingHangup = added.pendingHangup /\ mo.told = added.told
      BY <3>0, <3>2 DEF Good, Manager, Alike
    <3> QED
      BY <3>3, <3>0 DEF Good, Held, Alike
  <2> HIDE DEF mo
  <2>5. Serves(added, mo, {})
    <3>1. Hung(added, mo) /\ added.lastCallId <= mo.lastCallId /\ Good(added)
      BY <2>3, <2>4, IdsAreNumbers DEF Hung, Created
    <3> HIDE DEF added
    <3> QED
      BY <2>4, <3>1, ServesSelf
  <2>6. /\ Good(o) /\ o.call.id = mo.call.id
        /\ Serves(mo, o, {mo.call.id})
    <3>1. "DIALING" \in TelStates /\ mo.call \in Range(mo.table)
      BY <2>3, <2>4 DEF TelStates, Created
    <3> QED
      BY <2>4, <3>1, UpdateCallStateServes
  <2> HIDE DEF o, added
  <2> DEFINE id == m.lastCallId + 1
  <2>7. mo.call.id = id
    BY <2>3, <2>4 DEF Created
  <2> HIDE DEF id
  <2>8. Serves(added, o, {id})
    BY <2>3, <2>4, <2>5, <2>6, <2>7, ServesTrans DEF Created
  <2>9. Leaves(m, o, {id})
    BY <1>0, <2>3, <2>6, <2>8, LeavesTrans DEF Created, Serves
  <2>10. Leaves(m, o, {})
    BY <1>0, <2>9, LeavesFresh DEF id
  <2>11. info.index # InitIndex => UnboundIds(o) \subseteq UnboundIds(m)
    BY <2>3, <2>8 DEF Created, Serves
  <2> QED
    BY <2>1, <2>10, <2>11 DEF Serves
<1> QED
    BY <1>5, <1>6, <1>7

\* RefreshDialingStateByOtherState hands on the call of the key, or none.
Resolved(m, n, info) ==
    /\ Normal(n) /\ Serves(m, n, {})
    /\ n.call # NoCall => CanRefresh(n, info) /\ HasKey(n.call, info)

\* Finding the reported call, or the dialled one that it must be.
LEMMA ResolveServes ==
    ASSUME NEW m, Normal(m), NEW info \in AnyInfo,
           info.index # InitIndex \/ \E d \in Range(m.table) : HasKey(d, info),
           NEW n, n = Resolve(m, info)
    PROVE  Resolved(m, n, info)
<1> DEFINE known == Lookup(m, info)
           e == [info EXCEPT !.state = "DIALING"]
           k == DialingHandle(m, e)
<1>0. Good(m) /\ m.dialEcc = FALSE
    BY DEF Normal
<1>1. known.call = NoCall => \A d \in Range(m.table) : ~HasKey(d, info)
    BY <1>0, LookupIs
<1>2. \/ n = known
      \/ info.index # InitIndex /\ n = Lookup(k, info)
    BY <1>1 DEF Resolve
<1>3. Serves(m, known, {})
    BY <1>0, LookupServes
<1>4. e \in AnyInfo /\ e.state = "DIALING" /\ e.index = info.index
    BY DEF AnyInfo, TelStates
<1> HIDE DEF known, e
<1>5. Good(k)
    BY <1>0, <1>4, DialingHandleIs
<1> HIDE DEF k
<1>6. info.index # InitIndex => Serves(m, k, {})
    BY <1>4, DialingServes DEF k
<1>7. Serves(k, Lookup(k, info), {}) /\ Good(Lookup(k, info))
    BY <1>5, LookupServes, LookupIs
<1>8. Serves(m, n, {})
  <2>1. CASE n = known
    BY <1>3, <2>1
  <2>2. CASE info.index # InitIndex /\ n = Lookup(k, info)
    BY <1>0, <1>5, <1>6, <1>7, <2>2, ServesTrans
  <2> QED
    BY <1>2, <2>1, <2>2
<1>9. /\ Good(n) /\ Kept(m, n, info) /\ Settles(m, n)
      /\ n.call # NoCall =>
            /\ n.call \in Range(n.table) /\ HasKey(n.call, info)
            /\ Held(n)
    BY <1>0, ResolveIs
<1>10. n.dialEcc = m.dialEcc
    BY <1>9 DEF Kept
<1>11. Normal(n)
    BY <1>8, <1>9, <1>10, NormalKept
<1>12. n.call # NoCall => CanRefresh(n, info)
    BY <1>0, <1>9, <1>10, KnownRefresh
<1> QED
    BY <1>8, <1>9, <1>11, <1>12 DEF Resolved

\* A call whose hang-up is kept is DIALING.
LEMMA KeptHangUpDials ==
    ASSUME NEW m, Normal(m), m.call \in Range(m.table),
           m.pendingHangup = m.call.id
    PROVE  m.call.tel # "DISCONNECTED"
<1>1. m.call.id # NoId
    BY IdsAreNumbers DEF Normal
<1>2. PICK c \in Unbound(m) : c.id = m.call.id
    BY <1>1 DEF Normal, Settled, Waited
<1>3. c = m.call
    BY <1>2 DEF Unbound, Normal, Good, Sound, Range
<1> QED
    BY <1>3 DEF Normal, Settled

\* What a handler does that has one call in hand and tells what it did to it.
Handles(m, n, id) ==
    /\ id \in Nat /\ Serves(m, n, {id})
    /\ id <= m.lastCallId => Tells(m, n, id)

\* A handler with nothing in hand handles any call.
LEMMA ServesHandles ==
    ASSUME NEW m, NEW n, NEW id \in Nat, Serves(m, n, {})
    PROVE  Handles(m, n, id)
<1>1. Serves(m, n, {id})
    BY DEF Serves, Leaves, Still
<1>2. id <= m.lastCallId => Tells(m, n, id)
    BY StillTells
<1> QED
    BY <1>1, <1>2 DEF Handles

\* SetTelCallState as the last thing a handler does.
LEMMA UpdateHandles ==
    ASSUME NEW m, Good(m), NEW q, Good(q), Held(q), q.call \in Range(q.table),
           Serves(m, q, {}), NEW next \in TelStates,
           NEW o, o = UpdateCallState(q, next)
    PROVE  Handles(m, o, q.call.id)
<1> DEFINE id == q.call.id
<1>1. /\ Good(o) /\ Serves(q, o, {id}) /\ Tells(q, o, id)
    BY UpdateCallStateServes
<1>2. id \in Nat
    BY IdsAreNumbers
<1> HIDE DEF id
<1>3. Serves(m, o, {id})
    BY <1>1, ServesTrans
<1>4. ASSUME id <= m.lastCallId PROVE Tells(m, o, id)
    BY <1>1, <1>2, <1>4, TellsTrans
<1> QED
    BY <1>2, <1>3, <1>4 DEF Handles, id

\* ClearPendingState before the call is refreshed.
LEMMA ClearRefresh ==
    ASSUME NEW m, Normal(m), NEW info, CanRefresh(m, info),
           NEW p, p = ClearPendingState(m)
    PROVE  CanRefresh(p, info) /\ Serves(m, p, {}) /\ p.call = m.call
<1>1. Good(m) /\ m.call \in Range(m.table) /\ Held(m) /\ m.call \in Call
    BY DEF CanRefresh, Held
<1>2. m.pendingHangup = m.call.id => m.call.tel # "DISCONNECTED"
    BY <1>1, KeptHangUpDials
<1>3. Quiet(m, p) /\ Serves(m, p, {})
    BY <1>1, <1>2, ClearServes
<1>4. Good(p) /\ (Held(m) => Held(p)) /\ Alike(m, p)
    BY <1>1, <1>3, QuietIs DEF Quiet
<1>5. CanRefresh(p, info)
    BY <1>1, <1>4 DEF CanRefresh, Alike
<1> QED
    BY <1>3, <1>4, <1>5 DEF Alike

\* ActiveHandle, AlertHandle, HoldingHandle and DisconnectingHandle.
LEMMA ActiveServes ==
    ASSUME NEW m, Normal(m), NEW info \in AnyInfo, info.index # InitIndex,
           NEW o, o = ActiveHandle(m, info)
    PROVE  \E id : Handles(m, o, id)
<1> DEFINE r == Resolve(m, info)
           p == ClearPendingState(r)
           q == RefreshCallIfNecessary(p, info)
<1>0. Good(m)
    BY DEF Normal
<1>1. Resolved(m, r, info)
    BY ResolveServes
<1>2. o = IF r.call = NoCall THEN r ELSE UpdateCallState(q, "ACTIVE")
    BY DEF ActiveHandle
<1> HIDE DEF r
<1>3. CASE r.call = NoCall
  <2>1. Serves(m, o, {})
    BY <1>1, <1>2, <1>3 DEF Resolved
  <2> QED
    BY <2>1, ServesHandles
<1>4. CASE r.call # NoCall
  <2>1. Normal(r) /\ Serves(m, r, {}) /\ CanRefresh(r, info)
    BY <1>1, <1>4 DEF Resolved
  <2>2. CanRefresh(p, info) /\ Serves(r, p, {})
    BY <2>1, ClearRefresh
  <2> HIDE DEF p
  <2>3. Refreshed(p, q, info)
    BY <2>2, RefreshServes
  <2> HIDE DEF q
  <2>4. Good(r) /\ Good(p) /\ Good(q)
    BY <2>1, <2>2, <2>3 DEF CanRefresh, Refreshed
  <2>5. Serves(m, p, {})
    BY <1>0, <2>1, <2>2, <2>4, ServesTrans
  <2>6. Serves(m, q, {})
    BY <1>0, <2>3, <2>4, <2>5, ServesTrans DEF Refreshed
  <2>7. Held(q) /\ q.call \in Range(q.table)
    BY <2>3 DEF Refreshed
  <2>8. o = UpdateCallState(q, "ACTIVE") /\ "ACTIVE" \in TelStates
    BY <1>2, <1>4 DEF TelStates
  <2> QED
    BY <1>0, <2>4, <2>6, <2>7, <2>8, UpdateHandles
<1> QED
    BY <1>3, <1>4

\* An alerting report handles at most one call.
LEMMA AlertServes ==
    ASSUME NEW m, Normal(m), NEW info \in AnyInfo, info.index # InitIndex,
           NEW o, o = AlertHandle(m, info)
    PROVE  \E id : Handles(m, o, id)
<1> DEFINE r == Resolve(m, info)
           p == ClearPendingState(r)
           q == RefreshCallIfNecessary(p, info)
<1>0. Good(m)
    BY DEF Normal
<1>1. Resolved(m, r, info)
    BY ResolveServes
<1>2. o = IF r.call = NoCall THEN r
          ELSE IF p.call.tel = "DISCONNECTING" THEN p
          ELSE UpdateCallState(q, "ALERTING")
    BY DEF AlertHandle
<1> HIDE DEF r
<1>3. CASE r.call = NoCall
  <2>1. Serves(m, o, {})
    BY <1>1, <1>2, <1>3 DEF Resolved
  <2> QED
    BY <2>1, ServesHandles
<1>4. CASE r.call # NoCall
  <2>1. Normal(r) /\ Serves(m, r, {}) /\ CanRefresh(r, info)
    BY <1>1, <1>4 DEF Resolved
  <2>2. CanRefresh(p, info) /\ Serves(r, p, {})
    BY <2>1, ClearRefresh
  <2> HIDE DEF p
  <2>3. Refreshed(p, q, info)
    BY <2>2, RefreshServes
  <2> HIDE DEF q
  <2>4. Good(r) /\ Good(p) /\ Good(q)
    BY <2>1, <2>2, <2>3 DEF CanRefresh, Refreshed
  <2>5. Serves(m, p, {})
    BY <1>0, <2>1, <2>2, <2>4, ServesTrans
  <2>6. Serves(m, q, {})
    BY <1>0, <2>3, <2>4, <2>5, ServesTrans DEF Refreshed
  <2>7. Held(q) /\ q.call \in Range(q.table)
    BY <2>3 DEF Refreshed
  <2>8. o = p \/ o = UpdateCallState(q, "ALERTING")
    BY <1>2, <1>4
  <2>9. CASE o = p
    BY <2>5, <2>9, ServesHandles
  <2>10. CASE o = UpdateCallState(q, "ALERTING")
    <3>1. "ALERTING" \in TelStates
      BY DEF TelStates
    <3> QED
      BY <1>0, <2>4, <2>6, <2>7, <2>10, <3>1, UpdateHandles
  <2> QED
    BY <2>8, <2>9, <2>10
<1> QED
    BY <1>3, <1>4

\* So does a report of a known call.
LEMMA KnownServes ==
    ASSUME NEW m, Normal(m), NEW info \in AnyInfo, NEW o, o = KnownHandle(m, info)
    PROVE  \E id : Handles(m, o, id)
<1> DEFINE r == Lookup(m, info)
           q == RefreshCallIfNecessary(r, info)
<1>0. Good(m) /\ m.dialEcc = FALSE
    BY DEF Normal
<1>1. /\ Good(r) /\ AsBefore(m, r)
      /\ r.call # NoCall =>
            r.call \in Range(m.table) /\ HasKey(r.call, info) /\ Held(r)
    BY <1>0, LookupIs
<1>2. Serves(m, r, {})
    BY <1>0, LookupServes
<1>3. o = IF r.call = NoCall THEN r ELSE UpdateCallState(q, info.state)
    BY DEF KnownHandle
<1> HIDE DEF r
<1>4. CASE r.call = NoCall
  <2>1. Serves(m, o, {})
    BY <1>2, <1>3, <1>4
  <2> QED
    BY <2>1, ServesHandles
<1>5. CASE r.call # NoCall
  <2>1. CanRefresh(r, info)
    BY <1>0, <1>1, <1>5, KnownRefresh DEF AsBefore
  <2>2. Refreshed(r, q, info)
    BY <2>1, RefreshServes
  <2> HIDE DEF q
  <2>3. Good(q) /\ Held(q) /\ q.call \in Range(q.table)
    BY <2>2 DEF Refreshed
  <2>4. Serves(m, q, {})
    BY <1>0, <1>1, <1>2, <2>2, <2>3, ServesTrans DEF Refreshed
  <2>5. o = UpdateCallState(q, info.state) /\ info.state \in TelStates
    BY <1>3, <1>5 DEF AnyInfo
  <2> QED
    BY <1>0, <2>3, <2>4, <2>5, UpdateHandles
<1> QED
    BY <1>4, <1>5

\* A call that is told of for the first time, as ended, and is gone.
LEMMA EndTells ==
    ASSUME NEW m, NEW n, NEW id, View(n, id) = {},
           Heard(m, id) = {} => \E k : Heard(n, id) = {<<k, "DISCONNECTED">>}
    PROVE  Tells(m, n, id)
BY DEF Tells

\* DisconnectedHandle on the call it found: it is told as ended and is gone.
LEMMA EndServes ==
    ASSUME NEW r, Normal(r), NEW info, CanRefresh(r, info),
           NEW p, p = ClearPendingState(RefreshCallIfNecessary(r, info)),
           NEW n, n = Delete(AutoUnHold(UpdateCallState(p, "DISCONNECTED"),
                                        p.call.tel))
    PROVE  /\ Good(n) /\ Handles(r, n, r.call.id)
           /\ Ids(n.table) = Ids(r.table) \ {r.call.id}
<1> DEFINE q == RefreshCallIfNecessary(r, info)
           u == UpdateCallState(p, "DISCONNECTED")
           a == AutoUnHold(u, p.call.tel)
           id == r.call.id
<1>0. Good(r) /\ Held(r) /\ r.call \in Range(r.table)
    BY DEF CanRefresh
<1>1. Refreshed(r, q, info) /\ p = ClearPendingState(q)
    BY RefreshServes
<1> HIDE DEF q
<1>2. /\ Good(q) /\ Held(q) /\ q.call \in Range(q.table) /\ q.call.id = id
      /\ q.call.tel = r.call.tel /\ q.pendingHangup = r.pendingHangup
      /\ Ids(q.table) = Ids(r.table) /\ Serves(r, q, {})
    BY <1>1 DEF Refreshed
<1>3. Quiet(q, p) /\ Serves(q, p, {})
  <2>1. q.pendingHangup = q.call.id => q.call.tel # "DISCONNECTED"
    BY <1>0, <1>2, KeptHangUpDials
  <2>2. q.call \in Call
    BY <1>2 DEF Held
  <2> QED
    BY <1>1, <1>2, <2>1, <2>2, ClearServes
<1>4. Good(p) /\ Held(p) /\ p.table = q.table /\ p.call = q.call
    BY <1>2, <1>3, QuietIs DEF Quiet, Alike
<1>5. /\ Good(u) /\ Held(u) /\ u.call.id = p.call.id
      /\ Serves(p, u, {p.call.id}) /\ Ids(u.table) = Ids(p.table)
      /\ Heard(p, p.call.id) = {} =>
            \E k : Heard(u, p.call.id) = {<<k, "DISCONNECTED">>}
  <2>1. "DISCONNECTED" \in TelStates /\ p.call \in Range(p.table)
    BY <1>2, <1>4 DEF TelStates
  <2> QED
    BY <1>4, <2>1, UpdateCallStateServes
<1> HIDE DEF u
<1>6. /\ Good(a) /\ a.table = u.table /\ a.call = u.call
      /\ a.told = u.told /\ Serves(u, a, {})
  <2>1. Quiet(u, a) /\ Steady(u, a)
    BY <1>5, AutoUnHoldIs
  <2>2. Good(a) /\ a.table = u.table /\ a.call = u.call
        /\ a.lastCallId = u.lastCallId
    BY <1>5, <2>1, QuietIs DEF Quiet, Alike
  <2>3. a.told = u.told /\ u.sent \subseteq a.sent
    <3>1. u \in Manager
      BY <1>5 DEF Good
    <3> DEFINE held == CallInState(u.table, "HOLD")
    <3>2. a = u \/ a = Send(u, "UnHold", held)
      BY DEF AutoUnHold
    <3> HIDE DEF a, held
    <3>3. CASE a = u
      BY <3>3
    <3>4. CASE a = Send(u, "UnHold", held)
      <4>1. u.sent \subseteq Send(u, "UnHold", held).sent
        BY <3>1, SendHung
      <4>2. Send(u, "UnHold", held).told = u.told
        BY <3>1, ToldAndSent
      <4> QED
        BY <3>4, <4>1, <4>2
    <3> QED
      BY <3>2, <3>3, <3>4
  <2> HIDE DEF a
  <2>4. Hung(u, a) /\ u.lastCallId <= a.lastCallId
    BY <1>5, <2>1, <2>2, <2>3, IdsAreNumbers DEF Hung, Steady
  <2> QED
    BY <1>5, <2>2, <2>3, <2>4, ServesSelf
<1> HIDE DEF a
<1>7. /\ Good(n) /\ n.told = a.told
      /\ Range(n.table) = {d \in Range(a.table) : d.id # a.call.id}
      /\ n.lastCallId = a.lastCallId /\ n.sent = a.sent /\ Steady(a, n)
  <2>1. n = Delete(a)
    BY DEF a, u
  <2>2. n.told = a.told
    BY <1>6, <2>1, ToldAndSent DEF Good
  <2> QED
    BY <1>6, <2>1, <2>2, DeleteIs
<1>8. a.call.id = id /\ p.call.id = id /\ id \in Nat
    BY <1>0, <1>2, <1>4, <1>5, <1>6, IdsAreNumbers
<1> HIDE DEF id
<1>9. View(n, id) = {} /\ Ids(n.table) = Ids(a.table) \ {id}
  <2>1. Ids(n.table) = Ids(a.table) \ {id}
    BY <1>7, <1>8 DEF Ids
  <2> QED
    BY <2>1, NoView
<1>10. Serves(a, n, {id})
  <2>1. SameBut(a, n, id)
    BY <1>7, <1>8 DEF SameBut
  <2>2. \A other : other # id => View(n, other) = View(a, other)
    BY <2>1, OtherViews
  <2>3. UnboundIds(n) \subseteq UnboundIds(a)
    BY <1>7 DEF UnboundIds, Unbound
  <2>4. Hung(a, n) /\ a.lastCallId <= n.lastCallId
    BY <1>6, <1>7, IdsAreNumbers DEF Hung, Steady
  <2> QED
    BY <1>7, <2>2, <2>3, <2>4 DEF Serves, Leaves, Still, Heard
<1>11. Serves(r, p, {})
    BY <1>0, <1>2, <1>3, <1>4, ServesTrans
<1>12. Serves(r, u, {id})
    BY <1>0, <1>4, <1>5, <1>8, <1>11, ServesTrans
<1>13. Serves(r, a, {id})
    BY <1>0, <1>5, <1>6, <1>12, ServesTrans
<1>14. Serves(r, n, {id})
    BY <1>0, <1>6, <1>7, <1>10, <1>13, ServesTrans
<1>15. ASSUME id <= r.lastCallId PROVE Tells(r, n, id)
  <2>1. Heard(p, id) = Heard(r, id)
    BY <1>8, <1>11, <1>15 DEF Serves, Leaves, Still
  <2>2. Heard(n, id) = Heard(u, id)
    BY <1>6, <1>7 DEF Heard
  <2>3. Heard(r, id) = {} => \E k : Heard(n, id) = {<<k, "DISCONNECTED">>}
    BY <1>5, <1>8, <2>1, <2>2
  <2> QED
    BY <1>9, <2>3, EndTells
<1>16. Ids(n.table) = Ids(r.table) \ {id}
    BY <1>2, <1>4, <1>5, <1>6, <1>9
<1>17. Handles(r, n, id)
    BY <1>8, <1>14, <1>15 DEF Handles
<1> QED
    BY <1>7, <1>16, <1>17 DEF id

\* DisconnectedHandle; it finds the call of the key when there is one.
LEMMA DisconnectedServes ==
    ASSUME NEW m, Normal(m), NEW info \in AnyInfo,
           info.index # InitIndex \/ \E d \in Range(m.table) : HasKey(d, info),
           NEW n, n = DisconnectedHandle(m, info)
    PROVE  /\ \E id : Handles(m, n, id)
           /\ \A c \in Range(m.table) : HasKey(c, info) =>
                 /\ Handles(m, n, c.id)
                 /\ Ids(n.table) = Ids(m.table) \ {c.id}
<1> DEFINE r == Resolve(m, info)
           p == ClearPendingState(RefreshCallIfNecessary(r, info))
           e == Delete(AutoUnHold(UpdateCallState(p, "DISCONNECTED"), p.call.tel))
<1>0. Good(m)
    BY DEF Normal
<1>1. Resolved(m, r, info)
    BY ResolveServes
<1>2. n = IF r.call = NoCall THEN r ELSE e
    BY DEF DisconnectedHandle
<1>3. ASSUME NEW c \in Range(m.table), HasKey(c, info)
      PROVE  r.call = c /\ r.table = m.table /\ r.call # NoCall
  <2> DEFINE known == Lookup(m, info)
  <2>1. /\ AsBefore(m, known) /\ known.call # NoCall
        /\ known.call \in Range(m.table) /\ HasKey(known.call, info)
    BY <1>0, <1>3, LookupIs
  <2>2. r = known
    BY <2>1 DEF Resolve
  <2> HIDE DEF known, r
  <2>3. known.call = c
    <3>1. CASE info.index = InitIndex
      BY <1>3, <2>1, <3>1, TheUnbound DEF HasKey
    <3>2. CASE info.index # InitIndex
      BY <1>0, <1>3, <2>1, <3>2 DEF HasKey, Good, Sound, Range, Apart
    <3> QED
      BY <3>1, <3>2
  <2> QED
    BY <2>1, <2>2, <2>3 DEF AsBefore
<1> HIDE DEF r
<1>4. ASSUME r.call # NoCall
      PROVE  /\ Handles(m, e, r.call.id)
             /\ Ids(e.table) = Ids(r.table) \ {r.call.id}
  <2>1. Normal(r) /\ Serves(m, r, {}) /\ CanRefresh(r, info)
    BY <1>1, <1>4 DEF Resolved
  <2> HIDE DEF p
  <2>2. p = ClearPendingState(RefreshCallIfNecessary(r, info))
    BY DEF p
  <2> HIDE DEF e
  <2>3. e = Delete(AutoUnHold(UpdateCallState(p, "DISCONNECTED"), p.call.tel))
    BY DEF e
  <2>4. /\ Good(e) /\ Handles(r, e, r.call.id)
        /\ Ids(e.table) = Ids(r.table) \ {r.call.id}
    BY <2>1, <2>2, <2>3, EndServes
  <2> DEFINE id == r.call.id
  <2>5. id \in Nat /\ Serves(r, e, {id}) /\ (id <= r.lastCallId => Tells(r, e, id))
    BY <2>4 DEF Handles
  <2> HIDE DEF id
  <2>6. Good(r)
    BY <2>1 DEF Normal
  <2>7. Serves(m, e, {id})
    BY <1>0, <2>1, <2>4, <2>5, <2>6, ServesTrans
  <2>8. ASSUME id <= m.lastCallId PROVE Tells(m, e, id)
    <3>1. m.lastCallId <= r.lastCallId /\ m.lastCallId \in Nat /\ r.lastCallId \in Nat
      BY <1>0, <2>1, <2>6, IdsAreNumbers DEF Serves, Leaves
    <3>2. Tells(r, e, id)
      BY <2>5, <2>8, <3>1
    <3> QED
      BY <1>0, <2>1, <2>5, <2>6, <2>8, <3>2, TellsTrans
  <2> QED
    BY <2>4, <2>5, <2>7, <2>8 DEF Handles, id
<1> HIDE DEF e
<1>5. ASSUME r.call = NoCall PROVE Handles(m, n, 0)
  <2>1. Serves(m, n, {})
    BY <1>1, <1>2, <1>5 DEF Resolved
  <2> QED
    BY <2>1, ServesHandles
<1>6. \E id : Handles(m, n, id)
    BY <1>2, <1>4, <1>5
<1>7. ASSUME NEW c \in Range(m.table), HasKey(c, info)
      PROVE  Handles(m, n, c.id) /\ Ids(n.table) = Ids(m.table) \ {c.id}
  <2>1. r.call = c /\ r.table = m.table /\ r.call # NoCall
    BY <1>3, <1>7
  <2>2. n = e
    BY <1>2, <2>1
  <2> QED
    BY <1>4, <2>1, <2>2
<1> QED
    BY <1>6, <1>7

\* DealFailDial ends the call it names and leaves the others.
LEMMA DealFailServes ==
    ASSUME NEW m, Normal(m), NEW c \in Range(m.table),
           NEW n, n = DealFailDial(m, c)
    PROVE  /\ Normal(n) /\ Handles(m, n, c.id)
           /\ Ids(n.table) = Ids(m.table) \ {c.id}
           /\ n.pendingHangup # c.id
<1> DEFINE e == [index |-> c.index, slot |-> c.slot, state |-> "DISCONNECTED",
                 type |-> c.type]
<1>0. Good(m) /\ c \in Call
    BY RangeIs, ManagerFields DEF Normal, Good
<1>1. e \in AnyInfo /\ HasKey(c, e)
    BY <1>0, FinalStates DEF AnyInfo, Call, HasKey
<1>2. n = DisconnectedHandle(m, e)
    BY DEF DealFailDial
<1> HIDE DEF e
<1>3. Handles(m, n, c.id) /\ Ids(n.table) = Ids(m.table) \ {c.id}
    BY <1>1, <1>2, DisconnectedServes
<1>4. Good(n) /\ Kept(m, n, e) /\ Settles(m, n)
    BY <1>0, DealFailDialIs
<1>5. Normal(n)
    BY <1>3, <1>4, NormalKept DEF Handles, Kept
<1>6. n.pendingHangup # c.id
  <2>1. c.id # NoId
    BY <1>0, IdsAreNumbers
  <2>2. \A d \in Range(n.table) : d.id # c.id
    BY <1>3 DEF Ids
  <2> QED
    BY <1>5, <2>1, <2>2 DEF Normal, Settled, Waited, Unbound
<1> QED
    BY <1>3, <1>5, <1>6

\* Of a whole report: commands and kept hang-ups stand, no new call waits for
\* its index, and every call that was there is told what became of it.
Handled(m, n) ==
    /\ Hung(m, n) /\ UnboundIds(n) \subseteq UnboundIds(m)
    /\ \A id \in Nat : id <= m.lastCallId => Tells(m, n, id)

\* Handling one call handles all of them.
LEMMA HandlesHandled ==
    ASSUME NEW m, NEW n, NEW id, Handles(m, n, id)
    PROVE  Handled(m, n)
<1>1. Serves(m, n, {id}) /\ (id <= m.lastCallId => Tells(m, n, id))
    BY DEF Handles
<1>2. ASSUME NEW other \in Nat, other <= m.lastCallId PROVE Tells(m, n, other)
    BY <1>1, <1>2, StillTells
<1> QED
    BY <1>1, <1>2 DEF Handled, Serves, Leaves

\* Two calls, one after the other.
LEMMA JoinHandles ==
    ASSUME NEW m, NEW d, NEW n, Good(m), Good(d), Good(n),
           NEW i, NEW j, Handles(m, d, i), Handles(d, n, j), i # j
    PROVE  Handled(m, n)
<1>1. /\ i \in Nat /\ Serves(m, d, {i}) /\ (i <= m.lastCallId => Tells(m, d, i))
      /\ j \in Nat /\ Serves(d, n, {j}) /\ (j <= d.lastCallId => Tells(d, n, j))
    BY DEF Handles
<1>2. /\ m.lastCallId \in Nat /\ d.lastCallId \in Nat
      /\ m.lastCallId <= d.lastCallId
    BY <1>1, IdsAreNumbers DEF Serves, Leaves
<1>3. ASSUME NEW id \in Nat, id <= m.lastCallId PROVE Tells(m, n, id)
  <2>1. id <= d.lastCallId
    BY <1>2, <1>3
  <2>2. CASE id = i
    <3>1. id \notin {j} /\ Tells(m, d, id)
      BY <1>1, <1>3, <2>2
    <3> QED
      BY <1>1, <1>3, <3>1, TellsTrans
  <2>3. CASE id # i
    <3>1. Tells(d, n, id)
      <4>1. CASE id = j
        BY <1>1, <2>1, <4>1
      <4>2. CASE id # j
        BY <1>1, <2>1, <4>2, StillTells
      <4> QED
        BY <4>1, <4>2
    <3>2. id \notin {i}
      BY <2>3
    <3> QED
      BY <1>1, <1>3, <3>1, <3>2, TellsTrans
  <2> QED
    BY <2>2, <2>3
<1>4. Serves(m, n, {i, j})
    BY <1>1, ServesTrans
<1> QED
    BY <1>3, <1>4 DEF Handled, Serves, Leaves

\* The new call of IncomingHandle, or the one it had.
IncomingRest(d, info) ==
    LET old == Lookup(d, info)
        n == CreateNewCall(d, info, TRUE)
    IN  IF old.call # NoCall
        THEN IF old.call.type = info.type THEN d
             ELSE UpdateCallState(RefreshCall(old, info), info.state)
        ELSE IF Admits(n.table, n.call)
        THEN UpdateCallState(Append1(n, n.call), info.state)
        ELSE Send(n, "HangUp", n.call)

\* An incoming report, once the pending dial is dealt with, handles one call:
\* a known one or its own.
LEMMA IncomingRestServes ==
    ASSUME NEW d, Normal(d), NEW info \in AnyInfo, info.index # InitIndex,
           NEW o, o = IncomingRest(d, info)
    PROVE  \E id : /\ Handles(d, o, id)
                   /\ id \in Ids(d.table) \/ id = d.lastCallId + 1
<1> DEFINE old == Lookup(d, info)
           n == CreateNewCall(d, info, TRUE)
           a == Append1(n, n.call)
           q == RefreshCall(old, info)
           fresh == d.lastCallId + 1
<1>0. /\ Good(d) /\ d.dialEcc = FALSE /\ d.lastCallId \in Nat /\ fresh \in Nat
      /\ info.state \in TelStates
    BY IdsAreNumbers DEF Normal, AnyInfo
<1>1. /\ Good(old) /\ AsBefore(d, old)
      /\ old.call = NoCall => \A c \in Range(d.table) : ~HasKey(c, info)
      /\ old.call # NoCall =>
            /\ old.call \in Range(d.table) /\ HasKey(old.call, info) /\ Held(old)
    BY <1>0, LookupIs
<1>2. Serves(d, old, {})
    BY <1>0, LookupServes
<1>3. o = IF old.call # NoCall
          THEN IF old.call.type = info.type THEN d
               ELSE UpdateCallState(q, info.state)
          ELSE IF Admits(n.table, n.call) THEN UpdateCallState(a, info.state)
          ELSE Send(n, "HangUp", n.call)
    BY DEF IncomingRest
<1>4. /\ Good(n) /\ n.table = d.table /\ n.sent = d.sent
      /\ n.lastCallId = fresh /\ n.pendingHangup = d.pendingHangup
      /\ n.told = d.told /\ n.call \in Call
  <2> DEFINE isIn == TRUE
  <2>1. isIn \in BOOLEAN /\ n = CreateNewCall(d, info, isIn)
    OBVIOUS
  <2> HIDE DEF n, isIn
  <2>2. /\ Good(n) /\ n.table = d.table /\ n.sent = d.sent /\ n.call \in Call
        /\ n.lastCallId = d.lastCallId + 1 /\ Steady(d, n)
    BY <1>0, <2>1, CreateNewCallIs
  <2>3. n.told = d.told
    BY <1>0, <2>1, ToldAndSent DEF Good
  <2> QED
    BY <2>2, <2>3 DEF Steady
<1>5. ASSUME old.call = NoCall, Admits(n.table, n.call)
      PROVE  Created(d, a, info)
  <2> DEFINE isIn == TRUE
  <2>1. isIn \in BOOLEAN /\ n = CreateNewCall(d, info, isIn)
    OBVIOUS
  <2> HIDE DEF n, isIn, old
  <2>2. \A c \in Range(d.table) : Apart(info, c)
    BY <1>1, <1>5, NoneApart
  <2>3. Fresh(d, info)
    BY <1>0, <2>2 DEF Fresh
  <2>4. Admits(n.table, n.call)
    BY <1>5
  <2>5. a = Append1(n, n.call)
    OBVIOUS
  <2> HIDE DEF a
  <2> QED
    BY <2>1, <2>3, <2>4, <2>5, CreateServes
<1>6. ASSUME old.call # NoCall, old.call.type # info.type
      PROVE  Refreshed(old, q, info)
  <2> HIDE DEF old
  <2>1. CanRefresh(old, info)
    BY <1>0, <1>1, <1>6, KnownRefresh DEF AsBefore
  <2>2. q = RefreshCallIfNecessary(old, info)
    BY <1>6 DEF RefreshCallIfNecessary
  <2> HIDE DEF q
  <2> QED
    BY <2>1, <2>2, RefreshServes
<1> HIDE DEF n, old, a, q
<1>7. CASE old.call # NoCall /\ old.call.type = info.type
  <2>1. o = d
    BY <1>3, <1>7
  <2>2. Serves(d, d, {})
    BY <1>0, ServesSelf DEF Hung
  <2>3. Handles(d, o, fresh)
    BY <1>0, <2>1, <2>2, ServesHandles
  <2> QED
    BY <2>3
<1>8. CASE old.call # NoCall /\ old.call.type # info.type
  <2>1. o = UpdateCallState(q, info.state)
    BY <1>3, <1>8
  <2>2. Refreshed(old, q, info)
    BY <1>6, <1>8
  <2>3. Good(q) /\ Held(q) /\ q.call \in Range(q.table) /\ q.call.id = old.call.id
    BY <2>2 DEF Refreshed
  <2>4. Serves(d, q, {})
    BY <1>0, <1>1, <1>2, <2>2, <2>3, ServesTrans DEF Refreshed
  <2>5. Handles(d, o, q.call.id)
    BY <1>0, <2>1, <2>3, <2>4, UpdateHandles
  <2>6. q.call.id \in Ids(d.table)
    BY <1>1, <1>8, <2>3 DEF Ids
  <2> QED
    BY <2>5, <2>6
<1>9. CASE old.call = NoCall /\ Admits(n.table, n.call)
  <2>1. o = UpdateCallState(a, info.state)
    BY <1>3, <1>9
  <2>2. Created(d, a, info)
    BY <1>5, <1>9
  <2>3. /\ Good(a) /\ Held(a) /\ a.call \in Range(a.table) /\ a.call.id = fresh
        /\ Leaves(d, a, {}) /\ UnboundIds(a) \subseteq UnboundIds(d)
    BY <2>2 DEF Created
  <2>4. Good(o) /\ Serves(a, o, {a.call.id})
    BY <1>0, <2>1, <2>3, UpdateCallStateServes
  <2>5. Leaves(a, o, {fresh}) /\ UnboundIds(o) \subseteq UnboundIds(d)
    BY <2>3, <2>4 DEF Serves
  <2> HIDE DEF fresh
  <2>6. Leaves(d, o, {fresh})
    BY <1>0, <2>3, <2>4, <2>5, LeavesTrans
  <2>7. Leaves(d, o, {})
    BY <1>0, <2>6, LeavesFresh DEF fresh
  <2>8. Handles(d, o, fresh)
    BY <1>0, <2>5, <2>7, ServesHandles DEF Serves
  <2> QED
    BY <2>8 DEF fresh
<1>10. CASE old.call = NoCall /\ ~Admits(n.table, n.call)
  <2>1. o = Send(n, "HangUp", n.call)
    BY <1>3, <1>10
  <2>2. n \in Manager
    BY <1>4 DEF Good
  <2>3. /\ n.sent \subseteq o.sent /\ o.pendingHangup = n.pendingHangup
        /\ o.told = n.told /\ Alike(n, o)
    <3>1. Alike(n, Send(n, "HangUp", n.call))
      BY <1>4, <2>2, SendIs
    <3>2. Send(n, "HangUp", n.call).told = n.told
      BY <2>2 DEF Send, Manager
    <3>3. /\ n.sent \subseteq Send(n, "HangUp", n.call).sent
          /\ Send(n, "HangUp", n.call).pendingHangup = n.pendingHangup
      BY <2>2, SendHung
    <3> QED
      BY <2>1, <3>1, <3>2, <3>3
  <2>4. Hung(d, o) /\ d.lastCallId <= o.lastCallId
    BY <1>0, <1>4, <2>3 DEF Hung, Alike
  <2>5. o.table = d.table /\ o.told = d.told
    BY <1>4, <2>3 DEF Alike
  <2>6. Serves(d, o, {})
    BY <1>0, <2>4, <2>5, ServesSelf
  <2>7. Handles(d, o, fresh)
    BY <1>0, <2>6, ServesHandles
  <2> QED
    BY <2>7
<1> QED
    BY <1>7, <1>8, <1>9, <1>10

\* With the pending dial, it handles two at most, each of them once.
LEMMA IncomingServes ==
    ASSUME NEW m, Normal(m), NEW info \in AnyInfo, info.index # InitIndex,
           NEW o, o = IncomingHandle(m, info)
    PROVE  Handled(m, o)
<1> DEFINE mo == CallByIndex(m.table, InitIndex)
           d == IF mo = NoCall THEN m ELSE DealFailDial(m, mo)
<1>0. Good(m) /\ m.table \in Seq(Call)
    BY ManagerFields DEF Normal, Good
<1>1. o = IncomingRest(d, info)
    BY DEF IncomingHandle, IncomingRest
<1>2. Good(o)
    BY <1>0, IncomingHandleIs
<1>3. CASE mo = NoCall
  <2>1. o = IncomingRest(m, info)
    BY <1>1, <1>3
  <2>2. \E id : Handles(m, o, id)
    BY <2>1, IncomingRestServes
  <2> QED
    BY <2>2, HandlesHandled
<1>4. CASE mo # NoCall
  <2>1. mo \in Range(m.table)
    BY <1>0, <1>4, CallByIndexIs, RangeIs
  <2>2. d = DealFailDial(m, mo)
    BY <1>4
  <2> HIDE DEF d, mo
  <2>3. /\ Normal(d) /\ Handles(m, d, mo.id)
        /\ Ids(d.table) = Ids(m.table) \ {mo.id}
    BY <2>1, <2>2, DealFailServes
  <2>4. PICK id : /\ Handles(d, o, id)
                  /\ id \in Ids(d.table) \/ id = d.lastCallId + 1
    BY <1>1, <2>3, IncomingRestServes
  <2>5. mo.id # id
    <3>1. mo.id <= m.lastCallId /\ mo.id \in Nat /\ m.lastCallId \in Nat
      BY <1>0, <2>1, IdsAreNumbers
    <3>2. m.lastCallId <= d.lastCallId /\ d.lastCallId \in Nat
      BY <2>3, IdsAreNumbers DEF Handles, Serves, Leaves, Normal
    <3> QED
      BY <2>3, <2>4, <3>1, <3>2
  <2>6. Good(d)
    BY <2>3 DEF Normal
  <2> QED
    BY <1>0, <1>2, <2>3, <2>4, <2>5, <2>6, JoinHandles
<1> QED
    BY <1>3, <1>4

\* One reported call.
LEMMA ReportHandled ==
    ASSUME NEW m, Normal(m), NEW info \in Info,
           NEW n, n = HandleCallReportInfo(m, info)
    PROVE  Handled(m, n)
<1>1. info \in AnyInfo /\ info.state \in TelStates
    BY InfoIsAny DEF AnyInfo
<1>2. info.index # InitIndex
    BY CallManagerAssumption DEF Info
<1>3. CASE info.state = "ACTIVE"
  <2>1. n = ActiveHandle(m, info)
    BY <1>3 DEF HandleCallReportInfo
  <2> QED
    BY <1>1, <1>2, <2>1, ActiveServes, HandlesHandled
<1>4. CASE info.state = "ALERTING"
  <2>1. n = AlertHandle(m, info)
    BY <1>4 DEF HandleCallReportInfo
  <2> QED
    BY <1>1, <1>2, <2>1, AlertServes, HandlesHandled
<1>5. CASE info.state = "DIALING"
  <2>1. n = DialingHandle(m, info)
    BY <1>5 DEF HandleCallReportInfo
  <2>2. Serves(m, n, {})
    BY <1>1, <1>2, <1>5, <2>1, DialingServes
  <2>3. Handles(m, n, 0)
    BY <2>2, ServesHandles
  <2> QED
    BY <2>3, HandlesHandled
<1>6. CASE info.state \in {"INCOMING", "WAITING"}
  <2>1. n = IncomingHandle(m, info)
    BY <1>6 DEF HandleCallReportInfo
  <2> QED
    BY <1>1, <1>2, <2>1, IncomingServes
<1>7. CASE info.state \in {"HOLDING", "DISCONNECTING"}
  <2>1. n = KnownHandle(m, info)
    BY <1>7 DEF HandleCallReportInfo
  <2> QED
    BY <1>1, <2>1, KnownServes, HandlesHandled
<1>8. CASE info.state = "DISCONNECTED"
  <2>1. n = DisconnectedHandle(m, info)
    BY <1>8 DEF HandleCallReportInfo
  <2>2. \E id : Handles(m, n, id)
    BY <1>1, <1>2, <2>1, DisconnectedServes
  <2> QED
    BY <2>2, HandlesHandled
<1> QED
    BY <1>1, <1>3, <1>4, <1>5, <1>6, <1>7, <1>8 DEF TelStates

-----------------------------------------------------------------------------
\* What a step shows to the subscribers, to the stack and in the table when the
\* last dial was no emergency call.
NormalStep ==
    /\ OneUnbound(Now)'
    /\ \A id \in Ids(table) : TransitionTold(id)
    /\ PromiseKept
    /\ \A id \in Ids(table) \cap Ids(table') :
          CallById(table', id).slot = CallById(table, id).slot

\* The same table and flags before, or after.
LEMMA HandledAlike ==
    ASSUME NEW m, NEW n, NEW k, Handled(m, n), k.table = m.table,
           k.told = m.told, k.sent = m.sent, k.lastCallId = m.lastCallId,
           k.pendingHangup = m.pendingHangup
    PROVE  Handled(k, n)
<1>1. \A id : View(k, id) = View(m, id) /\ Heard(k, id) = Heard(m, id)
    BY DEF View, Calls, Heard
<1>2. UnboundIds(k) = UnboundIds(m)
    BY DEF UnboundIds, Unbound
<1>3. Hung(k, n)
    BY DEF Handled, Hung
<1>4. ASSUME NEW id \in Nat, id <= k.lastCallId PROVE Tells(k, n, id)
  <2>1. Tells(m, n, id)
    BY <1>4 DEF Handled
  <2> QED
    BY <1>1, <2>1 DEF Tells
<1> QED
    BY <1>2, <1>3, <1>4 DEF Handled

\* A step that handles what it has in hand is one.
Tellable(m, n) ==
    Hung(m, n) /\ \A id \in Nat : id <= m.lastCallId => Tells(m, n, id)

\* What tells of each call at most once, and of each change, is a normal step.
LEMMA TellableStep ==
    ASSUME TypeInv, NEW n, Good(n), Apply(n), OneUnbound(n), Tellable(Now, n)
    PROVE  NormalStep
<1>0. /\ table' = n.table /\ told' = n.told /\ sent' = n.sent
      /\ pendingHangup' = n.pendingHangup
    BY DEF Apply
<1>1. OneUnbound(Now)'
  <2> DEFINE z == Now'
  <2>1. z.table = n.table
    BY <1>0 DEF Now
  <2> HIDE DEF z
  <2>2. OneUnbound(z)
    BY <2>1 DEF OneUnbound, Unbound
  <2> QED
    BY <2>2 DEF z
<1>2. PromiseKept
    BY <1>0, NowIs DEF Tellable, Hung, PromiseKept
<1>3. ASSUME NEW x \in Range(table)
      PROVE  /\ TransitionTold(x.id)
             /\ x.id \in Ids(table') => CallById(table', x.id).slot = x.slot
  <2> DEFINE id == x.id
             after == CallById(table', id)
  <2>0. Now.table = table /\ Good(Now)
    BY NowIs DEF TypeInv
  <2>1. CallById(table, id) = x
    BY <2>0, CallOfId
  <2>2. x.id \in Nat /\ x.id <= lastCallId
    BY <2>0, NowIs, IdsAreNumbers
  <2>3. View(Now, id) = {<<x.tel, x.slot>>}
    BY <2>0, ViewIs
  <2>4. Heard(Now, id) = {}
    BY NowIs DEF Heard
  <2>5. Tells(Now, n, id)
    BY <2>2, NowIs DEF Tellable
  <2>6. ASSUME NEW y \in Range(n.table), y.id = id
        PROVE  after = y /\ after # NoCall /\ View(n, id) = {<<y.tel, y.slot>>}
    <3>1. n.table \in Seq(Call) /\ Sound(n.table, n.lastCallId, n.dialEcc)
      BY ManagerFields DEF Good
    <3>2. PICK i \in DOMAIN n.table : y = n.table[i]
      BY <3>1, <2>6, RangeIs
    <3>3. CallById(n.table, id) = y
      BY <2>6, <3>1, <3>2, CallByIdIs DEF Sound
    <3>4. y \in Call
      BY <3>1, <2>6, RangeIs
    <3>5. View(n, y.id) = {<<y.tel, y.slot>>}
      BY <2>6, ViewIs
    <3> QED
      BY <1>0, <2>6, <3>3, <3>4, <3>5, CallsAreCalls
  <2>7. ASSUME \A y \in Range(n.table) : y.id # id
        PROVE  after = NoCall /\ View(n, id) = {} /\ id \notin Ids(table')
    <3>1. n.table \in Seq(Call)
      BY ManagerFields DEF Good
    <3>2. id \notin Ids(n.table)
      BY <2>7 DEF Ids
    <3>3. View(n, id) = {}
      BY <3>2, NoView
    <3>4. after = NoCall
      BY <1>0, <2>7, <3>1, CallByIdIs, RangeIs
    <3> QED
      BY <1>0, <3>2, <3>3, <3>4
  <2> HIDE DEF after, id
  <2>8. CASE View(n, id) = View(Now, id)
    <3>1. PICK y \in Range(n.table) : y.id = id
      BY <2>3, <2>7, <2>8
    <3>2. after = y /\ after # NoCall /\ View(n, id) = {<<y.tel, y.slot>>}
      BY <2>6, <3>1
    <3>4. {<<y.tel, y.slot>>} = {<<x.tel, x.slot>>}
      BY <2>3, <2>8, <3>2
    <3>5. <<y.tel, y.slot>> = <<x.tel, x.slot>>
      BY <3>4, Zenon
    <3>3. y.tel = x.tel /\ y.slot = x.slot
      BY <3>5
    <3> QED
      BY <2>1, <3>2, <3>3 DEF TransitionTold, after, id
  <2>9. ASSUME NEW k, NEW state, Heard(n, id) = {<<k, state>>}
        PROVE  /\ Tellings(id) = {k} /\ k \in DOMAIN told'
               /\ told'[k].state = state
    <3> DEFINE T == {j \in DOMAIN n.told : n.told[j].id = id}
    <3>1. {<<i, n.told[i].state>> : i \in T} = {<<k, state>>}
      BY <2>9 DEF Heard
    <3>2. ASSUME NEW i \in T PROVE i = k /\ n.told[i].state = state
      <4>1. <<i, n.told[i].state>> \in {<<k, state>>}
        BY <3>1, Zenon
      <4>2. <<i, n.told[i].state>> = <<k, state>>
        BY <4>1, Zenon
      <4> QED
        BY <4>2
    <3>3. k \in T
      BY <3>1, <3>2
    <3>4. T = {k} /\ n.told[k].state = state /\ k \in DOMAIN n.told
      BY <3>2, <3>3
    <3> QED
      BY <1>0, <3>4 DEF Tellings
  <2>10. CASE \E k, state : /\ Heard(n, id) = {<<k, state>>}
                            /\ View(n, id) = {} /\ state = "DISCONNECTED"
    <3>1. PICK k, state : /\ Heard(n, id) = {<<k, state>>}
                          /\ View(n, id) = {} /\ state = "DISCONNECTED"
      BY <2>10
    <3>2. \A y \in Range(n.table) : y.id # id
      BY <2>6, <3>1
    <3>3. after = NoCall /\ id \notin Ids(table')
      BY <2>7, <3>2
    <3>4. Tellings(id) = {k} /\ k \in DOMAIN told' /\ told'[k].state = state
      BY <2>9, <3>1
    <3> QED
      BY <3>1, <3>3, <3>4 DEF TransitionTold, after, id
  <2>11. CASE \E k, state, tel, slot :
                 /\ Heard(n, id) = {<<k, state>>}
                 /\ <<tel, slot>> \in View(Now, id)
                 /\ View(n, id) = {<<state, slot>>}
    <3>1. PICK k, state, tel, slot :
                 /\ Heard(n, id) = {<<k, state>>}
                 /\ <<tel, slot>> \in View(Now, id)
                 /\ View(n, id) = {<<state, slot>>}
      BY <2>11
    <3>2. slot = x.slot
      BY <2>3, <3>1
    <3>3. PICK y \in Range(n.table) : y.id = id
      BY <2>7, <3>1
    <3>4. after = y /\ after # NoCall /\ View(n, id) = {<<y.tel, y.slot>>}
      BY <2>6, <3>3
    <3>7. {<<y.tel, y.slot>>} = {<<state, slot>>}
      BY <3>1, <3>4
    <3>8. <<y.tel, y.slot>> = <<state, slot>>
      BY <3>7, Zenon
    <3>5. y.tel = state /\ y.slot = x.slot
      BY <3>2, <3>8
    <3>6. Tellings(id) = {k} /\ k \in DOMAIN told' /\ told'[k].state = state
      BY <2>9, <3>1
    <3> QED
      BY <3>4, <3>5, <3>6 DEF TransitionTold, after, id
  <2> QED
    BY <2>4, <2>5, <2>8, <2>10, <2>11 DEF Tells
<1>4. ASSUME NEW id \in Ids(table)
      PROVE  /\ TransitionTold(id)
             /\ id \in Ids(table') =>
                   CallById(table', id).slot = CallById(table, id).slot
  <2>1. PICK x \in Range(table) : x.id = id
    BY DEF Ids
  <2>2. CallById(table, id) = x
    BY <2>1, CallOfId DEF TypeInv
  <2> QED
    BY <1>3, <2>1, <2>2
<1> QED
    BY <1>1, <1>2, <1>4 DEF NormalStep

\* A step that leaves the table and the mark of a kept hang-up.
LEMMA StillStep ==
    ASSUME TypeInv, table' = table, OneUnbound(Now),
           pendingHangup' = pendingHangup \/ pendingHangup = NoId
    PROVE  NormalStep
<1>1. OneUnbound(Now)'
  <2> DEFINE z == Now'
             k == Now
  <2>1. z.table = k.table /\ OneUnbound(k)
    BY DEF Now
  <2> HIDE DEF z, k
  <2>2. OneUnbound(z)
    BY <2>1 DEF OneUnbound, Unbound
  <2> QED
    BY <2>2 DEF z
<1>2. ASSUME NEW id \in Ids(table)
      PROVE  /\ TransitionTold(id)
             /\ CallById(table', id).slot = CallById(table, id).slot
  <2>1. PICK x \in Range(table) : x.id = id
    BY DEF Ids
  <2>2. CallById(table, id) = x /\ x # NoCall
    BY <2>1, CallOfId, GoodNow, RangeIs, CallsAreCalls DEF TypeInv
  <2> QED
    BY <2>2 DEF TransitionTold
<1>3. PromiseKept
    BY DEF PromiseKept
<1> QED
    BY <1>1, <1>2, <1>3 DEF NormalStep

\* A report, single or of a list.
LEMMA NormalNow ==
    ASSUME TypeInv, Settled(Now), ~dialEcc, OneUnbound(Now)
    PROVE  Normal(Now)
<1>1. Now.dialEcc = FALSE
    BY GoodNow, NowIs DEF TypeInv
<1> QED
    BY <1>1 DEF Normal, TypeInv

\* Steps that have handled their calls are normal.
LEMMA HandledStep ==
    ASSUME TypeInv, Settled(Now), ~dialEcc, OneUnbound(Now),
           NEW n, Good(n), Apply(n), Handled(Now, n)
    PROVE  NormalStep
<1>1. \A c \in Unbound(n) : c.id \in UnboundIds(n)
    BY DEF UnboundIds
<1>2. \A i, j \in UnboundIds(Now) : i = j
    BY DEF UnboundIds, OneUnbound
<1>3. OneUnbound(n)
    BY <1>1, <1>2 DEF Handled, OneUnbound
<1>4. Tellable(Now, n)
    BY DEF Handled, Tellable
<1> QED
    BY <1>3, <1>4, TellableStep

\* A report of the stack is a normal step.
LEMMA ReportNormal ==
    ASSUME TypeInv, Settled(Now), ~dialEcc, OneUnbound(Now),
           NEW info \in Info, Apply(HandleCallReportInfo(Now, info))
    PROVE  NormalStep
<1> DEFINE n == HandleCallReportInfo(Now, info)
<1>1. Normal(Now) /\ info \in AnyInfo /\ info.index # InitIndex
    BY NormalNow, InfoIsAny, CallManagerAssumption DEF Info
<1>2. Good(n)
    BY <1>1, HandleCallReportInfoIs DEF TypeInv
<1>3. Apply(n)
    OBVIOUS
<1> HIDE DEF n
<1>4. Handled(Now, n)
    BY <1>1, ReportHandled DEF n
<1> QED
    BY <1>2, <1>3, <1>4, HandledStep

\* A failed request.
LEMMA EventResultNormal ==
    ASSUME TypeInv, Settled(Now), ~dialEcc, OneUnbound(Now),
           NEW event, EventResult(event)
    PROVE  NormalStep
<1> DEFINE c == CallInState(table, "DIALING")
           n == DealFailDial(Now, c)
<1>1. c # NoCall /\ Apply(n)
    BY DEF EventResult
<1>2. c \in Range(Now.table)
    BY <1>1, CallInStateIs, RangeIs, GoodNow, NowIs DEF TypeInv
<1> HIDE DEF c, n
<1>3. n = DealFailDial(Now, c)
    BY DEF n
<1>4. Normal(Now)
    BY NormalNow
<1>5. Normal(n) /\ Handles(Now, n, c.id)
    BY <1>2, <1>3, <1>4, DealFailServes
<1>6. Handled(Now, n)
    BY <1>5, HandlesHandled
<1> QED
    BY <1>1, <1>5, <1>6, HandledStep DEF Normal

\* The protect task: the call it ends is the one whose hang-up is kept, and the
\* command goes out before the mark does.
LEMMA ProtectTimeoutNormal ==
    ASSUME TypeInv, Settled(Now), ~dialEcc, OneUnbound(Now), ProtectTimeout
    PROVE  NormalStep
<1> DEFINE m == [Now EXCEPT !.protectTask = NoId]
           c == CallById(table, protectTask)
           d == IF c = NoCall THEN m ELSE DealFailDial(m, c)
           e == [d EXCEPT !.pendingHangup = NoId]
           n == IF pendingHangup = protectTask THEN e ELSE m
<1>1. Apply(n) /\ protectTask # NoId
    BY DEF ProtectTimeout
<1>2. /\ Good(m) /\ m.table = table /\ m.lastCallId = lastCallId /\ m.sent = {}
      /\ m.told = <<>> /\ m.pendingHangup = pendingHangup
      /\ m.dialEcc = dialEcc /\ Steady(Now, m)
    BY NowIs DEF TypeInv, Good, Manager, Steady, Tones
<1> HIDE DEF m
<1>3. Normal(m)
  <2>1. Settled(m)
    BY <1>2, NowIs, SteadySettles DEF Settles
  <2>2. OneUnbound(m)
    BY <1>2, NowIs DEF OneUnbound, Unbound
  <2>3. m.dialEcc = FALSE
    BY <1>2, GoodNow DEF TypeInv
  <2> QED
    BY <1>2, <2>1, <2>2, <2>3 DEF Normal
<1>4. CASE pendingHangup # protectTask
  <2>1. n = m
    BY <1>4
  <2> HIDE DEF n
  <2>2. table' = table /\ pendingHangup' = pendingHangup
    BY <1>1, <1>2, <2>1 DEF Apply
  <2> QED
    BY <2>2, StillStep
<1>5. CASE pendingHangup = protectTask
  <2>0. n = e
    BY <1>5
  <2>1. c # NoCall /\ c \in Range(m.table) /\ c.id = protectTask
    <3>1. protectTask \in Waited(m)
      BY <1>1, <1>2, <1>5 DEF Waited
    <3>2. \E u \in Range(table) : u.id = protectTask
      BY <3>1, <1>2, <1>3 DEF Normal, Settled, Unbound
    <3> QED
      BY <3>2, <1>2, CallByIdIs, RangeIs, GoodNow, CallsAreCalls DEF TypeInv
  <2>2. d = DealFailDial(m, c)
    BY <2>1
  <2> HIDE DEF c, d, n, e
  <2>3. /\ Normal(d) /\ Handles(m, d, c.id) /\ d.pendingHangup # c.id
    BY <1>3, <2>1, <2>2, DealFailServes
  <2>4. Handled(m, d)
    BY <2>3, HandlesHandled
  <2>5. /\ Good(e) /\ e.table = d.table /\ e.told = d.told /\ e.sent = d.sent
        /\ e.pendingHangup = NoId
    BY <2>3 DEF e, Normal, Good, Manager
  <2>6. Handled(m, e)
    <3>1. \A id : View(e, id) = View(d, id) /\ Heard(e, id) = Heard(d, id)
      BY <2>5 DEF View, Calls, Heard
    <3>2. UnboundIds(e) = UnboundIds(d)
      BY <2>5 DEF UnboundIds, Unbound
    <3>3. Hung(m, e)
      BY <1>2, <1>5, <2>1, <2>3, <2>4, <2>5 DEF Handled, Hung
    <3>4. ASSUME NEW id \in Nat, id <= m.lastCallId PROVE Tells(m, e, id)
      <4>1. Tells(m, d, id)
        BY <2>4, <3>4 DEF Handled
      <4> QED
        BY <3>1, <4>1 DEF Tells
    <3> QED
      BY <2>4, <3>2, <3>3, <3>4 DEF Handled
  <2>7. Handled(Now, e)
    BY <1>2, <2>6, NowIs, HandledAlike
  <2> QED
    BY <1>1, <2>0, <2>5, <2>7, HandledStep
<1> QED
    BY <1>4, <1>5

\* The client's control calls leave the table; only a call that waits for its
\* index has its hang-up kept, and no other is kept at the time.
LEMMA ControlNormal ==
    ASSUME TypeInv, Settled(Now), ~dialEcc, OneUnbound(Now),
           NEW op \in ControlOps, NEW c \in Range(table), Control(op, c)
    PROVE  NormalStep /\ result' # "failed"
<1> DEFINE Plain == /\ table' = table /\ result' # "failed"
                    /\ pendingHangup' = pendingHangup \/ pendingHangup = NoId
<1>1. ASSUME NEW n, n.table = table, n.pendingHangup = pendingHangup,
             NEW o, NEW id, \/ Post(n, o, id) \/ Return(n, "refused")
                            \/ Return(n, "ok")
      PROVE  Plain
  <2>1. Apply(n) /\ result' \in {"ok", "refused"}
    BY <1>1 DEF Post, Return
  <2> QED
    BY <1>1, <2>1 DEF Apply
<1>2. ASSUME NEW x, PolicyThenPost("reject", x) PROVE Plain
    BY <1>1, <1>2, NowIs DEF PolicyThenPost
<1>3. ASSUME NEW x \in Range(table), HangUpCall(x) PROVE Plain
  <2>1. x \in Call /\ x.id # NoId
    BY RangeIs, GoodNow, CallsAreCalls DEF TypeInv
  <2>2. CASE pendingMo = x.id
    <3>1. pendingHangup = NoId
      <4>1. pendingMo \in Waited(Now)
        BY <2>1, <2>2, NowIs DEF Waited
      <4>2. ASSUME pendingHangup # NoId PROVE FALSE
        <5>1. pendingHangup \in Waited(Now)
          BY <4>2, NowIs DEF Waited
        <5>2. pendingMo = pendingHangup
          BY <4>1, <5>1 DEF Settled, OneUnbound
        <5>3. Now.pendingMo = Now.pendingHangup
          BY <5>2, NowIs
        <5> QED
          BY <2>1, <2>2, <5>3, NowIs DEF Settled
      <4> QED
        BY <4>2
    <3> DEFINE n == [Now EXCEPT !.pendingMo = NoId, !.pendingHangup = x.id,
                                !.protectTask = IF @ = NoId THEN x.id ELSE @]
    <3>2. n.table = table
      BY NowIs DEF TypeInv, Good, Manager
    <3>3. Return(Now, "refused") \/ Return(n, "ok")
      BY <1>3, <2>2, Zenon DEF HangUpCall
    <3> HIDE DEF n
    <3>4. \E k : Apply(k) /\ k.table = table
      BY <3>2, <3>3, NowIs DEF Return
    <3>5. result' # "failed"
      BY <3>3 DEF Return
    <3> QED
      BY <3>1, <3>4, <3>5 DEF Apply
  <2>3. CASE pendingMo # x.id
    <3>1. CASE Policy("hangup", table, x)
      <4>1. Post(Now, "hangup", x.id)
        BY <1>3, <2>3, <3>1, Zenon DEF HangUpCall
      <4> QED
        BY <4>1, <1>1, NowIs
    <3>2. CASE ~Policy("hangup", table, x)
      <4>1. Return(Now, "refused")
        BY <1>3, <3>2, Zenon DEF HangUpCall
      <4> QED
        BY <4>1, <1>1, NowIs
    <3> QED
      BY <3>1, <3>2
  <2> QED
    BY <2>2, <2>3
<1>4. ASSUME AnswerCall(c) PROVE Plain
  <2> DEFINE h == Holding(Now, c)
             n == Notify(h, "INCOMING", "ANSWERED")
  <2>1. /\ Return(Now, "refused") \/ Return(n, "refused") \/ Post(n, "answer", c.id)
    BY <1>4 DEF AnswerCall
  <2>2. c \in Call /\ c # NoCall
    BY RangeIs, GoodNow, CallsAreCalls DEF TypeInv
  <2>3. /\ Good(h) /\ h.call = c /\ h.table = table /\ Steady(Now, h)
    BY <2>2, NowIs, HoldingIs DEF TypeInv, AsBefore
  <2> HIDE DEF h
  <2>4. Alike(h, n) /\ n.pendingHangup = h.pendingHangup
    BY <2>2, <2>3, NotifyIs DEF Good
  <2> HIDE DEF n
  <2>5. n.table = table /\ n.pendingHangup = pendingHangup
    BY <2>3, <2>4, NowIs DEF Alike, Steady
  <2> QED
    BY <1>1, <2>1, <2>5, NowIs
<1>5. ASSUME EndCall PROVE Plain
  <2> DEFINE found == {i \in DOMAIN EndOrder :
                          CallInState(table, EndOrder[i]) # NoCall}
             x == CallInState(table, EndOrder[Min(found)])
  <2>1. \/ found = {} /\ Return(Now, "ok")
        \/ found # {} /\ (PolicyThenPost("reject", x) \/ HangUpCall(x))
    BY <1>5 DEF EndCall
  <2>2. CASE found = {}
    <3>1. Return(Now, "ok")
      BY <2>1, <2>2
    <3> QED
      BY <1>1, <3>1, NowIs
  <2>3. CASE found # {}
    <3>1. found \in SUBSET Nat
      BY DEF EndOrder
    <3>2. Min(found) \in found
      BY <2>3, <3>1, MinOf, Zenon
    <3>3. x # NoCall
      BY <3>2
    <3>4. x \in Range(table)
      BY <3>3, CallInStateIs, RangeIs, GoodNow DEF TypeInv
    <3> HIDE DEF x, found
    <3> QED
      BY <2>1, <2>3, <3>4, <1>2, <1>3
  <2> QED
    BY <2>2, <2>3
<1>6. ASSUME op \notin {"answer", "hangup", "end"} PROVE Plain
  <2>1. Return(Now, "refused") \/ Post(Now, op, c.id)
    BY <1>6 DEF Control, PolicyThenPost
  <2> QED
    BY <1>1, <2>1, NowIs
<1>7. Plain
    BY <1>3, <1>4, <1>5, <1>6 DEF Control
<1> QED
    BY <1>7, StillStep

\* The commands of the posted requests.
LEMMA SendServes ==
    ASSUME NEW m, Good(m), NEW c \in Call,
           NEW cmd \in {"Answer", "HangUp", "Hold", "UnHold", "Switch"},
           NEW n, n = Send(m, cmd, c)
    PROVE  Good(n) /\ n.table = m.table /\ n.call = m.call /\ Serves(m, n, {})
<1>1. m \in Manager
    BY DEF Good
<1>2. n \in Manager /\ Alike(m, n)
    BY <1>1, SendIs
<1>3. Good(n)
    BY <1>2 DEF Good, Alike
<1>4. n.told = m.told
    BY <1>1 DEF Send, Manager
<1>5. Hung(m, n)
    BY <1>1, SendHung
<1>6. m.lastCallId <= n.lastCallId
    BY <1>2, IdsAreNumbers DEF Alike
<1>7. Serves(m, n, {})
    BY <1>2, <1>4, <1>5, <1>6, ServesSelf DEF Alike
<1> QED
    BY <1>2, <1>3, <1>7 DEF Alike

\* A HangUp command serves all calls.
LEMMA HangUpServes ==
    ASSUME NEW m, Good(m), NEW c \in Call, NEW n, n = HangUp(m, c)
    PROVE  Good(n) /\ Serves(m, n, {})
<1>1. m \in Manager
    BY DEF Good
<1>2. Quiet(m, n) /\ Steady(m, n)
    BY <1>1, HangUpIs
<1>3. Good(n) /\ Alike(m, n)
    BY <1>2, QuietIs DEF Quiet
<1>4. n.told = m.told /\ m.sent \subseteq n.sent
    BY <1>1, ToldAndSent, HangUpHung
<1>5. Hung(m, n)
    BY <1>2, <1>4 DEF Hung, Steady
<1>6. m.lastCallId <= n.lastCallId
    BY <1>3, IdsAreNumbers DEF Alike
<1>7. Serves(m, n, {})
    BY <1>3, <1>4, <1>5, <1>6, ServesSelf DEF Alike
<1> QED
    BY <1>3, <1>7

\* A flag of the held call.
LEMMA FlagServes ==
    ASSUME NEW m, Good(m), Held(m), m.call \in Range(m.table), NEW c \in Call,
           c.id = m.call.id, c.ecc = m.call.ecc, c.isIn = m.call.isIn,
           c.index = m.call.index, c.slot = m.call.slot, c.tel = m.call.tel,
           NEW n, n = Write(m, c)
    PROVE  Good(n) /\ n.call = c /\ Serves(m, n, {})
<1>1. \A d \in Range(m.table) : d.id # c.id => Apart(c, d)
    BY DEF Good, Sound, Range, Apart
<1>2. c.index = m.call.index \/ c.index # InitIndex
    OBVIOUS
<1> QED
    BY <1>1, <1>2, WriteServes

\* RejectRequest marks the call on hold, another one than it was given.
LEMMA RejectServes ==
    ASSUME NEW m, Good(m), Held(m), m.call \in Range(m.table),
           NEW ok \in BOOLEAN, NEW n, n = RejectRequest(m, ok)
    PROVE  Serves(m, n, {})
<1> DEFINE s == Send(m, "HangUp", m.call)
           held == CallInState(m.table, "HOLD")
           g == Holding(s, held)
           c == [held EXCEPT !.canUnHold = FALSE]
           w == Write(g, c)
           h == IF held = NoCall THEN s ELSE Write(s, c)
           r == [h EXCEPT !.ringtone = FALSE]
<1>1. n = r \/ n = s
    BY DEF RejectRequest
<1>2. Good(s) /\ s.table = m.table /\ s.call = m.call /\ Serves(m, s, {})
    BY SendServes DEF Held
<1>3. ASSUME held # NoCall PROVE Good(w) /\ Serves(m, w, {}) /\ Write(s, c) = w
  <2>1. held \in Range(m.table)
    BY <1>3, CallInStateIs, RangeIs, ManagerFields DEF Good
  <2>2. held \in Call
    BY <2>1, RangeIs, ManagerFields DEF Good
  <2>3. s \in Manager
    BY <1>2 DEF Good
  <2> HIDE DEF s, held
  <2>4. Write(s, c) = w
    <3> HIDE DEF c
    <3> QED
      BY <2>3 DEF Write, Holding, Manager
  <2>5. Good(g) /\ g.call = held /\ Held(g) /\ Serves(s, g, {}) /\ g.table = s.table
    BY <1>2, <1>3, <2>1, HoldingServes DEF AsBefore
  <2>6. /\ c \in Call /\ c.id = held.id /\ c.index = held.index /\ c.slot = held.slot
        /\ c.ecc = held.ecc /\ c.isIn = held.isIn /\ c.tel = held.tel
    BY <2>2 DEF Call
  <2> HIDE DEF c, g
  <2>7. g.call \in Range(g.table)
    BY <1>2, <2>1, <2>5
  <2>8. Good(w) /\ Serves(g, w, {})
    BY <2>5, <2>6, <2>7, FlagServes
  <2> HIDE DEF w
  <2>9. Serves(m, g, {})
    BY <1>2, <2>5, ServesTrans
  <2>10. Serves(m, w, {})
    BY <2>5, <2>8, <2>9, ServesTrans
  <2> QED
    BY <2>4, <2>8, <2>10
<1> HIDE DEF s, w
<1>4. Good(h) /\ Serves(m, h, {})
    BY <1>2, <1>3
<1> HIDE DEF h
<1>5. Serves(m, r, {})
  <2>1. /\ r \in Manager /\ r.table = h.table /\ r.told = h.told
        /\ r.lastCallId = h.lastCallId /\ r.dialEcc = h.dialEcc
        /\ r.sent = h.sent /\ r.pendingHangup = h.pendingHangup
    BY <1>4 DEF Good, Manager
  <2> HIDE DEF r
  <2>2. Good(r) /\ Hung(h, r) /\ h.lastCallId <= r.lastCallId
    BY <1>4, <2>1, IdsAreNumbers DEF Good, Hung
  <2>3. Serves(h, r, {})
    BY <1>4, <2>1, <2>2, ServesSelf
  <2> QED
    BY <1>4, <2>2, <2>3, ServesTrans
<1> QED
    BY <1>1, <1>2, <1>5

\* A posted request changes no state and no slot and tells nothing.
LEMMA RequestServes ==
    ASSUME NEW m, Good(m), Held(m), m.call \in Range(m.table), m.sent = {},
           NEW op \in ControlOps \ {"end"}, NEW ok \in BOOLEAN,
           NEW n, n = HandleRequest(m, op, ok)
    PROVE  Good(n) /\ Serves(m, n, {})
<1>0. m.call \in Call
    BY DEF Held
<1>1. Good(n)
    BY HandleRequestIs DEF Requested
<1>2. Serves(m, m, {})
    BY IdsAreNumbers, ServesSelf DEF Hung
<1>3. CASE op = "answer"
  <2>1. n = m \/ n = Send(m, "Answer", m.call)
    BY <1>3 DEF HandleRequest, AnswerRequest
  <2>2. ASSUME n = Send(m, "Answer", m.call) PROVE Serves(m, n, {})
    BY <1>0, <2>2, SendServes
  <2> QED
    BY <1>1, <1>2, <2>1, <2>2
<1>4. CASE op = "reject"
  <2>1. n = RejectRequest(m, ok)
    BY <1>4 DEF HandleRequest
  <2> QED
    BY <1>1, <2>1, RejectServes
<1>5. CASE op = "hangup"
  <2> DEFINE flag == /\ m.call.tel = "ACTIVE"
                     /\ \E c \in Range(m.table) :
                           c.type = m.call.type /\ c.tel = "HOLDING"
                     /\ ~Exists(m.table, {"WAITING"})
             v == m.call.hangUpActive \/ flag
             c == [m.call EXCEPT !.hangUpActive = v]
             w == Write(m, c)
  <2>1. n = HangUp(w, w.call)
    BY <1>5 DEF HandleRequest, HangUpRequest
  <2>2. v \in BOOLEAN
    BY <1>0 DEF Call
  <2> HIDE DEF v
  <2>3. /\ c \in Call /\ c.id = m.call.id /\ c.index = m.call.index
        /\ c.slot = m.call.slot /\ c.ecc = m.call.ecc /\ c.isIn = m.call.isIn
        /\ c.tel = m.call.tel
    BY <1>0, <2>2 DEF Call
  <2> HIDE DEF c
  <2>4. Good(w) /\ w.call = c /\ Serves(m, w, {})
    BY <2>3, FlagServes
  <2> HIDE DEF w
  <2>5. Serves(w, n, {})
    BY <2>1, <2>3, <2>4, HangUpServes
  <2> QED
    BY <1>1, <2>4, <2>5, ServesTrans
<1>6. CASE op = "hold"
  <2>1. n = Send(m, "Hold", m.call)
    BY <1>6 DEF HandleRequest
  <2> QED
    BY <1>0, <1>1, <2>1, SendServes
<1>7. CASE op = "unhold"
  <2> DEFINE c == [m.call EXCEPT !.canUnHold = TRUE]
             w == Write(m, c)
  <2>1. n = w \/ n = Send(w, "UnHold", w.call)
    BY <1>7 DEF HandleRequest, UnHoldRequest
  <2>3. /\ c \in Call /\ c.id = m.call.id /\ c.index = m.call.index
        /\ c.slot = m.call.slot /\ c.ecc = m.call.ecc /\ c.isIn = m.call.isIn
        /\ c.tel = m.call.tel
    BY <1>0 DEF Call
  <2> HIDE DEF c
  <2>4. Good(w) /\ w.call = c /\ Serves(m, w, {})
    BY <2>3, FlagServes
  <2> HIDE DEF w
  <2>5. ASSUME n = Send(w, "UnHold", w.call) PROVE Serves(w, n, {})
    BY <2>3, <2>4, <2>5, SendServes
  <2>6. n = w \/ Serves(w, n, {})
    BY <2>1, <2>5
  <2> QED
    BY <1>1, <2>4, <2>6, ServesTrans
<1>8. CASE op = "switch"
  <2>1. n = Send(m, "Switch", m.call)
    BY <1>8 DEF HandleRequest
  <2> QED
    BY <1>0, <1>1, <2>1, SendServes
<1> QED
    BY <1>3, <1>4, <1>5, <1>6, <1>7, <1>8 DEF ControlOps

\* A request of the client, or its failure, is a normal step.
LEMMA RunRequestNormal ==
    ASSUME TypeInv, Settled(Now), ~dialEcc, OneUnbound(Now),
           NEW ok \in BOOLEAN, RunRequest(ok)
    PROVE  NormalStep
<1> DEFINE r == Head(requests)
           c == CallById(table, r.id)
           h == Holding(Now, c)
           n == HandleRequest(h, r.op, ok)
<1>0. Good(Now)
    BY DEF TypeInv
<1>1. /\ requests # <<>> /\ Apply(IF c = NoCall THEN Now ELSE n)
    BY DEF RunRequest
<1>2. r \in Posted
    BY <1>1 DEF TypeInv
<1>3. CASE c = NoCall
  <2>1. Apply(Now)
    BY <1>1, <1>3
  <2> QED
    BY <2>1, NowIs, StillStep DEF Apply
<1>4. CASE c # NoCall
  <2>1. c \in Range(Now.table)
    BY <1>4, CallByIdIs, RangeIs, GoodNow, NowIs DEF TypeInv
  <2>2. r.op \in ControlOps \ {"end"}
    BY <1>2 DEF Posted
  <2>3. Apply(n)
    BY <1>1, <1>4
  <2> HIDE DEF c, r
  <2>4. /\ Good(h) /\ AsBefore(Now, h) /\ h.call = c /\ Held(h)
        /\ Serves(Now, h, {})
    BY <1>0, <1>4, <2>1, HoldingServes
  <2> HIDE DEF h
  <2>5. h.call \in Range(h.table) /\ h.sent = {}
    BY <2>1, <2>4, NowIs DEF AsBefore
  <2>6. Good(n) /\ Serves(h, n, {})
    BY <2>2, <2>4, <2>5, RequestServes
  <2> HIDE DEF n
  <2>7. Serves(Now, n, {})
    BY <1>0, <2>4, <2>6, ServesTrans
  <2>8. Handles(Now, n, 0)
    BY <2>7, ServesHandles
  <2>9. Handled(Now, n)
    BY <2>8, HandlesHandled
  <2> QED
    BY <2>3, <2>6, <2>9, HandledStep
<1> QED
    BY <1>3, <1>4

\* An emergency dial that the policy lets through leaves its mark.
LEMMA EccDialMarks ==
    ASSUME TypeInv, NEW s \in Slots, NEW type \in CallTypes, NEW ok \in BOOLEAN,
           DialCall(s, type, TRUE, ok), DialPolicy(table, TRUE)
    PROVE  dialEcc'
<1> DEFINE ecc == TRUE
           dial == [Now EXCEPT !.dialEcc = ecc]
           cleared == EccDialPolicy(dial)
           info == [index |-> InitIndex, slot |-> s, state |-> "DIALING",
                    type |-> type]
           made == DialingHandle(cleared, info)
           sentDial == Send(made, "Dial", made.call)
           failed == HandleDialFail(sentDial)
<1>1. \/ Return(dial, "refused")
      \/ made.call.id \notin Ids(made.table) /\ Return(made, "full")
      \/ /\ made.call.id \in Ids(made.table)
         /\ Return(sentDial, "ok") \/ Return(failed, "failed")
    BY DEF DialCall, CarrierDialProcess
<1>0. ecc \in BOOLEAN /\ DialPolicy(table, ecc) /\ ecc = TRUE
    OBVIOUS
<1> HIDE DEF ecc
<1>2. Good(dial) /\ dial.dialEcc = ecc /\ dial.table = table
      /\ dial.lastCallId = lastCallId
    BY <1>0, DialPolicyIs
<1> HIDE DEF dial
<1>3. Good(cleared) /\ Alike(dial, cleared)
    BY <1>2, EccDialPolicyIs, QuietIs DEF Quiet
<1> HIDE DEF cleared
<1>4. info \in AnyInfo /\ info.index = InitIndex
    BY FinalStates DEF AnyInfo
<1> HIDE DEF info
<1>5. /\ Good(made) /\ Kept(cleared, made, info) /\ made.call \in Call
      /\ made.call.id = cleared.lastCallId + 1
      /\ \/ made.call.tel = "DIALING" /\ made.call \in Range(made.table)
         \/ made.table = cleared.table
  <2>1. /\ Good(made) /\ Kept(cleared, made, info)
        /\ \E c \in Call :
              /\ c.id = cleared.lastCallId + 1
              /\ made.call.id = c.id /\ made.call \in Call
              /\ \/ /\ made.call = [c EXCEPT !.tel = "DIALING"]
                    /\ Range(made.table) = Range(cleared.table) \cup {made.call}
                 \/ made.table = cleared.table
    BY <1>3, <1>4, DialingHandleIs
  <2> HIDE DEF made
  <2>2. PICK c \in Call :
              /\ c.id = cleared.lastCallId + 1
              /\ made.call.id = c.id /\ made.call \in Call
              /\ \/ /\ made.call = [c EXCEPT !.tel = "DIALING"]
                    /\ Range(made.table) = Range(cleared.table) \cup {made.call}
                 \/ made.table = cleared.table
    BY <2>1
  <2>3. [c EXCEPT !.tel = "DIALING"].tel = "DIALING"
    BY DEF Call
  <2> QED
    BY <2>1, <2>2, <2>3
<1> HIDE DEF made
<1>6. made.dialEcc = TRUE
    BY <1>0, <1>2, <1>3, <1>5 DEF Kept, Alike
<1>7. Good(sentDial) /\ Alike(made, sentDial)
  <2>1. Quiet(made, sentDial)
    BY <1>5, SendIs DEF Good
  <2> HIDE DEF sentDial
  <2> QED
    BY <1>5, <2>1, QuietIs DEF Quiet
<1> HIDE DEF sentDial
<1>8. ASSUME made.call.id \in Ids(made.table), Return(failed, "failed")
      PROVE  dialEcc'
  <2> DEFINE c == CallInState(sentDial.table, "DIALING")
  <2>1. sentDial.table \in Seq(Call) /\ sentDial.table = made.table
    BY <1>7, ManagerFields DEF Good, Alike
  <2>2. made.call.id \notin Ids(cleared.table)
    <3>1. \A x \in Range(cleared.table) : x.id <= cleared.lastCallId /\ x.id \in Nat
      BY <1>3, IdsAreNumbers
    <3>2. cleared.lastCallId \in Nat
      BY <1>3, IdsAreNumbers
    <3> QED
      BY <1>5, <3>1, <3>2 DEF Ids
  <2>3. made.call.tel = "DIALING" /\ made.call \in Range(made.table)
    BY <1>5, <1>8, <2>2
  <2>4. RunningState(made.call.tel) = "DIALING"
    BY <2>3 DEF RunningState
  <2>5. c \in Range(sentDial.table)
    BY <2>1, <2>3, <2>4, CallInStateIs, RangeIs
  <2>6. failed = DealFailDial(sentDial, c)
    BY DEF HandleDialFail
  <2> HIDE DEF c, failed
  <2>7. Kept(sentDial, failed, NoKey)
    BY <1>7, <2>5, <2>6, DealFailDialIs
  <2> QED
    BY <1>6, <1>7, <1>8, <2>7 DEF Kept, Alike, Return, Apply
<1>9. ASSUME Return(dial, "refused") PROVE dialEcc'
    BY <1>0, <1>2, <1>9 DEF Return, Apply
<1>10. ASSUME Return(made, "full") PROVE dialEcc'
    BY <1>6, <1>10 DEF Return, Apply
<1>11. ASSUME Return(sentDial, "ok") PROVE dialEcc'
    BY <1>6, <1>7, <1>11 DEF Return, Apply, Alike
<1> QED
    BY <1>1, <1>8, <1>9, <1>10, <1>11

\* A dial that is none: the policy has found no call in a dialling state, so the
\* new call is the only one that waits, and the one HandleDialFail finds.
LEMMA DialNormal ==
    ASSUME TypeInv, Settled(Now), ~dialEcc => OneUnbound(Now), ~dialEcc',
           NEW s \in Slots, NEW type \in CallTypes, NEW ecc \in BOOLEAN,
           NEW ok \in BOOLEAN, DialCall(s, type, ecc, ok)
    PROVE  NormalStep /\ (result' = "failed" => Ids(table') = Ids(table))
<1> DEFINE Done == NormalStep /\ (result' = "failed" => Ids(table') = Ids(table))
<1>1. CASE ~DialPolicy(table, ecc)
  <2>1. Return(Now, "refused")
    BY <1>1 DEF DialCall
  <2>2. /\ table' = table /\ dialEcc' = dialEcc /\ result' = "refused"
        /\ pendingHangup' = pendingHangup
    BY <2>1, NowIs DEF Return, Apply
  <2> QED
    BY <2>2, StillStep
<1>2. CASE DialPolicy(table, ecc) /\ ecc = TRUE
    BY <1>2, EccDialMarks
<1>3. ASSUME DialPolicy(table, ecc), ecc = FALSE PROVE Done
  <2> DEFINE dial == [Now EXCEPT !.dialEcc = ecc]
             info == [index |-> InitIndex, slot |-> s, state |-> "DIALING",
                      type |-> type]
             made == DialingHandle(dial, info)
             sentDial == Send(made, "Dial", made.call)
             failed == HandleDialFail(sentDial)
             new == lastCallId + 1
  <2>1. \/ Return(dial, "refused")
        \/ made.call.id \notin Ids(made.table) /\ Return(made, "full")
        \/ /\ made.call.id \in Ids(made.table)
           /\ IsNewCallAllowedCreate(table)
           /\ Return(sentDial, "ok") \/ Return(failed, "failed")
    BY <1>3 DEF DialCall, CarrierDialProcess
  <2>2. /\ Good(dial) /\ dial.table = table /\ dial.lastCallId = lastCallId
        /\ dial.dialEcc = ecc /\ dial.sent = {} /\ Steady(Now, dial)
    BY <1>3, DialPolicyIs
  <2>3. dial.told = <<>>
    BY NowIs DEF TypeInv, Good, Manager
  <2> HIDE DEF dial
  <2>4. Settled(dial)
    BY <2>2, NowIs, SteadySettles DEF Settles
  <2>5. Unbound(dial) = {}
    <3>1. \A c \in Range(table) : RunningState(c.tel) # "DIALING"
      BY <1>3 DEF DialPolicy, HasNewCall
    <3>2. ASSUME NEW c \in Unbound(dial) PROVE FALSE
      <4>1. c \in Range(table) /\ c.tel = "DIALING"
        BY <2>2, <2>4 DEF Settled, Unbound
      <4>2. RunningState(c.tel) = "DIALING"
        BY <4>1 DEF RunningState
      <4> QED
        BY <3>1, <4>1, <4>2
    <3> QED
      BY <3>2
  <2>6. Normal(dial)
    BY <1>3, <2>2, <2>4, <2>5 DEF Normal, OneUnbound
  <2>7. info \in AnyInfo /\ info.index = InitIndex /\ info.state = "DIALING"
    BY FinalStates DEF AnyInfo
  <2> HIDE DEF info
  <2>8. Leaves(dial, made, {})
    BY <2>6, <2>7, DialingServes
  <2>9. /\ Good(made) /\ Kept(dial, made, info) /\ Settles(dial, made)
        /\ made.call \in Call /\ made.call.id = new
        /\ \/ /\ made.call.tel = "DIALING"
              /\ Range(made.table) = Range(table) \cup {made.call}
           \/ made.table = table
    <3>0. Good(dial) /\ info \in AnyInfo /\ info.index = InitIndex
      BY <2>2, <2>7
    <3>1. /\ Good(made) /\ Kept(dial, made, info) /\ Settles(dial, made)
          /\ \E c \in Call :
                /\ c.id = dial.lastCallId + 1
                /\ made.call.id = c.id /\ made.call \in Call
                /\ \/ /\ made.call = [c EXCEPT !.tel = "DIALING"]
                      /\ Range(made.table) = Range(dial.table) \cup {made.call}
                   \/ made.table = dial.table
      BY <3>0, DialingHandleIs
    <3> HIDE DEF made
    <3>2. PICK c \in Call :
                /\ c.id = dial.lastCallId + 1
                /\ made.call.id = c.id /\ made.call \in Call
                /\ \/ /\ made.call = [c EXCEPT !.tel = "DIALING"]
                      /\ Range(made.table) = Range(dial.table) \cup {made.call}
                   \/ made.table = dial.table
      BY <3>1
    <3>3. [c EXCEPT !.tel = "DIALING"].tel = "DIALING"
      BY DEF Call
    <3> QED
      BY <2>2, <3>1, <3>2, <3>3
  <2> HIDE DEF made
  <2>10. OneUnbound(made) /\ Settled(made) /\ made.dialEcc = FALSE
    <3>1. \A c \in Unbound(made) : c = made.call
      BY <2>2, <2>5, <2>9 DEF Unbound
    <3> QED
      BY <1>3, <2>2, <2>4, <2>9, <3>1 DEF OneUnbound, Settles, Kept
  <2>11. /\ lastCallId \in Nat /\ dial.lastCallId = lastCallId
         /\ new = dial.lastCallId + 1
    BY <2>2, GoodNow DEF TypeInv
  <2>12. ASSUME NEW n, Good(n), OneUnbound(n), Leaves(dial, n, {}), Apply(n)
         PROVE  NormalStep
    <3>1. Tellable(Now, n)
      <4>1. Hung(Now, n)
        BY <2>2, <2>12, NowIs DEF Leaves, Hung, Steady
      <4>2. \A id : View(dial, id) = View(Now, id) /\ Heard(dial, id) = Heard(Now, id)
        BY <2>2, <2>3, NowIs DEF View, Calls, Heard
      <4>3. ASSUME NEW id \in Nat, id <= lastCallId
            PROVE  View(n, id) = View(Now, id) /\ Heard(n, id) = Heard(Now, id)
        <5>1. View(n, id) = View(dial, id) /\ Heard(n, id) = Heard(dial, id)
          BY <2>11, <2>12, <4>3 DEF Leaves, Still
        <5> QED
          BY <4>2, <5>1
      <4>4. \A id \in Nat : id <= Now.lastCallId => Tells(Now, n, id)
        BY <4>3, NowIs DEF Tells
      <4> QED
        BY <4>1, <4>4 DEF Tellable
    <3> QED
      BY <2>12, <3>1, TellableStep
  <2>13. ASSUME Return(dial, "refused") PROVE Done
    <3>1. Apply(dial) /\ result' = "refused"
      BY <2>13 DEF Return
    <3>2. OneUnbound(dial)
      BY <2>6 DEF Normal
    <3>3. Leaves(dial, dial, {})
      BY <2>2, IdsAreNumbers, ServesSelf DEF Hung, Serves
    <3> QED
      BY <2>2, <2>12, <3>1, <3>2, <3>3
  <2>14. ASSUME Return(made, "full") PROVE Done
    <3>1. Apply(made) /\ result' = "full"
      BY <2>14 DEF Return
    <3> QED
      BY <2>8, <2>9, <2>10, <2>12, <3>1
  <2>15. /\ Good(sentDial) /\ sentDial.table = made.table
         /\ sentDial.dialEcc = made.dialEcc /\ Steady(made, sentDial)
         /\ sentDial.lastCallId = made.lastCallId
         /\ Serves(made, sentDial, {})
    <3>0. made \in Manager
      BY <2>9 DEF Good
    <3>1. Quiet(made, sentDial) /\ Steady(made, sentDial)
      BY <2>9, <3>0, SendIs
    <3>2. sentDial.told = made.told
      BY <3>0 DEF Send, Manager
    <3>3. Hung(made, sentDial)
      BY <3>0, SendHung
    <3> HIDE DEF sentDial
    <3>4. Good(sentDial) /\ Alike(made, sentDial)
      BY <2>9, <3>1, QuietIs DEF Quiet
    <3>5. made.lastCallId <= sentDial.lastCallId
      BY <2>9, <3>4, IdsAreNumbers DEF Alike
    <3>6. Serves(made, sentDial, {})
      BY <2>9, <3>2, <3>3, <3>4, <3>5, ServesSelf DEF Alike
    <3> QED
      BY <3>1, <3>4, <3>6 DEF Alike
  <2> HIDE DEF sentDial
  <2>16. Leaves(dial, sentDial, {})
    <3>1. Leaves(made, sentDial, {})
      BY <2>15 DEF Serves
    <3> QED
      BY <2>2, <2>8, <2>9, <2>15, <3>1, LeavesTrans
  <2>17. Normal(sentDial)
    <3>1. OneUnbound(sentDial)
      BY <2>10, <2>15 DEF OneUnbound, Unbound
    <3>2. Settled(sentDial)
      BY <2>10, <2>15, SteadySettles DEF Settles
    <3> QED
      BY <2>10, <2>15, <3>1, <3>2 DEF Normal
  <2>18. ASSUME Return(sentDial, "ok") PROVE Done
    <3>1. Apply(sentDial) /\ result' = "ok"
      BY <2>18 DEF Return
    <3> QED
      BY <2>12, <2>15, <2>16, <2>17, <3>1 DEF Normal
  <2>19. ASSUME made.call.id \in Ids(made.table), IsNewCallAllowedCreate(table),
                Return(failed, "failed")
         PROVE  Done
    <3> DEFINE c == CallInState(sentDial.table, "DIALING")
    <3>0. Apply(failed)
      BY <2>19 DEF Return
    <3>1. sentDial.table \in Seq(Call)
      BY <2>15, ManagerFields DEF Good
    <3>2. new \notin Ids(table)
      <4>1. \A x \in Range(dial.table) : x.id <= dial.lastCallId /\ x.id \in Nat
        BY <2>2, IdsAreNumbers
      <4> QED
        BY <2>2, <2>11, <4>1 DEF Ids
    <3>3. /\ made.call.tel = "DIALING"
          /\ Range(made.table) = Range(table) \cup {made.call}
      BY <2>9, <2>19, <3>2
    <3>4. RunningState(made.call.tel) = "DIALING"
      BY <3>3 DEF RunningState
    <3>5. c \in Range(sentDial.table) /\ RunningState(c.tel) = "DIALING"
      <4>1. made.call \in Range(sentDial.table)
        BY <2>15, <3>3
      <4>2. c # NoCall
        BY <3>1, <3>4, <4>1, CallInStateIs, RangeIs
      <4> QED
        BY <3>1, <4>2, CallInStateIs, RangeIs
    <3>6. c = made.call
      BY <2>15, <2>19, <3>3, <3>5 DEF IsNewCallAllowedCreate
    <3>7. failed = DealFailDial(sentDial, c)
      BY DEF HandleDialFail
    <3> HIDE DEF c, failed, new
    <3>8. /\ Normal(failed) /\ Handles(sentDial, failed, c.id)
          /\ Ids(failed.table) = Ids(sentDial.table) \ {c.id}
      BY <2>17, <3>5, <3>7, DealFailServes
    <3>9. c.id = new
      BY <2>9, <3>6
    <3>10. Leaves(sentDial, failed, {new}) /\ Good(failed)
      BY <3>8, <3>9 DEF Handles, Serves, Normal
    <3>11. Leaves(dial, failed, {new})
      BY <2>2, <2>15, <2>16, <3>10, LeavesTrans
    <3>12. Leaves(dial, failed, {})
      BY <2>2, <2>11, <3>11, LeavesFresh
    <3>13. NormalStep
      BY <2>12, <3>0, <3>8, <3>10, <3>12 DEF Normal
    <3>14. Ids(failed.table) = Ids(table)
      <4>1. Ids(sentDial.table) = Ids(table) \cup {new}
        BY <2>9, <2>15, <3>3 DEF Ids
      <4> QED
        BY <3>2, <3>8, <3>9, <4>1
    <3>15. table' = failed.table
      BY <3>0 DEF Apply
    <3> QED
      BY <3>13, <3>14, <3>15
  <2> QED
    BY <2>1, <2>13, <2>14, <2>18, <2>19
<1> QED
    BY <1>1, <1>2, <1>3

\* The mark of the last dial changes with a dial only.
LEMMA ControlMark ==
    ASSUME TypeInv, NEW op \in ControlOps, NEW c \in Range(table), Control(op, c)
    PROVE  dialEcc' = dialEcc
<1>1. ASSUME NEW n, n.dialEcc = dialEcc, NEW o, NEW id,
             \/ Post(n, o, id) \/ Return(n, "refused") \/ Return(n, "ok")
      PROVE  dialEcc' = dialEcc
    BY <1>1 DEF Post, Return, Apply
<1>2. ASSUME NEW o, NEW x, PolicyThenPost(o, x) PROVE dialEcc' = dialEcc
    BY <1>1, <1>2, NowIs DEF PolicyThenPost
<1>3. ASSUME NEW x, HangUpCall(x) PROVE dialEcc' = dialEcc
  <2> DEFINE n == [Now EXCEPT !.pendingMo = NoId, !.pendingHangup = x.id,
                              !.protectTask = IF @ = NoId THEN x.id ELSE @]
  <2>1. n.dialEcc = dialEcc
    BY NowIs DEF TypeInv, Good, Manager
  <2>2. \/ Return(Now, "refused") \/ Return(n, "ok") \/ Post(Now, "hangup", x.id)
    BY <1>3, Zenon DEF HangUpCall
  <2> HIDE DEF n
  <2> QED
    BY <1>1, <2>1, <2>2, NowIs
<1>4. ASSUME AnswerCall(c) PROVE dialEcc' = dialEcc
  <2> DEFINE h == Holding(Now, c)
             n == Notify(h, "INCOMING", "ANSWERED")
  <2>1. /\ Return(Now, "refused") \/ Return(n, "refused") \/ Post(n, "answer", c.id)
    BY <1>4 DEF AnswerCall
  <2>2. c \in Call /\ c # NoCall
    BY RangeIs, GoodNow, CallsAreCalls DEF TypeInv
  <2>3. Good(h) /\ h.call = c /\ h.dialEcc = dialEcc
    BY <2>2, NowIs, HoldingIs DEF TypeInv, AsBefore
  <2> HIDE DEF h
  <2>4. Alike(h, n)
    BY <2>2, <2>3, NotifyIs DEF Good
  <2> HIDE DEF n
  <2>5. n.dialEcc = dialEcc
    BY <2>3, <2>4 DEF Alike
  <2> QED
    BY <1>1, <2>1, <2>5, NowIs
<1>5. ASSUME EndCall PROVE dialEcc' = dialEcc
  <2>1. \/ Return(Now, "ok") \/ \E x : PolicyThenPost("reject", x) \/ HangUpCall(x)
    BY <1>5 DEF EndCall
  <2> QED
    BY <1>1, <1>2, <1>3, <2>1, NowIs
<1> QED
    BY <1>2, <1>3, <1>4, <1>5 DEF Control

\* Requests leave the mark of the last dial alone.
LEMMA RunRequestMark ==
    ASSUME TypeInv, NEW ok \in BOOLEAN, RunRequest(ok)
    PROVE  dialEcc' = dialEcc
<1> DEFINE r == Head(requests)
           c == CallById(table, r.id)
           h == Holding(Now, c)
           n == HandleRequest(h, r.op, ok)
<1>1. /\ requests # <<>> /\ Apply(IF c = NoCall THEN Now ELSE n)
    BY DEF RunRequest
<1>2. r \in Posted
    BY <1>1 DEF TypeInv
<1>3. CASE c = NoCall
    BY <1>1, <1>3, NowIs DEF Apply
<1>4. CASE c # NoCall
  <2>1. c \in Range(Now.table)
    BY <1>4, CallByIdIs, RangeIs, GoodNow, NowIs DEF TypeInv
  <2>2. r.op \in ControlOps \ {"end"}
    BY <1>2 DEF Posted
  <2>3. Apply(n)
    BY <1>1, <1>4
  <2> HIDE DEF c, r
  <2>4. /\ Good(h) /\ Held(h) /\ h.sent = {} /\ h.dialEcc = dialEcc
    BY <1>4, <2>1, HoldingIs, NowIs DEF TypeInv, AsBefore
  <2> HIDE DEF h
  <2>5. Requested(h, n)
    BY <2>2, <2>4, HandleRequestIs
  <2> HIDE DEF n
  <2> DEFINE o == [h EXCEPT !.sent = n.sent]
  <2>6. o.dialEcc = dialEcc
    BY <2>4 DEF Good, Manager
  <2>7. Kept(o, n, NoKey)
    BY <2>5 DEF Requested
  <2> HIDE DEF o
  <2> QED
    BY <2>3, <2>6, <2>7 DEF Kept, Apply
<1> QED
    BY <1>3, <1>4

\* So does the timeout of the protection.
LEMMA ProtectTimeoutMark ==
    ASSUME TypeInv, ProtectTimeout
    PROVE  dialEcc' = dialEcc
<1> DEFINE m == [Now EXCEPT !.protectTask = NoId]
           c == CallById(table, protectTask)
           d == IF c = NoCall THEN m ELSE DealFailDial(m, c)
           e == [d EXCEPT !.pendingHangup = NoId]
           n == IF pendingHangup = protectTask THEN e ELSE m
<1>1. Apply(n)
    BY DEF ProtectTimeout
<1>2. Good(m) /\ m.table = table /\ m.dialEcc = dialEcc
    BY NowIs DEF TypeInv, Good, Manager
<1> HIDE DEF m
<1>3. Good(d) /\ d.dialEcc = dialEcc
  <2>1. CASE c = NoCall
    BY <1>2, <2>1
  <2>2. CASE c # NoCall
    <3>1. c \in Range(m.table)
      BY <1>2, <2>2, CallByIdIs, RangeIs, GoodNow DEF TypeInv
    <3> HIDE DEF c
    <3>2. Good(DealFailDial(m, c)) /\ Kept(m, DealFailDial(m, c), NoKey)
      BY <1>2, <3>1, DealFailDialIs
    <3> QED
      BY <1>2, <2>2, <3>2 DEF Kept
  <2> QED
    BY <2>1, <2>2
<1> HIDE DEF d
<1>4. e.dialEcc = dialEcc
    BY <1>3 DEF Good, Manager
<1> HIDE DEF e
<1> QED
    BY <1>1, <1>2, <1>4 DEF Apply

\* Every step.
LEMMA NextNormal ==
    ASSUME TypeInv, Settled(Now), ~dialEcc => OneUnbound(Now), ~dialEcc', Next
    PROVE  NormalStep /\ (result' = "failed" => Ids(table') = Ids(table))
<1> DEFINE Done == NormalStep /\ (result' = "failed" => Ids(table') = Ids(table))
<1>0. ASSUME NEW n, dialEcc' = n.dialEcc, NEW info, Kept(Now, n, info)
      PROVE  ~dialEcc /\ OneUnbound(Now)
  <2>1. dialEcc' = dialEcc
    BY <1>0, NowIs DEF Kept
  <2> QED
    BY <2>1
<1>1. ASSUME NEW info \in Info, Apply(HandleCallReportInfo(Now, info))
      PROVE  NormalStep
  <2> DEFINE n == HandleCallReportInfo(Now, info)
  <2>1. info \in AnyInfo /\ info.index # InitIndex
    BY InfoIsAny, CallManagerAssumption DEF Info
  <2>2. Kept(Now, n, info)
    BY <2>1, HandleCallReportInfoIs DEF TypeInv
  <2>3. dialEcc' = n.dialEcc
    BY <1>1 DEF Apply
  <2> HIDE DEF n
  <2>4. ~dialEcc /\ OneUnbound(Now)
    BY <1>0, <2>2, <2>3
  <2> QED
    BY <1>1, <2>4, ReportNormal
<1>2. ASSUME NEW info \in Reports, ReportCall(info) PROVE Done
  <2>1. info \in Info /\ Apply(HandleCallReportInfo(Now, info)) /\ result' = "none"
    BY <1>2 DEF ReportCall, Reports
  <2> QED
    BY <1>1, <2>1
<1>3. ASSUME NEW s \in Slots, NEW list \in Lists, ReportCalls(s, list) PROVE Done
  <2>1. Apply(Now) /\ result' = "none"
    BY <1>3 DEF ReportCalls
  <2>2. table' = table /\ dialEcc' = dialEcc /\ pendingHangup' = pendingHangup
    BY <2>1, NowIs DEF Apply
  <2> QED
    BY <2>1, <2>2, StillStep
<1>4. ASSUME HandleEntry PROVE Done
  <2>1. /\ Head(todo) \in Info /\ result' = "none"
        /\ Apply(HandleCallReportInfo(Now, Head(todo)))
    BY <1>4 DEF HandleEntry, TypeInv
  <2> QED
    BY <1>1, <2>1
<1>5. ASSUME NEW event \in FailedRequests, EventResult(event) PROVE Done
  <2> DEFINE c == CallInState(table, "DIALING")
             n == DealFailDial(Now, c)
  <2>1. c # NoCall /\ Apply(n) /\ result' = event
    BY <1>5 DEF EventResult
  <2>2. c \in Range(Now.table)
    BY <2>1, CallInStateIs, RangeIs, GoodNow, NowIs DEF TypeInv
  <2> HIDE DEF c
  <2>3. Kept(Now, n, NoKey)
    BY <2>2, DealFailDialIs DEF TypeInv
  <2> HIDE DEF n
  <2>4. dialEcc' = n.dialEcc
    BY <2>1 DEF Apply
  <2>5. ~dialEcc /\ OneUnbound(Now)
    BY <1>0, <2>3, <2>4
  <2> QED
    BY <1>5, <2>1, <2>5, EventResultNormal DEF FailedRequests
<1>6. ASSUME NEW s \in Slots, NEW type \in CallTypes, NEW ecc \in BOOLEAN,
             NEW ok \in BOOLEAN, DialCall(s, type, ecc, ok)
      PROVE  Done
    BY <1>6, DialNormal
<1>7. ASSUME NEW op \in ControlOps, NEW c \in Range(table), Control(op, c) PROVE Done
  <2>1. dialEcc' = dialEcc
    BY <1>7, ControlMark
  <2>2. ~dialEcc /\ OneUnbound(Now)
    BY <2>1
  <2> QED
    BY <1>7, <2>2, ControlNormal
<1>8. ASSUME NEW ok \in BOOLEAN, RunRequest(ok) PROVE Done
  <2>1. dialEcc' = dialEcc /\ result' = "none"
    BY <1>8, RunRequestMark DEF RunRequest
  <2> QED
    BY <1>8, <2>1, RunRequestNormal
<1>9. ASSUME ProtectTimeout PROVE Done
  <2>1. dialEcc' = dialEcc /\ result' = "none"
    BY <1>9, ProtectTimeoutMark DEF ProtectTimeout
  <2> QED
    BY <1>9, <2>1, ProtectTimeoutNormal
<1> QED
    BY <1>2, <1>3, <1>4, <1>5, <1>6, <1>7, <1>8, <1>9 DEF Next

\* The invariant: as long as the last dial was no emergency call, at most one
\* call waits for its index.
NormalInv == TypeInv /\ Settled(Now) /\ (~dialEcc => OneUnbound(Now))

\* The inductive invariant of the four theorems below.
LEMMA NormalInvHolds == Spec => []NormalInv
<1>1. Init => NormalInv
  <2> SUFFICES ASSUME Init PROVE NormalInv
    OBVIOUS
  <2>1. TypeInv /\ Settled(Now)
    BY TypeInit, SettledInit
  <2>2. OneUnbound(Now)
    <3>1. Now.table = <<>>
      BY NowIs DEF Init
    <3>2. Unbound(Now) = {}
      BY <3>1 DEF Unbound, Range
    <3> QED
      BY <3>2 DEF OneUnbound
  <2> QED
    BY <2>1, <2>2 DEF NormalInv
<1>2. NormalInv /\ [Next]_vars => NormalInv'
  <2> SUFFICES ASSUME NormalInv, [Next]_vars PROVE NormalInv'
    OBVIOUS
  <2>1. CASE Next
    <3>0. TypeInv /\ Settled(Now) /\ (~dialEcc => OneUnbound(Now))
      BY DEF NormalInv
    <3>1. TypeInv' /\ \E info : Reached(info)
      BY <2>1, <3>0, NextKeeps
    <3>2. PICK n, info : Apply(n) /\ Follows(n, info)
      BY <3>1 DEF Reached
    <3>3. Settled(n)
      BY <3>0, <3>2 DEF Follows, Settles
    <3>4. Settled(Now)'
      BY <3>2, <3>3, SettledApply
    <3>5. ASSUME ~dialEcc' PROVE OneUnbound(Now)'
      BY <2>1, <3>0, <3>5, NextNormal DEF NormalStep
    <3> QED
      BY <3>1, <3>4, <3>5 DEF NormalInv
  <2>2. CASE UNCHANGED vars
    <3>1. Now' = Now /\ dialEcc' = dialEcc
      BY <2>2 DEF vars, coreVars, Now
    <3>2. TypeInv'
      BY <2>2, TypeStutter DEF NormalInv
    <3>3. Settled(Now')
      BY <3>1 DEF NormalInv
    <3>4. ~dialEcc' => OneUnbound(Now')
      BY <3>1 DEF NormalInv
    <3> QED
      BY <3>2, <3>3, <3>4 DEF NormalInv
  <2> QED
    BY <2>1, <2>2
<1> QED
    BY <1>1, <1>2, PTL DEF Spec

\* Whatever the stack reports in whatever order, the subscribers hear of every
\* change of a call's state once, and hear the state it came to, as long as the
\* last dial was no emergency call (SetTelCallState, NotifyCallStateUpdated).
THEOREM EveryTransitionIsTold == Spec => TransitionsTold
<1>1. NormalInv /\ [Next]_vars =>
         [~dialEcc' => \A id \in Ids(table) : TransitionTold(id)]_vars
    BY NextNormal DEF NormalInv, NormalStep
<1> QED
    BY <1>1, NormalInvHolds, PTL DEF Spec, TransitionsTold

\* The mark of a hang-up that was promised for a call without an index goes only
\* in the step that sends the hang-up (ClearPendingState, the protect task).
THEOREM PromisedHangUpsAreSent == Spec => HangUpsKept
<1>1. NormalInv /\ [Next]_vars => [~dialEcc' => PromiseKept]_vars
    BY NextNormal DEF NormalInv, NormalStep
<1> QED
    BY <1>1, NormalInvHolds, PTL DEF Spec, HangUpsKept

\* A dial the stack refuses at once leaves the table as it was, however full it
\* is and whatever the other calls are doing (HandleDialFail).
THEOREM FailedDialsAreClean == Spec => DialFailsClean
<1>1. NormalInv /\ [Next]_vars =>
         [~dialEcc' /\ result' = "failed" => Ids(table') = Ids(table)]_vars
    BY NextNormal DEF NormalInv
<1> QED
    BY <1>1, NormalInvHolds, PTL DEF Spec, DialFailsClean

\* No report moves a call to another slot as long as the last dial was no
\* emergency call, and no report or dial takes the mark of an emergency call
\* (UpdateDialingCallInfo, RefreshCall).
THEOREM CallsKeepTheirIdentity == Spec => IdentityKept
<1>1. NormalInv /\ [Next]_vars =>
         [~dialEcc' => \A id \in Ids(table) \cap Ids(table') :
             CallById(table', id).slot = CallById(table, id).slot]_vars
    BY NextNormal DEF NormalInv, NormalStep
<1>2. /\ [~dialEcc' => \A id \in Ids(table) \cap Ids(table') :
             CallById(table', id).slot = CallById(table, id).slot]_vars
      /\ [\A id \in Ids(table) \cap Ids(table') :
             CallById(table, id).ecc => CallById(table', id).ecc]_vars
      => [\A id \in Ids(table) \cap Ids(table') :
             LET before == CallById(table, id)
                 after == CallById(table', id)
             IN  /\ ~dialEcc' => after.slot = before.slot
                 /\ before.ecc => after.ecc]_vars
    OBVIOUS
<1> QED
    BY <1>1, <1>2, NormalInvHolds, EccMarksAreKept, PTL
       DEF Spec, IdentityKept, EccMarkKept
=============================================================================
