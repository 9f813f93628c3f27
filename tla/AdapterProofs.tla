---------------------------- MODULE AdapterProofs ----------------------------
(***************************************************************************)
(* Theorems about the OS adapters.  The timers of tel_os_adapter_posix.cpp *)
(* implement the contract of tel_os_adapter.h (OsTimers), for every set of *)
(* timers and of tasks, all delays and every length of the behaviour; then *)
(* the task slots of tel_os_adapter_cmsis.cpp, the POSIX semaphore and the *)
(* timer slots on CMSIS, each an instance with variables of its own.       *)
(***************************************************************************)
EXTENDS PosixTimers, Sequences, FiniteSetTheorems, TLAPS

-----------------------------------------------------------------------------
(***************************************************************************)
(* The timer objects: which a call is about, and what the service thread   *)
(* holds.                                                                  *)
(***************************************************************************)
IsCreating(c, t) == call[c] = [op |-> "create", timer |-> t]
IsDeleting(c, t) == call[c] = [op |-> "delete", timer |-> t]

TimersType ==
    /\ None \notin Timers
    /\ objects \subseteq Timers /\ timers \subseteq objects
    /\ armed \in [Timers -> BOOLEAN]
    /\ call \in [Callers -> Calls]
    /\ service \in {"scan", "wait", "taken", "call"}
    /\ running \in Timers \cup {None}

\* A call in progress has a timer of its own. One that is being made is in the
\* list and not armed, and those that are being deleted are what is allocated
\* and not in the list.
CallsSound ==
    /\ \A c \in Callers : call[c].op = "none" <=> call[c].timer = None
    /\ \A c, d \in Callers :
          call[c].timer = call[d].timer /\ call[c].timer # None => c = d
    /\ \A c \in Callers : \A t \in Timers :
          IsCreating(c, t) => t \in timers /\ armed[t] = FALSE
    /\ \A c \in Callers : \A t \in Timers : IsDeleting(c, t) => t \in objects \ timers
    /\ \A t \in objects \ timers : \E c \in Callers : IsDeleting(c, t)

\* The service thread holds a timer from the moment it takes it until its
\* callback has returned, and that timer is still allocated.
ServiceSound ==
    /\ running # None <=> service \in {"taken", "call"}
    /\ running # None => running \in objects

PosixInv == TimersType /\ CallsSound /\ ServiceSound

LEMMA PosixInit == None \notin Timers /\ Init => PosixInv
BY DEF Init, PosixInv, TimersType, CallsSound, ServiceSound, Idle, Calls,
       IsCreating, IsDeleting

\* What a call in progress is.
LEMMA CallIs ==
    ASSUME PosixInv, NEW c \in Callers
    PROVE  /\ call[c] \in Calls
           /\ call[c].op = "none" => call[c] = Idle
           /\ call[c].op = "create" =>
                 /\ call[c].timer \in Timers /\ IsCreating(c, call[c].timer)
           /\ call[c].op = "delete" =>
                 /\ call[c].timer \in Timers /\ IsDeleting(c, call[c].timer)
<1>1. call[c] \in Calls /\ (call[c].op = "none" <=> call[c].timer = None)
  BY DEF PosixInv, TimersType, CallsSound
<1>2. call[c] = [op |-> call[c].op, timer |-> call[c].timer]
      /\ call[c].timer \in Timers \cup {None}
  BY <1>1 DEF Calls
<1> QED BY <1>1, <1>2 DEF Idle, IsCreating, IsDeleting

-----------------------------------------------------------------------------
(***************************************************************************)
(* The invariant.                                                          *)
(***************************************************************************)
\* A call begins with a timer that no other call is about.
LEMMA CallBegins ==
    ASSUME PosixInv, NEW c \in Callers, call[c] = Idle, NEW t \in Timers,
           \A d \in Callers : call[d].timer # t, NEW op \in {"create", "delete"},
           call' = [call EXCEPT ![c] = [op |-> op, timer |-> t]]
    PROVE  /\ call' \in [Callers -> Calls]
           /\ call'[c] = [op |-> op, timer |-> t]
           /\ \A d \in Callers \ {c} : call'[d] = call[d]
           /\ \A d \in Callers : call'[d].op = "none" <=> call'[d].timer = None
           /\ \A d, e \in Callers :
                 call'[d].timer = call'[e].timer /\ call'[d].timer # None => d = e
<1>1. /\ call \in [Callers -> Calls] /\ None \notin Timers
      /\ \A d \in Callers : call[d].op = "none" <=> call[d].timer = None
      /\ \A d, e \in Callers :
            call[d].timer = call[e].timer /\ call[d].timer # None => d = e
  BY DEF PosixInv, TimersType, CallsSound
<1> DEFINE new == [op |-> op, timer |-> t]
<1>2. new \in Calls /\ new.op # "none" /\ new.timer = t
  BY DEF Calls
<1> HIDE DEF new
<1>3. /\ call' \in [Callers -> Calls]
      /\ call'[c] = new /\ \A d \in Callers \ {c} : call'[d] = call[d]
  BY <1>1, <1>2 DEF new
<1>4. \A d \in Callers : call'[d].op = "none" <=> call'[d].timer = None
  BY <1>1, <1>2, <1>3
<1>5. \A d, e \in Callers :
         call'[d].timer = call'[e].timer /\ call'[d].timer # None => d = e
  BY <1>1, <1>2, <1>3
<1> QED BY <1>3, <1>4, <1>5 DEF new

\* It ends, and its timer is free for another.
LEMMA CallEnds ==
    ASSUME PosixInv, NEW c \in Callers, call' = [call EXCEPT ![c] = Idle]
    PROVE  /\ call' \in [Callers -> Calls]
           /\ call'[c] = Idle
           /\ \A d \in Callers \ {c} : call'[d] = call[d]
           /\ \A d \in Callers : call'[d].op = "none" <=> call'[d].timer = None
           /\ \A d, e \in Callers :
                 call'[d].timer = call'[e].timer /\ call'[d].timer # None => d = e
<1>1. /\ call \in [Callers -> Calls] /\ Idle \in Calls
      /\ Idle.op = "none" /\ Idle.timer = None
      /\ \A d \in Callers : call[d].op = "none" <=> call[d].timer = None
      /\ \A d, e \in Callers :
            call[d].timer = call[e].timer /\ call[d].timer # None => d = e
  BY DEF PosixInv, TimersType, CallsSound, Idle, Calls
<1> HIDE DEF Idle
<1>2. /\ call' \in [Callers -> Calls]
      /\ call'[c] = Idle /\ \A d \in Callers \ {c} : call'[d] = call[d]
  BY <1>1
<1>3. \A d \in Callers : call'[d].op = "none" <=> call'[d].timer = None
  BY <1>1, <1>2
<1>4. \A d, e \in Callers :
         call'[d].timer = call'[e].timer /\ call'[d].timer # None => d = e
  BY <1>1, <1>2
<1> QED BY <1>2, <1>3, <1>4

\* A timer in the list that no call is about: its owner may use it.
LEMMA UsableTimer ==
    ASSUME PosixInv, NEW t \in Timers, Usable(t)
    PROVE  /\ t \in timers /\ t \in objects
           /\ \A c \in Callers : ~IsCreating(c, t) /\ ~IsDeleting(c, t)
BY DEF PosixInv, TimersType, Usable, IsCreating, IsDeleting

LEMMA LinkInv ==
    ASSUME PosixInv, NEW c \in Callers, Link(c)
    PROVE  PosixInv'
<1>1. PICK t \in Timers \ objects :
         /\ objects' = objects \cup {t} /\ timers' = timers \cup {t}
         /\ armed' = [armed EXCEPT ![t] = FALSE]
         /\ call' = [call EXCEPT ![c] = [op |-> "create", timer |-> t]]
  BY DEF Link
<1>2. call[c] = Idle /\ UNCHANGED <<running, service>>
  BY DEF Link, Free, serviceVars
<1>3. \A d \in Callers : call[d].timer # t
  <2> SUFFICES ASSUME NEW d \in Callers, call[d].timer = t PROVE FALSE
    OBVIOUS
  <2>1. call[d].op \in {"create", "delete"}
    BY CallIs DEF PosixInv, TimersType, Calls, Idle
  <2>2. IsCreating(d, t) \/ IsDeleting(d, t)
    BY <2>1, CallIs
  <2> QED BY <2>2 DEF PosixInv, TimersType, CallsSound
<1>4. /\ call' \in [Callers -> Calls]
      /\ call'[c] = [op |-> "create", timer |-> t]
      /\ \A d \in Callers \ {c} : call'[d] = call[d]
      /\ \A d \in Callers : call'[d].op = "none" <=> call'[d].timer = None
      /\ \A d, e \in Callers :
            call'[d].timer = call'[e].timer /\ call'[d].timer # None => d = e
  BY <1>1, <1>2, <1>3, CallBegins
<1>5. /\ armed' \in [Timers -> BOOLEAN] /\ armed'[t] = FALSE
      /\ \A u \in Timers \ {t} : armed'[u] = armed[u]
  BY <1>1 DEF PosixInv, TimersType
<1>6. TimersType'
  BY <1>1, <1>2, <1>4, <1>5 DEF PosixInv, TimersType
<1>7. ASSUME NEW d \in Callers, NEW u \in Timers, IsCreating(d, u)'
      PROVE  u \in timers' /\ armed'[u] = FALSE
  <2>1. CASE d = c
    BY <1>1, <1>4, <1>5, <1>7, <2>1 DEF IsCreating
  <2>2. CASE d # c
    <3>1. IsCreating(d, u) /\ u # t
      BY <1>3, <1>4, <1>7, <2>2 DEF IsCreating
    <3> QED BY <1>1, <1>5, <3>1 DEF PosixInv, CallsSound
  <2> QED BY <2>1, <2>2
<1>8. ASSUME NEW d \in Callers, NEW u \in Timers, IsDeleting(d, u)'
      PROVE  u \in objects' \ timers'
  <2>1. d # c
    BY <1>4, <1>8 DEF IsDeleting
  <2>2. IsDeleting(d, u) /\ u # t
    BY <1>3, <1>4, <1>8, <2>1 DEF IsDeleting
  <2> QED BY <1>1, <2>2 DEF PosixInv, CallsSound
<1>9. ASSUME NEW u \in objects' \ timers'
      PROVE  \E d \in Callers : IsDeleting(d, u)'
  <2>1. u \in objects \ timers
    BY <1>1, <1>9
  <2>2. PICK d \in Callers : IsDeleting(d, u)
    BY <2>1 DEF PosixInv, CallsSound
  <2>3. d # c
    BY <1>2, <2>2 DEF IsDeleting, Idle
  <2> QED BY <1>4, <2>2, <2>3 DEF IsDeleting
<1>10. CallsSound'
  BY <1>4, <1>7, <1>8, <1>9 DEF CallsSound
<1>11. ServiceSound'
  BY <1>1, <1>2 DEF PosixInv, ServiceSound
<1> QED BY <1>6, <1>10, <1>11 DEF PosixInv

LEMMA UnlinkInv ==
    ASSUME PosixInv, NEW c \in Callers, NEW t \in Timers, Unlink(c, t)
    PROVE  PosixInv'
<1>1. /\ call[c] = Idle /\ Usable(t)
      /\ timers' = timers \ {t}
      /\ call' = [call EXCEPT ![c] = [op |-> "delete", timer |-> t]]
      /\ UNCHANGED <<objects, armed, running, service>>
  BY DEF Unlink, Free, armVars, serviceVars
<1>2. /\ t \in timers /\ t \in objects
      /\ \A d \in Callers : ~IsCreating(d, t) /\ ~IsDeleting(d, t)
      /\ \A d \in Callers : call[d].timer # t
  BY <1>1, UsableTimer DEF Usable
<1>3. /\ call' \in [Callers -> Calls]
      /\ call'[c] = [op |-> "delete", timer |-> t]
      /\ \A d \in Callers \ {c} : call'[d] = call[d]
      /\ \A d \in Callers : call'[d].op = "none" <=> call'[d].timer = None
      /\ \A d, e \in Callers :
            call'[d].timer = call'[e].timer /\ call'[d].timer # None => d = e
  BY <1>1, <1>2, CallBegins
<1>4. TimersType'
  BY <1>1, <1>3 DEF PosixInv, TimersType
<1>5. ASSUME NEW d \in Callers, NEW u \in Timers, IsCreating(d, u)'
      PROVE  u \in timers' /\ armed'[u] = FALSE
  <2>1. d # c
    BY <1>3, <1>5 DEF IsCreating
  <2>2. IsCreating(d, u) /\ u # t
    BY <1>2, <1>3, <1>5, <2>1 DEF IsCreating
  <2> QED BY <1>1, <2>2 DEF PosixInv, CallsSound
<1>6. ASSUME NEW d \in Callers, NEW u \in Timers, IsDeleting(d, u)'
      PROVE  u \in objects' \ timers'
  <2>1. CASE d = c
    BY <1>1, <1>2, <1>3, <1>6, <2>1 DEF IsDeleting
  <2>2. CASE d # c
    <3>1. IsDeleting(d, u)
      BY <1>3, <1>6, <2>2 DEF IsDeleting
    <3> QED BY <1>1, <3>1 DEF PosixInv, CallsSound
  <2> QED BY <2>1, <2>2
<1>7. ASSUME NEW u \in objects' \ timers'
      PROVE  \E d \in Callers : IsDeleting(d, u)'
  <2>1. CASE u = t
    BY <1>3, <2>1 DEF IsDeleting
  <2>2. CASE u # t
    <3>1. u \in objects \ timers
      BY <1>1, <1>7, <2>2
    <3>2. PICK d \in Callers : IsDeleting(d, u)
      BY <3>1 DEF PosixInv, CallsSound
    <3>3. d # c
      BY <1>1, <3>2 DEF IsDeleting, Idle
    <3> QED BY <1>3, <3>2, <3>3 DEF IsDeleting
  <2> QED BY <2>1, <2>2
<1>8. CallsSound'
  BY <1>3, <1>5, <1>6, <1>7 DEF CallsSound
<1>9. ServiceSound'
  BY <1>1 DEF PosixInv, ServiceSound
<1> QED BY <1>4, <1>8, <1>9 DEF PosixInv

LEMMA CreatedInv ==
    ASSUME PosixInv, NEW c \in Callers, Created(c)
    PROVE  PosixInv'
<1>1. /\ call[c].op = "create" /\ call' = [call EXCEPT ![c] = Idle]
      /\ UNCHANGED <<objects, timers, armed, running, service>>
  BY DEF Created, armVars, serviceVars
<1>2. /\ call' \in [Callers -> Calls] /\ call'[c] = Idle
      /\ \A d \in Callers \ {c} : call'[d] = call[d]
      /\ \A d \in Callers : call'[d].op = "none" <=> call'[d].timer = None
      /\ \A d, e \in Callers :
            call'[d].timer = call'[e].timer /\ call'[d].timer # None => d = e
  BY <1>1, CallEnds
<1>3. TimersType' /\ ServiceSound'
  BY <1>1, <1>2 DEF PosixInv, TimersType, ServiceSound
<1>4. ASSUME NEW d \in Callers, NEW u \in Timers
      PROVE  /\ IsCreating(d, u)' => IsCreating(d, u)
             /\ IsDeleting(d, u)' <=> IsDeleting(d, u)
  <2>1. CASE d = c
    BY <1>1, <1>2, <2>1 DEF IsCreating, IsDeleting, Idle
  <2>2. CASE d # c
    BY <1>2, <2>2 DEF IsCreating, IsDeleting
  <2> QED BY <2>1, <2>2
<1>5. \A u \in objects \ timers : u \in Timers
  BY DEF PosixInv, TimersType
<1>6. CallsSound'
  BY <1>1, <1>2, <1>4, <1>5 DEF PosixInv, CallsSound
<1> QED BY <1>3, <1>6 DEF PosixInv

LEMMA DeletedInv ==
    ASSUME PosixInv, NEW c \in Callers, Deleted(c)
    PROVE  PosixInv'
<1> DEFINE t == call[c].timer
<1>1. /\ call[c].op = "delete" /\ call' = [call EXCEPT ![c] = Idle]
      /\ objects' = objects \ {t} /\ running # t
      /\ UNCHANGED <<timers, armed, running, service>>
  BY DEF Deleted, armVars, serviceVars
<1>2. /\ call' \in [Callers -> Calls] /\ call'[c] = Idle
      /\ \A d \in Callers \ {c} : call'[d] = call[d]
      /\ \A d \in Callers : call'[d].op = "none" <=> call'[d].timer = None
      /\ \A d, e \in Callers :
            call'[d].timer = call'[e].timer /\ call'[d].timer # None => d = e
  BY <1>1, CallEnds
<1>3. t \in Timers /\ IsDeleting(c, t) /\ t \in objects \ timers /\ t # None
  <2>1. t \in Timers /\ IsDeleting(c, t)
    BY <1>1, CallIs
  <2> QED BY <2>1 DEF PosixInv, TimersType, CallsSound
<1>4. \A d \in Callers \ {c} : call[d].timer # t
  BY <1>3 DEF PosixInv, CallsSound
<1> HIDE DEF t
<1>5. TimersType' /\ ServiceSound'
  BY <1>1, <1>2, <1>3 DEF PosixInv, TimersType, ServiceSound
<1>6. ASSUME NEW d \in Callers, NEW u \in Timers
      PROVE  /\ IsCreating(d, u)' => IsCreating(d, u)
             /\ IsDeleting(d, u)' <=> IsDeleting(d, u) /\ u # t
  <2>1. CASE d = c
    <3>1. IsDeleting(c, u) => u = t
      BY DEF IsDeleting, t
    <3> QED BY <1>1, <1>2, <2>1, <3>1 DEF IsCreating, IsDeleting, Idle
  <2>2. CASE d # c
    <3>1. IsDeleting(d, u) => u # t
      BY <1>4, <2>2 DEF IsDeleting
    <3> QED BY <1>2, <2>2, <3>1 DEF IsCreating, IsDeleting
  <2> QED BY <2>1, <2>2
<1>7. \A u \in objects \ timers : u \in Timers
  BY DEF PosixInv, TimersType
<1>8. CallsSound'
  BY <1>1, <1>2, <1>6, <1>7 DEF PosixInv, CallsSound
<1> QED BY <1>5, <1>8 DEF PosixInv

\* The other steps leave the calls and the list as they are, and arm no timer
\* that is being made.
LEMMA QuietInv ==
    ASSUME PosixInv, UNCHANGED <<objects, timers, call>>, ServiceSound',
           service' \in {"scan", "wait", "taken", "call"},
           running' \in Timers \cup {None}, armed' \in [Timers -> BOOLEAN],
           \A t \in Timers :
              armed'[t] = armed[t] \/ armed'[t] = FALSE
              \/ \A c \in Callers : ~IsCreating(c, t)
    PROVE  PosixInv'
<1>1. TimersType'
  BY DEF PosixInv, TimersType
<1>2. ASSUME NEW c \in Callers, NEW t \in Timers
      PROVE  /\ IsCreating(c, t)' <=> IsCreating(c, t)
             /\ IsDeleting(c, t)' <=> IsDeleting(c, t)
  BY DEF IsCreating, IsDeleting
<1>3. \A u \in objects \ timers : u \in Timers
  BY DEF PosixInv, TimersType
<1>4. ASSUME NEW c \in Callers, NEW t \in Timers, IsCreating(c, t)
      PROVE  t \in timers /\ armed'[t] = FALSE
  BY <1>4 DEF PosixInv, CallsSound
<1>5. CallsSound'
  BY <1>2, <1>3, <1>4 DEF PosixInv, CallsSound
<1> QED BY <1>1, <1>5 DEF PosixInv

\* Start and Stop.
LEMMA ArmInv ==
    ASSUME PosixInv, NEW t \in Timers, Usable(t), NEW b \in BOOLEAN,
           armed' = [armed EXCEPT ![t] = b],
           UNCHANGED <<objects, timers, call, running, service>>
    PROVE  PosixInv'
<1>1. /\ armed' \in [Timers -> BOOLEAN]
      /\ \A u \in Timers \ {t} : armed'[u] = armed[u]
  BY DEF PosixInv, TimersType
<1>2. \A c \in Callers : ~IsCreating(c, t)
  BY UsableTimer
<1>3. /\ service' \in {"scan", "wait", "taken", "call"}
      /\ running' \in Timers \cup {None} /\ ServiceSound'
  BY DEF PosixInv, TimersType, ServiceSound
<1> QED BY <1>1, <1>2, <1>3, QuietInv

LEMMA ServiceInv ==
    ASSUME PosixInv, ServiceStep
    PROVE  PosixInv'
<1> USE DEF listVars, armVars
<1>0. TimersType /\ ServiceSound
  BY DEF PosixInv
<1>1. CASE Wait \/ Wake \/ Run \/ Return
  <2>1. /\ UNCHANGED <<objects, timers, call, armed>>
        /\ service' \in {"scan", "wait", "taken", "call"}
        /\ running' \in Timers \cup {None} /\ ServiceSound'
    BY <1>0, <1>1 DEF Wait, Wake, Run, Return, TimersType, ServiceSound
  <2>2. armed' \in [Timers -> BOOLEAN]
    BY <1>0, <2>1 DEF TimersType
  <2> QED BY <2>1, <2>2, QuietInv
<1>2. CASE Take
  <2>1. PICK t \in timers : armed' = [armed EXCEPT ![t] = FALSE] /\ running' = t
    BY <1>2 DEF Take
  <2>2. t \in Timers /\ t \in objects
    BY <1>0 DEF TimersType
  <2>3. /\ armed' \in [Timers -> BOOLEAN]
        /\ \A u \in Timers : armed'[u] = armed[u] \/ armed'[u] = FALSE
    BY <1>0, <2>1, <2>2 DEF TimersType
  <2>4. /\ UNCHANGED <<objects, timers, call>> /\ service' = "taken"
        /\ ServiceSound'
    BY <1>0, <1>2, <2>1, <2>2 DEF Take, ServiceSound, TimersType
  <2> QED BY <2>1, <2>2, <2>3, <2>4, QuietInv
<1> QED BY <1>1, <1>2 DEF ServiceStep

-----------------------------------------------------------------------------
(***************************************************************************)
(* g_timerCount: a timer is counted after it is linked, and no longer when *)
(* it is freed.                                                            *)
(***************************************************************************)
InCreate == {c \in Callers : call[c].op = "create"}
Counted ==
    /\ IsFiniteSet(objects) /\ IsFiniteSet(InCreate)
    /\ count \in Int /\ count + Cardinality(InCreate) = Cardinality(objects)

LEMMA CountInit == Init => Counted
<1> SUFFICES ASSUME Init PROVE Counted
  OBVIOUS
<1>1. InCreate = {} /\ objects = {} /\ count = 0
  BY DEF Init, InCreate, Idle
<1> QED BY <1>1, FS_EmptySet DEF Counted

LEMMA LinkCounts ==
    ASSUME PosixInv, Counted, NEW c \in Callers, Link(c)
    PROVE  Counted'
<1>1. PICK t \in Timers \ objects :
         /\ objects' = objects \cup {t}
         /\ call' = [call EXCEPT ![c] = [op |-> "create", timer |-> t]]
  BY DEF Link
<1>2. call[c] = Idle /\ count' = count /\ call \in [Callers -> Calls]
  BY DEF Link, Free, PosixInv, TimersType
<1>3. InCreate' = InCreate \cup {c} /\ c \notin InCreate
  BY <1>1, <1>2 DEF InCreate, Idle
<1>4. /\ IsFiniteSet(objects') /\ Cardinality(objects') = Cardinality(objects) + 1
      /\ IsFiniteSet(InCreate') /\ Cardinality(InCreate') = Cardinality(InCreate) + 1
  BY <1>1, <1>3, FS_AddElement DEF Counted
<1>5. Cardinality(objects) \in Nat /\ Cardinality(InCreate) \in Nat
  BY FS_CardinalityType DEF Counted
<1> QED BY <1>2, <1>4, <1>5 DEF Counted

LEMMA CreatedCounts ==
    ASSUME PosixInv, Counted, NEW c \in Callers, Created(c)
    PROVE  Counted'
<1>1. /\ call[c].op = "create" /\ call' = [call EXCEPT ![c] = Idle]
      /\ objects' = objects /\ count' = count + 1 /\ call \in [Callers -> Calls]
  BY DEF Created, PosixInv, TimersType
<1>2. InCreate' = InCreate \ {c} /\ c \in InCreate
  BY <1>1 DEF InCreate, Idle
<1>3. IsFiniteSet(InCreate') /\ Cardinality(InCreate') = Cardinality(InCreate) - 1
  BY <1>2, FS_RemoveElement DEF Counted
<1>4. Cardinality(objects) \in Nat /\ Cardinality(InCreate) \in Nat
  BY FS_CardinalityType DEF Counted
<1> QED BY <1>1, <1>3, <1>4 DEF Counted

LEMMA DeletedCounts ==
    ASSUME PosixInv, Counted, NEW c \in Callers, Deleted(c)
    PROVE  Counted'
<1>1. /\ call[c].op = "delete" /\ call' = [call EXCEPT ![c] = Idle]
      /\ objects' = objects \ {call[c].timer} /\ count' = count - 1
      /\ call \in [Callers -> Calls]
  BY DEF Deleted, PosixInv, TimersType
<1>2. InCreate' = InCreate
  BY <1>1 DEF InCreate, Idle
<1>3. call[c].timer \in objects
  <2>1. call[c].timer \in Timers /\ IsDeleting(c, call[c].timer)
    BY <1>1, CallIs
  <2> QED BY <2>1 DEF PosixInv, CallsSound
<1>4. IsFiniteSet(objects') /\ Cardinality(objects') = Cardinality(objects) - 1
  BY <1>1, <1>3, FS_RemoveElement DEF Counted
<1>5. Cardinality(objects) \in Nat /\ Cardinality(InCreate) \in Nat
  BY FS_CardinalityType DEF Counted
<1> QED BY <1>1, <1>2, <1>4, <1>5 DEF Counted

LEMMA UnlinkCounts ==
    ASSUME PosixInv, Counted, NEW c \in Callers, NEW t \in Timers, Unlink(c, t)
    PROVE  Counted'
<1>1. /\ call[c] = Idle /\ UNCHANGED <<objects, count>>
      /\ call' = [call EXCEPT ![c] = [op |-> "delete", timer |-> t]]
      /\ call \in [Callers -> Calls]
  BY DEF Unlink, Free, PosixInv, TimersType
<1>2. InCreate' = InCreate
  BY <1>1 DEF InCreate, Idle
<1> QED BY <1>1, <1>2 DEF Counted

\* The other steps count nothing.
LEMMA QuietCounts ==
    ASSUME Counted, UNCHANGED <<objects, count, call>>
    PROVE  Counted'
<1>1. InCreate' = InCreate
  BY DEF InCreate
<1> QED BY <1>1 DEF Counted

-----------------------------------------------------------------------------
(***************************************************************************)
(* Every step is a step of OsTimers, or none.                              *)
(***************************************************************************)
\* The other two expressions that stand for variables of OsTimers.
Owed == [t \in Timers |-> IF service = "taken" /\ running = t THEN 1 ELSE 0]
InCallback == IF service = "call" THEN running ELSE None

LEMMA ContractVars == Contract!vars = <<timerState, Owed, InCallback, answer>>
BY DEF Contract!vars, Owed, InCallback

\* What OsTimers sees of a timer.
LEMMA StateOfTimer ==
    ASSUME PosixInv, NEW t \in Timers
    PROVE  /\ t \notin objects => timerState[t] = "none"
           /\ Creating(t) => timerState[t] = "none"
           /\ t \in objects \ timers => timerState[t] = "closing"
           /\ t \in timers /\ ~Creating(t) =>
                 timerState[t] = IF armed[t] THEN "pending" ELSE "idle"
<1>1. t \in objects \ timers => ~Creating(t)
  BY DEF PosixInv, CallsSound, Creating, IsCreating
<1>2. t \in timers => t \in objects
  BY DEF PosixInv, TimersType
<1> QED BY <1>1, <1>2 DEF timerState

\* A step that concerns one timer, and one that concerns none.
LEMMA OneTimerChanges ==
    ASSUME NEW t \in Timers, NEW st, timerState'[t] = st,
           \A u \in Timers \ {t} : timerState'[u] = timerState[u]
    PROVE  timerState' = [timerState EXCEPT ![t] = st]
<1>1. \A u \in Timers : timerState'[u] = [timerState EXCEPT ![t] = st][u]
  BY DEF timerState
<1> QED BY <1>1 DEF timerState

LEMMA NoTimerChanges ==
    ASSUME \A u \in Timers : timerState'[u] = timerState[u]
    PROVE  timerState' = timerState
BY DEF timerState

LEMMA SameTimer ==
    ASSUME NEW t \in Timers, t \in objects' <=> t \in objects,
           t \in timers' <=> t \in timers, armed'[t] = armed[t],
           Creating(t)' <=> Creating(t)
    PROVE  timerState'[t] = timerState[t]
BY DEF timerState

\* A call that begins or ends makes or unmakes its own timer only.
LEMMA OtherCreating ==
    ASSUME call \in [Callers -> Calls], NEW c \in Callers, NEW new \in Calls,
           call' = [call EXCEPT ![c] = new], NEW t,
           new # [op |-> "create", timer |-> t], ~IsCreating(c, t)
    PROVE  Creating(t)' <=> Creating(t)
<1>1. call'[c] = new /\ \A d \in Callers \ {c} : call'[d] = call[d]
  OBVIOUS
<1> QED BY <1>1 DEF Creating, IsCreating

StepOfContract == [Contract!Next]_(Contract!vars)

\* Nothing that OsTimers sees.
LEMMA Stutters ==
    ASSUME timerState' = timerState, Owed' = Owed, InCallback' = InCallback,
           answer' = answer
    PROVE  StepOfContract
BY ContractVars, Zenon DEF StepOfContract, Contract!vars, Owed, InCallback

LEMMA LinkStep ==
    ASSUME PosixInv, NEW c \in Callers, Link(c)
    PROVE  StepOfContract
<1>1. PICK t \in Timers \ objects :
         /\ objects' = objects \cup {t} /\ timers' = timers \cup {t}
         /\ armed' = [armed EXCEPT ![t] = FALSE]
         /\ call' = [call EXCEPT ![c] = [op |-> "create", timer |-> t]]
  BY DEF Link
<1>2. /\ call[c] = Idle /\ UNCHANGED <<running, service, answer>>
      /\ call \in [Callers -> Calls] /\ armed \in [Timers -> BOOLEAN]
      /\ [op |-> "create", timer |-> t] \in Calls
  BY DEF Link, Free, serviceVars, PosixInv, TimersType, Calls
<1>3. timerState'[t] = timerState[t]
  <2>1. timerState[t] = "none"
    BY <1>1, StateOfTimer
  <2>2. Creating(t)'
    BY <1>1, <1>2 DEF Creating
  <2> QED BY <2>1, <2>2 DEF timerState
<1>4. ASSUME NEW u \in Timers \ {t} PROVE timerState'[u] = timerState[u]
  <2>1. ~IsCreating(c, u) /\ [op |-> "create", timer |-> t] # [op |-> "create", timer |-> u]
    BY <1>2, <1>4 DEF IsCreating, Idle
  <2>2. Creating(u)' <=> Creating(u)
    BY <1>1, <1>2, <2>1, OtherCreating
  <2>3. armed'[u] = armed[u]
    BY <1>1, <1>2
  <2> QED BY <1>1, <2>2, <2>3, SameTimer
<1>5. timerState' = timerState
  BY <1>3, <1>4, NoTimerChanges
<1>6. Owed' = Owed /\ InCallback' = InCallback
  BY <1>2 DEF Owed, InCallback
<1> QED BY <1>2, <1>5, <1>6, Stutters

LEMMA CreatedStep ==
    ASSUME PosixInv, NEW c \in Callers, Created(c)
    PROVE  StepOfContract
<1>0. PICK t : t = call[c].timer
  OBVIOUS
<1>1. /\ call[c].op = "create" /\ call' = [call EXCEPT ![c] = Idle]
      /\ UNCHANGED <<objects, timers, armed, running, service>>
      /\ answer' = [timer |-> t, result |-> "OK"]
      /\ call \in [Callers -> Calls] /\ Idle \in Calls
  BY <1>0 DEF Created, armVars, serviceVars, Answer, PosixInv, TimersType, Calls, Idle
<1>2. /\ t \in Timers /\ IsCreating(c, t) /\ t \in timers /\ t \in objects
      /\ armed[t] = FALSE /\ t # None
  <2>1. t \in Timers /\ IsCreating(c, t)
    BY <1>0, <1>1, CallIs
  <2> QED BY <2>1 DEF PosixInv, TimersType, CallsSound
<1>3. \A d \in Callers \ {c} : call[d].timer # t
  BY <1>0, <1>2 DEF PosixInv, CallsSound
<1>4. Creating(t)
  BY <1>2 DEF Creating, IsCreating
<1>5. ~Creating(t)'
  <2> SUFFICES ASSUME NEW d \in Callers, call'[d] = [op |-> "create", timer |-> t]
               PROVE  FALSE
    BY DEF Creating
  <2>1. CASE d = c
    BY <1>1, <2>1 DEF Idle
  <2>2. CASE d # c
    <3>1. call'[d] = call[d]
      BY <1>1, <2>2
    <3> QED BY <1>3, <2>2, <3>1
  <2> QED BY <2>1, <2>2
<1>6. timerState[t] = "none"
  BY <1>2, <1>4, StateOfTimer
<1>7. timerState'[t] = "idle"
  <2>1. t \in Timers /\ t \in objects' /\ t \in timers' /\ ~armed'[t]
    BY <1>1, <1>2
  <2> QED BY <1>5, <2>1 DEF timerState
<1>8. ASSUME NEW u \in Timers \ {t} PROVE timerState'[u] = timerState[u]
  <2>1. ~IsCreating(c, u) /\ Idle # [op |-> "create", timer |-> u]
    BY <1>8, <1>2 DEF IsCreating, Idle
  <2>2. Creating(u)' <=> Creating(u)
    BY <1>1, <2>1, OtherCreating
  <2> QED BY <1>1, <2>2, SameTimer
<1>9. timerState' = [timerState EXCEPT ![t] = "idle"]
  BY <1>2, <1>7, <1>8, OneTimerChanges
<1>10. Owed' = Owed /\ InCallback' = InCallback
  BY <1>1 DEF Owed, InCallback
<1>11. Contract!Create(t)
  BY <1>1, <1>6, <1>9, <1>10 DEF Contract!Create, Contract!Answer, Owed, InCallback
<1> QED BY <1>2, <1>11 DEF StepOfContract, Contract!Next

\* A step that arms or disarms a timer in use.
LEMMA ArmChanges ==
    ASSUME PosixInv, NEW t \in Timers, Usable(t), NEW b \in BOOLEAN,
           armed' = [armed EXCEPT ![t] = b],
           UNCHANGED <<objects, timers, call, running, service>>
    PROVE  /\ timerState[t] = IF armed[t] THEN "pending" ELSE "idle"
           /\ timerState' = [timerState EXCEPT ![t] = IF b THEN "pending" ELSE "idle"]
           /\ Owed' = Owed /\ InCallback' = InCallback
<1>1. t \in timers /\ t \in objects /\ ~Creating(t)
  BY UsableTimer DEF Creating, IsCreating
<1>2. timerState[t] = IF armed[t] THEN "pending" ELSE "idle"
  BY <1>1, StateOfTimer
<1>3. /\ armed'[t] = b /\ \A u \in Timers \ {t} : armed'[u] = armed[u]
      /\ \A u : Creating(u)' <=> Creating(u)
  BY DEF PosixInv, TimersType, Creating
<1>4. timerState'[t] = IF b THEN "pending" ELSE "idle"
  BY <1>1, <1>3 DEF timerState
<1>5. \A u \in Timers \ {t} : timerState'[u] = timerState[u]
  BY <1>3, SameTimer
<1> DEFINE st == IF b THEN "pending" ELSE "idle"
<1> HIDE DEF st
<1>6. timerState' = [timerState EXCEPT ![t] = st]
  BY <1>4, <1>5, OneTimerChanges DEF st
<1>7. Owed' = Owed /\ InCallback' = InCallback
  BY DEF Owed, InCallback
<1> QED BY <1>2, <1>6, <1>7 DEF st

LEMMA StartStep ==
    ASSUME PosixInv, NEW c \in Callers, NEW t \in Timers, NEW d, Start(c, t, d)
    PROVE  PosixInv' /\ StepOfContract
<1>1. /\ Usable(t) /\ armed' = [armed EXCEPT ![t] = TRUE]
      /\ UNCHANGED <<objects, timers, call, running, service>>
      /\ answer' = [timer |-> t, result |-> "OK"]
  BY DEF Start, listVars, serviceVars, Answer
<1>2. /\ timerState[t] \in {"idle", "pending"}
      /\ timerState' = [timerState EXCEPT ![t] = "pending"]
      /\ Owed' = Owed /\ InCallback' = InCallback
  BY <1>1, ArmChanges
<1>3. Contract!Start(t)
  BY <1>1, <1>2 DEF Contract!Start, Contract!Answer, Owed, InCallback
<1>4. PosixInv'
  BY <1>1, ArmInv
<1> QED BY <1>3, <1>4 DEF StepOfContract, Contract!Next

LEMMA StopStep ==
    ASSUME PosixInv, NEW c \in Callers, NEW t \in Timers, Stop(c, t)
    PROVE  PosixInv' /\ StepOfContract
<1>1. /\ Usable(t) /\ armed' = [armed EXCEPT ![t] = FALSE]
      /\ UNCHANGED <<objects, timers, call, running, service>>
      /\ answer' = [timer |-> t, result |-> IF armed[t] THEN "OK" ELSE "FAIL"]
  BY DEF Stop, listVars, serviceVars, Answer
<1>2. /\ timerState[t] = IF armed[t] THEN "pending" ELSE "idle"
      /\ timerState' = [timerState EXCEPT ![t] = "idle"]
      /\ Owed' = Owed /\ InCallback' = InCallback
  BY <1>1, ArmChanges
<1>3. answer' = [timer |-> t, result |-> IF timerState[t] = "pending" THEN "OK" ELSE "FAIL"]
  BY <1>1, <1>2
<1>4. Contract!Stop(t)
  BY <1>2, <1>3 DEF Contract!Stop, Contract!Answer, Owed, InCallback
<1>5. PosixInv'
  BY <1>1, ArmInv
<1> QED BY <1>4, <1>5 DEF StepOfContract, Contract!Next

LEMMA RefuseDeleteStep ==
    ASSUME PosixInv, NEW c \in Callers, NEW t \in Timers, RefuseDelete(c, t)
    PROVE  StepOfContract
<1>1. /\ UNCHANGED <<objects, timers, call, armed, running, service>>
      /\ answer' = [timer |-> t, result |-> "INVALID_PARAM"]
      /\ (running = t /\ c = Service /\ service = "call") \/ t \notin timers
  BY DEF RefuseDelete, Free, listVars, armVars, serviceVars, Answer
<1>2. timerState[t] \in {"none", "closing"} \/ InCallback = t
  BY <1>1, StateOfTimer DEF InCallback
<1>3. timerState' = timerState /\ Owed' = Owed /\ InCallback' = InCallback
  BY <1>1 DEF timerState, Creating, Owed, InCallback
<1>4. Contract!RefuseDelete(t)
  BY <1>1, <1>2, <1>3 DEF Contract!RefuseDelete, Contract!Answer, Owed, InCallback
<1> QED BY <1>4 DEF StepOfContract, Contract!Next

LEMMA UnlinkStep ==
    ASSUME PosixInv, NEW c \in Callers, NEW t \in Timers, Unlink(c, t)
    PROVE  StepOfContract
<1>1. /\ call[c] = Idle /\ Usable(t)
      /\ timers' = timers \ {t}
      /\ call' = [call EXCEPT ![c] = [op |-> "delete", timer |-> t]]
      /\ UNCHANGED <<objects, armed, running, service, answer>>
      /\ call \in [Callers -> Calls] /\ [op |-> "delete", timer |-> t] \in Calls
  BY DEF Unlink, Free, armVars, serviceVars, PosixInv, TimersType, Calls
<1>2. t \in timers /\ t \in objects /\ ~Creating(t)
  BY <1>1, UsableTimer DEF Creating, IsCreating
<1>3. \A u : Creating(u)' <=> Creating(u)
  <2> SUFFICES ASSUME NEW u PROVE Creating(u)' <=> Creating(u)
    OBVIOUS
  <2>1. ~IsCreating(c, u) /\ [op |-> "delete", timer |-> t] # [op |-> "create", timer |-> u]
    BY <1>1 DEF IsCreating, Idle
  <2> QED BY <1>1, <2>1, OtherCreating
<1>4. timerState[t] \in {"idle", "pending"}
  BY <1>2, StateOfTimer
<1>5. timerState'[t] = "closing"
  BY <1>1, <1>2, <1>3 DEF timerState
<1>6. \A u \in Timers \ {t} : timerState'[u] = timerState[u]
  BY <1>1, <1>3, SameTimer
<1>7. timerState' = [timerState EXCEPT ![t] = "closing"]
  BY <1>5, <1>6, OneTimerChanges
<1>8. Owed' = Owed /\ InCallback' = InCallback
  BY <1>1 DEF Owed, InCallback
<1>9. Contract!BeginDelete(t)
  BY <1>1, <1>4, <1>7, <1>8 DEF Contract!BeginDelete, Owed, InCallback
<1> QED BY <1>9 DEF StepOfContract, Contract!Next

LEMMA DeletedStep ==
    ASSUME PosixInv, NEW c \in Callers, Deleted(c)
    PROVE  StepOfContract
<1> DEFINE t == call[c].timer
<1>1. /\ call[c].op = "delete" /\ call' = [call EXCEPT ![c] = Idle]
      /\ objects' = objects \ {t} /\ running # t
      /\ UNCHANGED <<timers, armed, running, service>>
      /\ answer' = [timer |-> t, result |-> "OK"]
      /\ call \in [Callers -> Calls] /\ Idle \in Calls
  BY DEF Deleted, armVars, serviceVars, Answer, PosixInv, TimersType, Calls, Idle
<1>2. t \in Timers /\ t \in objects \ timers
  <2>1. t \in Timers /\ IsDeleting(c, t)
    BY <1>1, CallIs
  <2> QED BY <2>1 DEF PosixInv, CallsSound
<1>3. \A u : Creating(u)' <=> Creating(u)
  <2> SUFFICES ASSUME NEW u PROVE Creating(u)' <=> Creating(u)
    OBVIOUS
  <2>1. ~IsCreating(c, u) /\ Idle # [op |-> "create", timer |-> u]
    BY <1>1 DEF IsCreating, Idle
  <2> QED BY <1>1, <2>1, OtherCreating
<1> HIDE DEF t
<1>4. timerState[t] = "closing" /\ Owed[t] = 0 /\ InCallback # t
  BY <1>1, <1>2, StateOfTimer DEF Owed, InCallback, PosixInv, TimersType
<1>5. timerState'[t] = "none"
  BY <1>1, <1>2 DEF timerState
<1>6. \A u \in Timers \ {t} : timerState'[u] = timerState[u]
  BY <1>1, <1>3, SameTimer
<1>7. timerState' = [timerState EXCEPT ![t] = "none"]
  BY <1>2, <1>5, <1>6, OneTimerChanges
<1>8. Owed' = Owed /\ InCallback' = InCallback
  BY <1>1 DEF Owed, InCallback
<1>9. Contract!EndDelete(t)
  BY <1>1, <1>4, <1>7, <1>8 DEF Contract!EndDelete, Contract!Answer, Owed, InCallback
<1> QED BY <1>2, <1>9 DEF StepOfContract, Contract!Next

LEMMA ServiceImplements ==
    ASSUME PosixInv, ServiceStep
    PROVE  StepOfContract
<1> USE DEF listVars, armVars
<1>0. TimersType /\ ServiceSound
  BY DEF PosixInv
<1>1. CASE Wait \/ Wake
  <2>1. /\ UNCHANGED <<objects, timers, armed, call, running, answer>>
        /\ service \in {"scan", "wait"} /\ service' \in {"scan", "wait"}
    BY <1>1 DEF Wait, Wake
  <2>2. timerState' = timerState /\ Owed' = Owed /\ InCallback' = InCallback
    BY <2>1 DEF timerState, Creating, Owed, InCallback
  <2> QED BY <2>1, <2>2, Stutters
<1>2. CASE Take
  <2>1. PICK t \in timers :
           Earliest(t) /\ armed' = [armed EXCEPT ![t] = FALSE] /\ running' = t
    BY <1>2 DEF Take
  <2>2. /\ service = "scan" /\ service' = "taken" /\ running = None
        /\ UNCHANGED <<objects, timers, call, answer>>
    BY <1>0, <1>2 DEF Take, ServiceSound
  <2>3. t \in Timers /\ t \in objects /\ armed[t]
    BY <1>0, <2>1 DEF TimersType, Earliest
  <2>4. ~Creating(t)
    <3> SUFFICES ASSUME NEW c \in Callers, IsCreating(c, t) PROVE FALSE
      BY DEF Creating, IsCreating
    <3>1. armed[t] = FALSE
      BY <2>3 DEF PosixInv, CallsSound
    <3> QED BY <2>3, <3>1
  <2>5. timerState[t] = "pending"
    BY <2>1, <2>3, <2>4, StateOfTimer
  <2>6. /\ armed'[t] = FALSE /\ \A u \in Timers \ {t} : armed'[u] = armed[u]
        /\ \A u : Creating(u)' <=> Creating(u)
    BY <1>0, <2>1, <2>2, <2>3 DEF TimersType, Creating
  <2>7. timerState'[t] = "idle"
    BY <2>1, <2>2, <2>3, <2>4, <2>6 DEF timerState
  <2>8. \A u \in Timers \ {t} : timerState'[u] = timerState[u]
    BY <2>2, <2>6, SameTimer
  <2>9. timerState' = [timerState EXCEPT ![t] = "idle"]
    BY <2>3, <2>7, <2>8, OneTimerChanges
  <2>10. Owed' = [Owed EXCEPT ![t] = Owed[t] + 1] /\ InCallback' = InCallback
    BY <2>1, <2>2, <2>3 DEF Owed, InCallback
  <2>11. Contract!Expire(t)
    BY <2>2, <2>5, <2>9, <2>10 DEF Contract!Expire, Owed, InCallback
  <2> QED BY <2>3, <2>11 DEF StepOfContract, Contract!Next
<1>3. CASE Run
  <2>0. PICK t : t = running
    OBVIOUS
  <2>1. /\ service = "taken" /\ service' = "call"
        /\ UNCHANGED <<objects, timers, armed, call, running, answer>>
        /\ running = t /\ t # None /\ t \in Timers
    BY <1>0, <1>3, <2>0 DEF Run, TimersType, ServiceSound
  <2>2. timerState' = timerState
    BY <2>1 DEF timerState, Creating
  <2>3. InCallback = None /\ InCallback' = t /\ Owed[t] = 1
    BY <2>1 DEF Owed, InCallback
  <2>4. Owed' = [Owed EXCEPT ![t] = Owed[t] - 1]
    <3>1. \A u \in Timers : Owed'[u] = 0 /\ (u # t => Owed[u] = 0)
      BY <2>1 DEF Owed
    <3>2. \A u \in Timers : Owed'[u] = [Owed EXCEPT ![t] = Owed[t] - 1][u]
      BY <2>3, <3>1 DEF Owed
    <3> QED BY <3>2 DEF Owed
  <2>5. Contract!Run(t)
    BY <2>1, <2>2, <2>3, <2>4 DEF Contract!Run, Owed, InCallback
  <2> QED BY <2>1, <2>5 DEF StepOfContract, Contract!Next
<1>4. CASE Return
  <2>1. /\ service = "call" /\ service' = "scan" /\ running' = None
        /\ UNCHANGED <<objects, timers, armed, call, answer>> /\ running # None
    BY <1>0, <1>4 DEF Return, ServiceSound
  <2>2. timerState' = timerState
    BY <2>1 DEF timerState, Creating
  <2>3. InCallback # None /\ InCallback' = None /\ Owed' = Owed
    BY <2>1 DEF Owed, InCallback
  <2>4. Contract!Return
    BY <2>1, <2>2, <2>3 DEF Contract!Return, Owed, InCallback
  <2> QED BY <2>4 DEF StepOfContract, Contract!Next
<1> QED BY <1>1, <1>2, <1>3, <1>4 DEF ServiceStep

-----------------------------------------------------------------------------
(***************************************************************************)
(* The steps together, and the theorems.                                   *)
(***************************************************************************)
LEMMA StepsImplement ==
    ASSUME PosixInv, Counted, [Next]_vars
    PROVE  PosixInv' /\ Counted' /\ StepOfContract
<1> DEFINE Done == PosixInv' /\ Counted' /\ StepOfContract
<1>1. ASSUME UNCHANGED <<objects, timers, call, armed, running, service, answer, count>>
      PROVE  Done
  <2>1. PosixInv'
    BY <1>1, QuietInv DEF PosixInv, TimersType, ServiceSound
  <2>2. Counted'
    BY <1>1, QuietCounts
  <2>3. timerState' = timerState /\ Owed' = Owed /\ InCallback' = InCallback
    BY <1>1 DEF timerState, Creating, Owed, InCallback
  <2> QED BY <1>1, <2>1, <2>2, <2>3, Stutters
<1>2. ASSUME NEW c \in Callers, Link(c) PROVE Done
  BY <1>2, LinkInv, LinkCounts, LinkStep
<1>3. ASSUME NEW c \in Callers, Created(c) PROVE Done
  BY <1>3, CreatedInv, CreatedCounts, CreatedStep
<1>4. ASSUME NEW c \in Callers, Deleted(c) PROVE Done
  BY <1>4, DeletedInv, DeletedCounts, DeletedStep
<1>5. ASSUME NEW c \in Callers, NEW t \in Timers, NEW d \in Delays, Start(c, t, d)
      PROVE  Done
  <2>1. Counted'
    BY <1>5, QuietCounts DEF Start, listVars
  <2> QED BY <1>5, <2>1, StartStep
<1>6. ASSUME NEW c \in Callers, NEW t \in Timers, Stop(c, t)
      PROVE  Done
  <2>1. Counted'
    BY <1>6, QuietCounts DEF Stop, listVars
  <2> QED BY <1>6, <2>1, StopStep
<1>7. ASSUME NEW c \in Callers, NEW t \in Timers, RefuseDelete(c, t)
      PROVE  Done
  <2>1. UNCHANGED <<objects, timers, call, armed, running, service, count>>
    BY <1>7 DEF RefuseDelete, listVars, armVars, serviceVars
  <2>2. PosixInv'
    BY <2>1, QuietInv DEF PosixInv, TimersType, ServiceSound
  <2>3. Counted'
    BY <2>1, QuietCounts
  <2> QED BY <1>7, <2>2, <2>3, RefuseDeleteStep
<1>8. ASSUME NEW c \in Callers, NEW t \in Timers, Unlink(c, t)
      PROVE  Done
  BY <1>8, UnlinkInv, UnlinkCounts, UnlinkStep
<1>9. ASSUME ServiceStep
      PROVE  Done
  <2>1. UNCHANGED <<objects, count, call>>
    BY <1>9 DEF ServiceStep, Wait, Wake, Take, Run, Return, listVars
  <2>2. Counted'
    BY <2>1, QuietCounts
  <2> QED BY <1>9, <2>2, ServiceInv, ServiceImplements
<1>10. ASSUME NEW c \in Callers, WaitAgain(c)
       PROVE  Done
  BY <1>1, <1>10 DEF WaitAgain, listVars, armVars, serviceVars
<1>11. ASSUME Tick
       PROVE  Done
  BY <1>1, <1>11 DEF Tick, listVars, armVars, serviceVars
<1>12. ASSUME UNCHANGED vars
       PROVE  Done
  BY <1>1, <1>12 DEF vars
<1> HIDE DEF Done
<1>13. Done
  BY <1>2, <1>3, <1>4, <1>5, <1>6, <1>7, <1>8, <1>9, <1>10, <1>11, <1>12
     DEF Next, Continue
<1> QED BY <1>13 DEF Done

\* Everything the theorems below rest on.
Sound == PosixInv /\ Counted

LEMMA InvariantHolds == None \notin Timers /\ Spec => []Sound
<1>1. None \notin Timers /\ Init => Sound
  BY PosixInit, CountInit DEF Sound
<1>2. Sound /\ [Next]_vars => Sound'
  BY StepsImplement DEF Sound
<1> QED BY <1>1, <1>2, PTL DEF Spec

LEMMA InitImplements == Init => Contract!Init
<1> SUFFICES ASSUME Init PROVE Contract!Init
  OBVIOUS
<1>1. timerState = [t \in Timers |-> "none"]
  BY DEF Init, timerState
<1>2. Owed = [t \in Timers |-> 0] /\ InCallback = None
  BY DEF Init, Owed, InCallback
<1> QED BY <1>1, <1>2 DEF Init, Contract!Init, Owed, InCallback

(* The POSIX timers implement the contract of tel_os_adapter.h, however    *)
(* calls, expiries and callbacks interleave: a callback per arming at most *)
(* and one at a time, an answer of TelOsTimerStop that says whether it     *)
(* came in time, and no callback once TelOsTimerDelete has returned.       *)
THEOREM PosixTimersImplement == None \notin Timers => (Spec => Implements)
<1>1. Sound /\ [Next]_vars => [Contract!Next]_(Contract!vars)
  BY StepsImplement DEF Sound, StepOfContract
<1>2. None \notin Timers /\ Spec => []Sound
  BY InvariantHolds
<1>3. Init => Contract!Init
  BY InitImplements
<1> QED BY <1>1, <1>2, <1>3, PTL DEF Spec, Implements, Contract!Spec

(* With no call in progress g_timerCount is the number of timers, and all  *)
(* of them are in the list: TelOsTimerCreate counts after it links, and    *)
(* TelOsTimerDelete unlinks, waits, and counts down when it frees.         *)
THEOREM CountIsTrue == None \notin Timers => (Spec => []CountIsLive)
<1>1. Sound => CountIsLive
  <2> SUFFICES ASSUME Sound, \A c \in Callers : call[c] = Idle
               PROVE  count = Cardinality(objects) /\ timers = objects
    BY DEF CountIsLive
  <2>1. InCreate = {}
    BY DEF InCreate, Idle
  <2>2. count = Cardinality(objects)
    <3>1. Cardinality(InCreate) = 0
      BY <2>1, FS_EmptySet
    <3>2. Cardinality(objects) \in Nat
      BY FS_CardinalityType DEF Sound, Counted
    <3> QED BY <3>1, <3>2 DEF Sound, Counted
  <2>3. timers = objects
    <3>1. timers \subseteq objects
      BY DEF Sound, PosixInv, TimersType
    <3>2. ASSUME NEW t \in objects \ timers PROVE FALSE
      <4>1. PICK c \in Callers : IsDeleting(c, t)
        BY DEF Sound, PosixInv, CallsSound
      <4> QED BY <4>1 DEF IsDeleting, Idle
    <3> QED BY <3>1, <3>2
  <2> QED BY <2>2, <2>3
<1>2. None \notin Timers /\ Spec => []Sound
  BY InvariantHolds
<1> QED BY <1>1, <1>2, PTL

(* The service thread never holds, and TelOsTimerDelete never waits for, a *)
(* timer that was freed.                                                   *)
THEOREM NoTimerDangles == None \notin Timers => (Spec => []NoDanglingTimer)
<1>1. Sound => NoDanglingTimer
  <2> SUFFICES ASSUME Sound PROVE NoDanglingTimer
    OBVIOUS
  <2>1. running # None => running \in objects
    BY DEF Sound, PosixInv, ServiceSound
  <2>2. ASSUME NEW c \in Callers, call[c].timer # None
        PROVE  call[c].timer \in objects
    <3> DEFINE t == call[c].timer
    <3>1. call[c].op \in {"create", "delete"}
      BY <2>2, CallIs DEF Sound, Calls, Idle
    <3>2. t \in Timers /\ (IsCreating(c, t) \/ IsDeleting(c, t))
      BY <3>1, CallIs DEF Sound
    <3> HIDE DEF t
    <3>3. t \in objects
      BY <3>2 DEF Sound, PosixInv, TimersType, CallsSound
    <3> QED BY <3>3 DEF t
  <2> QED BY <2>1, <2>2 DEF NoDanglingTimer
<1>2. None \notin Timers /\ Spec => []Sound
  BY InvariantHolds
<1> QED BY <1>1, <1>2, PTL

\* The variables that none of the above depends on.
ClockType ==
    /\ deadline \in [Timers -> 0..MaxTime]
    /\ until \in 0..MaxTime \cup {Forever}
    /\ asleep \subseteq Callers
    /\ now \in 0..MaxTime
    /\ answer \in Answers

LEMMA ClockInit == MaxTime \in Nat /\ Init => ClockType
BY DEF Init, ClockType, Answers

LEMMA AnswerType ==
    ASSUME NEW t \in Timers \cup {None}, NEW r \in {"OK", "FAIL", "INVALID_PARAM"},
           Answer(t, r)
    PROVE  answer' \in Answers
BY DEF Answer, Answers

LEMMA ClockStep ==
    ASSUME PosixInv, MaxTime \in Nat, Delays \subseteq Nat, ClockType, [Next]_vars
    PROVE  ClockType'
<1> USE DEF listVars, armVars, serviceVars
<1>0. armed \in [Timers -> BOOLEAN] /\ timers \subseteq Timers /\ Service \in Callers
  BY DEF PosixInv, TimersType, Callers
<1>1. ASSUME NEW c \in Callers, Link(c) PROVE ClockType'
  <2>1. PICK t \in Timers : deadline' = [deadline EXCEPT ![t] = 0]
    BY <1>1 DEF Link
  <2> QED BY <1>1, <2>1 DEF Link, ClockType
<1>2. ASSUME NEW c \in Callers, Created(c) \/ Deleted(c) PROVE ClockType'
  <2>1. call[c].timer \in Timers
    BY <1>2, CallIs DEF Created, Deleted
  <2>2. answer' \in Answers
    BY <1>2, <2>1, AnswerType DEF Created, Deleted
  <2> QED BY <1>2, <2>2 DEF Created, Deleted, ClockType
<1>3. ASSUME NEW c \in Callers, NEW t \in Timers, NEW d \in Delays, Start(c, t, d)
      PROVE  ClockType'
  <2>1. now + d \in 0..MaxTime
    BY <1>3 DEF Start, ClockType
  <2>2. deadline' = [deadline EXCEPT ![t] = now + d] /\ asleep' = {}
        /\ UNCHANGED <<until, now>>
    BY <1>3 DEF Start
  <2>3. answer' \in Answers
    BY <1>3, AnswerType DEF Start
  <2> QED BY <2>1, <2>2, <2>3 DEF ClockType
<1>4. ASSUME NEW c \in Callers, NEW t \in Timers, Stop(c, t)
      PROVE  ClockType'
  <2>1. PICK r \in {"OK", "FAIL"} : Answer(t, r)
    BY <1>4 DEF Stop
  <2>2. answer' \in Answers
    BY <2>1, AnswerType
  <2> QED BY <1>4, <2>2 DEF Stop, ClockType
<1>5. ASSUME NEW c \in Callers, NEW t \in Timers, RefuseDelete(c, t)
      PROVE  ClockType'
  <2>1. answer' \in Answers
    BY <1>5, AnswerType DEF RefuseDelete
  <2> QED BY <1>5, <2>1 DEF RefuseDelete, ClockType
<1>6. ASSUME NEW c \in Callers, NEW t \in Timers, Unlink(c, t)
      PROVE  ClockType'
  BY <1>6 DEF Unlink, ClockType
<1>7. ASSUME NEW c \in Callers, WaitAgain(c)
      PROVE  ClockType'
  BY <1>7 DEF WaitAgain, ClockType
<1>8. ASSUME Wait PROVE ClockType'
  <2>1. until' \in 0..MaxTime \cup {Forever}
    BY <1>0, <1>8 DEF Wait, Earliest, ClockType
  <2> QED BY <1>0, <1>8, <2>1 DEF Wait, ClockType
<1>9. ASSUME Wake \/ Run \/ Return PROVE ClockType'
  BY <1>9 DEF Wake, Run, Return, ClockType
<1>10. ASSUME Take PROVE ClockType'
  BY <1>10 DEF Take, ClockType
<1>11. ASSUME Tick PROVE ClockType'
  BY <1>11 DEF Tick, ClockType
<1>12. ASSUME UNCHANGED vars PROVE ClockType'
  BY <1>12 DEF vars, ClockType
<1> QED BY <1>1, <1>2, <1>3, <1>4, <1>5, <1>6, <1>7, <1>8, <1>9, <1>10, <1>11, <1>12
       DEF Next, Continue, ServiceStep

\* No more timers are counted than there are: whoever makes one has an object
\* of its own.
LEMMA CountType ==
    ASSUME PosixInv, Counted, IsFiniteSet(Timers)
    PROVE  count \in 0..Cardinality(Timers)
<1>1. /\ Cardinality(InCreate) \in Nat /\ Cardinality(objects) \in Nat
      /\ Cardinality(Timers) \in Nat /\ Cardinality(objects) <= Cardinality(Timers)
  <2>1. objects \subseteq Timers
    BY DEF PosixInv, TimersType
  <2> QED BY <2>1, FS_CardinalityType, FS_Subset DEF Counted
<1>2. Cardinality(InCreate) <= Cardinality(objects)
  <2> DEFINE f == [c \in InCreate |-> call[c].timer]
  <2>1. ASSUME NEW c \in InCreate PROVE call[c].timer \in objects /\ call[c].timer # None
    <3>1. c \in Callers /\ call[c].timer \in Timers /\ IsCreating(c, call[c].timer)
      BY CallIs DEF InCreate
    <3> QED BY <3>1 DEF PosixInv, CallsSound, TimersType
  <2>2. f \in [InCreate -> objects]
    BY <2>1
  <2>3. ASSUME NEW c \in InCreate, NEW d \in InCreate, f[c] = f[d] PROVE c = d
    <3>1. c \in Callers /\ d \in Callers /\ call[c].timer = call[d].timer
      BY <2>3 DEF InCreate
    <3> QED BY <2>1, <3>1 DEF PosixInv, CallsSound
  <2>4. f \in Injection(InCreate, objects)
    BY <2>2, <2>3 DEF Injection, IsInjective
  <2>5. IsFiniteSet(InCreate) /\ IsFiniteSet(objects)
    BY DEF Counted
  <2> QED BY <2>4, <2>5, FS_Injection
<1> QED BY <1>1, <1>2 DEF Counted

(* The variables of the POSIX timers have their types.                     *)
THEOREM PosixTimersTyped ==
    None \notin Timers /\ IsFiniteSet(Timers) /\ MaxTime \in Nat /\ Delays \subseteq Nat
        => (Spec => []TypeOK)
<1> DEFINE Bounds == IsFiniteSet(Timers) /\ MaxTime \in Nat /\ Delays \subseteq Nat
           Inv == Sound /\ Bounds /\ ClockType
<1>1. None \notin Timers /\ Bounds /\ Init => Inv
  BY PosixInit, CountInit, ClockInit DEF Sound
<1>2. Inv /\ [Next]_vars => Inv'
  BY StepsImplement, ClockStep DEF Sound
<1>3. Inv => TypeOK
  <2> SUFFICES ASSUME Inv PROVE TypeOK
    OBVIOUS
  <2>1. count \in 0..Cardinality(Timers)
    BY CountType DEF Sound
  <2> QED BY <2>1 DEF Sound, PosixInv, TimersType, ClockType, TypeOK
<1> QED BY <1>1, <1>2, <1>3, PTL DEF Spec

-----------------------------------------------------------------------------
(***************************************************************************)
(* The tasks of tel_os_adapter_cmsis.cpp and the slots they start from.    *)
(***************************************************************************)
CONSTANTS Creators, NSlots, NTasks
VARIABLES used, entry, creator, task, taskCount

Cmsis == INSTANCE CmsisTasks WITH count <- taskCount

\* A creator that holds a slot, and a kernel task that has yet to read it.
Fills(c, s) == creator[c].pc \in {"fill", "create"} /\ creator[c].slot = s
Reads(t, s) == task[t].pc \in {"start", "read"} /\ task[t].slot = s

\* NSlots is CMSIS_MAX_TASKS, the length of an array.
TasksType ==
    /\ NSlots \in Nat \ {0}
    /\ used \in [Cmsis!Slots -> BOOLEAN]
    /\ entry \in [Cmsis!Slots -> Creators \cup {None}]
    /\ creator \in [Creators -> [pc : {"idle", "claim", "fill", "create"}, slot : 0..NSlots]]
    /\ task \in [Cmsis!Tasks -> [pc : {"none", "start", "read", "run", "leave", "gone"},
                                 slot : 0..NSlots, asked : Creators \cup {None},
                                 entry : Creators \cup {None}]]
    /\ \A c \in Creators : creator[c].pc # "idle" => creator[c].slot \in Cmsis!Slots
    /\ \A t \in Cmsis!Tasks : task[t].pc \in {"start", "read"} => task[t].slot \in Cmsis!Slots

\* A slot in use has one user, who holds it from ClaimSlot until the task that
\* was made has read its entry.
SlotsHeld ==
    /\ \A s \in Cmsis!Slots : \A c, d \in Creators : Fills(c, s) /\ Fills(d, s) => c = d
    /\ \A s \in Cmsis!Slots : \A t, u \in Cmsis!Tasks : Reads(t, s) /\ Reads(u, s) => t = u
    /\ \A s \in Cmsis!Slots : \A c \in Creators : \A t \in Cmsis!Tasks :
          ~(Fills(c, s) /\ Reads(t, s))
    /\ \A s \in Cmsis!Slots :
          used[s] = TRUE <=> \/ \E c \in Creators : Fills(c, s)
                             \/ \E t \in Cmsis!Tasks : Reads(t, s)

\* The entry in a slot is its user's, and a task that has read one has its own.
EntriesOwn ==
    /\ \A c \in Creators : creator[c].pc = "create" => entry[creator[c].slot] = c
    /\ \A t \in Cmsis!Tasks : task[t].pc = "start" => entry[task[t].slot] = task[t].asked
    /\ \A t \in Cmsis!Tasks :
          task[t].pc \in {"read", "run", "leave"} => task[t].entry = task[t].asked

TasksInv == TasksType /\ SlotsHeld /\ EntriesOwn

LEMMA TasksInit == NSlots \in Nat \ {0} /\ Cmsis!Init => TasksInv
BY DEF Cmsis!Init, Cmsis!NoTask, Cmsis!Slots, Cmsis!Tasks, TasksInv, TasksType,
       SlotsHeld, EntriesOwn, Fills, Reads

\* A creator, or a task, takes a step and the others stand still.
LEMMA CreatorSteps ==
    ASSUME TasksType, NEW c \in Creators, NEW pc, NEW s, Cmsis!Goto(c, pc, s),
           pc \in {"idle", "claim", "fill", "create"}, s \in 0..NSlots
    PROVE  /\ creator' \in [Creators -> [pc : {"idle", "claim", "fill", "create"},
                                         slot : 0..NSlots]]
           /\ creator'[c].pc = pc /\ creator'[c].slot = s
           /\ \A d \in Creators \ {c} : creator'[d] = creator[d]
BY DEF TasksType, Cmsis!Goto

LEMMA TaskSteps ==
    ASSUME TasksType, NEW t \in Cmsis!Tasks, NEW pc, Cmsis!Step(t, pc),
           pc \in {"none", "start", "read", "run", "leave", "gone"}
    PROVE  /\ task' \in [Cmsis!Tasks -> [pc : {"none", "start", "read", "run", "leave", "gone"},
                                         slot : 0..NSlots, asked : Creators \cup {None},
                                         entry : Creators \cup {None}]]
           /\ task'[t].pc = pc /\ task'[t].slot = task[t].slot
           /\ task'[t].asked = task[t].asked /\ task'[t].entry = task[t].entry
           /\ \A u \in Cmsis!Tasks \ {t} : task'[u] = task[u]
BY DEF TasksType, Cmsis!Step

\* Nobody takes or leaves a slot.
LEMMA SlotsStay ==
    ASSUME SlotsHeld, used' = used,
           \A c \in Creators : \A s \in Cmsis!Slots : Fills(c, s)' <=> Fills(c, s),
           \A t \in Cmsis!Tasks : \A s \in Cmsis!Slots : Reads(t, s)' <=> Reads(t, s)
    PROVE  SlotsHeld'
BY DEF SlotsHeld

LEMMA ClaimStep ==
    ASSUME TasksInv, NSlots \in Nat \ {0}, NEW c \in Creators,
           Cmsis!Create(c) \/ Cmsis!Claim(c)
    PROVE  TasksInv'
<1>0. TasksType /\ SlotsHeld /\ EntriesOwn
  BY DEF TasksInv
<1>1. creator[c].pc \in {"idle", "claim"} /\ UNCHANGED <<entry, task>>
  BY DEF Cmsis!Create, Cmsis!Claim
<1>2. \A t \in Cmsis!Tasks : \A s \in Cmsis!Slots : Reads(t, s)' <=> Reads(t, s)
  BY <1>1 DEF Reads
<1>3. ASSUME NEW s \in Cmsis!Slots, used[s] = FALSE, used' = [used EXCEPT ![s] = TRUE],
             Cmsis!Goto(c, "fill", s)
      PROVE  TasksInv'
  <2>1. s \in 0..NSlots
    BY DEF Cmsis!Slots
  <2>2. /\ creator' \in [Creators -> [pc : {"idle", "claim", "fill", "create"}, slot : 0..NSlots]]
        /\ creator'[c].pc = "fill" /\ creator'[c].slot = s
        /\ \A d \in Creators \ {c} : creator'[d] = creator[d]
    BY <1>0, <1>3, <2>1, CreatorSteps
  <2>3. /\ used' \in [Cmsis!Slots -> BOOLEAN] /\ used'[s] = TRUE
        /\ \A r \in Cmsis!Slots \ {s} : used'[r] = used[r]
    BY <1>0, <1>3 DEF TasksType
  <2>4. TasksType'
    BY <1>0, <1>1, <1>3, <2>2, <2>3 DEF TasksType
  <2>5. /\ \A d \in Creators : ~Fills(d, s)
        /\ \A t \in Cmsis!Tasks : ~Reads(t, s)
    BY <1>0, <1>3 DEF SlotsHeld
  <2>6. \A d \in Creators : \A r \in Cmsis!Slots :
           Fills(d, r)' <=> Fills(d, r) \/ (d = c /\ r = s)
    BY <1>1, <2>2 DEF Fills
  <2>7. SlotsHeld'
    BY <1>0, <1>2, <2>3, <2>5, <2>6 DEF SlotsHeld
  <2>8. EntriesOwn'
    BY <1>0, <1>1, <2>2 DEF EntriesOwn
  <2> QED BY <2>4, <2>7, <2>8 DEF TasksInv
<1>4. ASSUME used' = used, NEW pc \in {"idle", "claim"}, NEW s \in 0..NSlots,
             pc = "claim" => s \in Cmsis!Slots, Cmsis!Goto(c, pc, s)
      PROVE  TasksInv'
  <2>1. /\ creator' \in [Creators -> [pc : {"idle", "claim", "fill", "create"}, slot : 0..NSlots]]
        /\ creator'[c].pc = pc /\ creator'[c].slot = s
        /\ \A d \in Creators \ {c} : creator'[d] = creator[d]
    BY <1>0, <1>4, CreatorSteps
  <2>2. TasksType'
    BY <1>0, <1>1, <1>4, <2>1 DEF TasksType
  <2>3. \A d \in Creators : \A r \in Cmsis!Slots : Fills(d, r)' <=> Fills(d, r)
    BY <1>1, <2>1 DEF Fills
  <2>4. SlotsHeld'
    BY <1>0, <1>2, <1>4, <2>3, SlotsStay
  <2>5. EntriesOwn'
    BY <1>0, <1>1, <2>1 DEF EntriesOwn
  <2> QED BY <2>2, <2>4, <2>5 DEF TasksInv
<1>5. CASE Cmsis!Create(c)
  <2>1. 1 \in Cmsis!Slots /\ 1 \in 0..NSlots
    BY DEF Cmsis!Slots
  <2> QED BY <1>4, <1>5, <2>1 DEF Cmsis!Create
<1>6. CASE Cmsis!Claim(c)
  <2>0. PICK s : s = creator[c].slot
    OBVIOUS
  <2>1. s \in Cmsis!Slots
    BY <1>0, <1>6, <2>0 DEF Cmsis!Claim, TasksType
  <2>2. CASE ~used[s]
    <3>1. used[s] = FALSE
      BY <1>0, <2>1, <2>2 DEF TasksType
    <3> QED BY <1>3, <1>6, <2>0, <2>1, <2>2, <3>1 DEF Cmsis!Claim
  <2>3. CASE used[s] /\ s < NSlots
    <3>1. s + 1 \in Cmsis!Slots /\ s + 1 \in 0..NSlots
      BY <2>1, <2>3 DEF Cmsis!Slots
    <3>2. used' = used /\ Cmsis!Goto(c, "claim", s + 1)
      BY <1>6, <2>0, <2>3 DEF Cmsis!Claim
    <3> QED BY <1>4, <3>1, <3>2
  <2>4. CASE used[s] /\ ~(s < NSlots)
    <3>1. used' = used /\ Cmsis!Goto(c, "idle", 0)
      BY <1>6, <2>0, <2>4 DEF Cmsis!Claim
    <3> QED BY <1>4, <3>1
  <2> QED BY <2>2, <2>3, <2>4
<1> QED BY <1>5, <1>6

LEMMA FillStep ==
    ASSUME TasksInv, NSlots \in Nat, NEW c \in Creators, Cmsis!Fill(c)
    PROVE  TasksInv'
<1>0. TasksType /\ SlotsHeld /\ EntriesOwn
  BY DEF TasksInv
<1>s. PICK s : s = creator[c].slot
  OBVIOUS
<1>1. /\ creator[c].pc = "fill" /\ entry' = [entry EXCEPT ![s] = c]
      /\ UNCHANGED <<used, task>> /\ Cmsis!Goto(c, "create", s)
  BY <1>s DEF Cmsis!Fill
<1>2. s \in Cmsis!Slots /\ s \in 0..NSlots
  BY <1>0, <1>s, <1>1 DEF TasksType, Cmsis!Slots
<1>3. /\ creator' \in [Creators -> [pc : {"idle", "claim", "fill", "create"}, slot : 0..NSlots]]
      /\ creator'[c].pc = "create" /\ creator'[c].slot = s
      /\ \A d \in Creators \ {c} : creator'[d] = creator[d]
  BY <1>0, <1>1, <1>2, CreatorSteps
<1>4. /\ entry' \in [Cmsis!Slots -> Creators \cup {None}] /\ entry'[s] = c
      /\ \A r \in Cmsis!Slots \ {s} : entry'[r] = entry[r]
  BY <1>0, <1>1, <1>2 DEF TasksType
<1>5. TasksType'
  BY <1>0, <1>1, <1>2, <1>3, <1>4 DEF TasksType
<1>6. /\ \A d \in Creators : \A r \in Cmsis!Slots : Fills(d, r)' <=> Fills(d, r)
      /\ \A t \in Cmsis!Tasks : \A r \in Cmsis!Slots : Reads(t, r)' <=> Reads(t, r)
  BY <1>1, <1>3, <1>s DEF Fills, Reads
<1>7. SlotsHeld'
  BY <1>0, <1>1, <1>6, SlotsStay
<1>8. Fills(c, s)
  BY <1>1, <1>s DEF Fills
<1>9. ASSUME NEW d \in Creators, creator'[d].pc = "create"
      PROVE  entry'[creator'[d].slot] = d
  <2>1. CASE d = c
    BY <1>3, <1>4, <2>1
  <2>2. CASE d # c
    <3>1. creator'[d] = creator[d] /\ creator[d].slot \in Cmsis!Slots
      BY <1>0, <1>3, <1>9, <2>2 DEF TasksType
    <3>2. creator[d].slot # s
      BY <1>0, <1>2, <1>8, <1>9, <2>2, <3>1 DEF SlotsHeld, Fills
    <3> QED BY <1>0, <1>4, <1>9, <3>1, <3>2 DEF EntriesOwn
  <2> QED BY <2>1, <2>2
<1>10. ASSUME NEW t \in Cmsis!Tasks, task'[t].pc = "start"
       PROVE  entry'[task'[t].slot] = task'[t].asked
  <2>1. task'[t] = task[t] /\ task[t].slot \in Cmsis!Slots
    BY <1>0, <1>1, <1>10 DEF TasksType
  <2>2. task[t].slot # s
    BY <1>0, <1>2, <1>8, <1>10, <2>1 DEF SlotsHeld, Reads
  <2> QED BY <1>0, <1>4, <1>10, <2>1, <2>2 DEF EntriesOwn
<1>11. EntriesOwn'
  BY <1>0, <1>1, <1>9, <1>10 DEF EntriesOwn
<1> QED BY <1>5, <1>7, <1>11 DEF TasksInv

LEMMA KernelCreateStep ==
    ASSUME TasksInv, NSlots \in Nat, NEW c \in Creators, Cmsis!KernelCreate(c)
    PROVE  TasksInv'
<1>0. TasksType /\ SlotsHeld /\ EntriesOwn
  BY DEF TasksInv
<1>s. PICK s : s = creator[c].slot
  OBVIOUS
<1>1. PICK t \in Cmsis!Tasks :
         /\ task[t] = Cmsis!NoTask
         /\ task' = [task EXCEPT ![t] = [pc |-> "start", slot |-> s, asked |-> c, entry |-> None]]
  BY <1>s DEF Cmsis!KernelCreate
<1>2. /\ creator[c].pc = "create" /\ Cmsis!Goto(c, "idle", 0)
      /\ UNCHANGED <<used, entry>> /\ task[t].pc = "none"
  BY <1>1 DEF Cmsis!KernelCreate, Cmsis!NoTask
<1>3. s \in Cmsis!Slots /\ s \in 0..NSlots /\ Fills(c, s)
  BY <1>0, <1>2, <1>s DEF TasksType, Cmsis!Slots, Fills
<1>4. /\ creator' \in [Creators -> [pc : {"idle", "claim", "fill", "create"}, slot : 0..NSlots]]
      /\ creator'[c].pc = "idle"
      /\ \A d \in Creators \ {c} : creator'[d] = creator[d]
  BY <1>0, <1>2, CreatorSteps
<1>5. /\ task' \in [Cmsis!Tasks -> [pc : {"none", "start", "read", "run", "leave", "gone"},
                                    slot : 0..NSlots, asked : Creators \cup {None},
                                    entry : Creators \cup {None}]]
      /\ task'[t].pc = "start" /\ task'[t].slot = s /\ task'[t].asked = c
      /\ \A u \in Cmsis!Tasks \ {t} : task'[u] = task[u]
  BY <1>0, <1>1, <1>3 DEF TasksType
<1>6. TasksType'
  BY <1>0, <1>2, <1>3, <1>4, <1>5 DEF TasksType
<1>7. /\ \A d \in Creators : \A r \in Cmsis!Slots : Fills(d, r)' <=> Fills(d, r) /\ d # c
      /\ \A u \in Cmsis!Tasks : \A r \in Cmsis!Slots :
            Reads(u, r)' <=> Reads(u, r) \/ (u = t /\ r = s)
  BY <1>2, <1>4, <1>5 DEF Fills, Reads
<1>8. /\ \A r \in Cmsis!Slots : Fills(c, r) => r = s
      /\ \A u \in Cmsis!Tasks : ~Reads(u, s)
      /\ \A d \in Creators : Fills(d, s) => d = c
      /\ \A r \in Cmsis!Slots : ~Reads(t, r)
  BY <1>0, <1>2, <1>3, <1>s DEF SlotsHeld, Fills, Reads
<1>9. SlotsHeld'
  <2>1. \A r \in Cmsis!Slots : \A d, e \in Creators : Fills(d, r)' /\ Fills(e, r)' => d = e
    BY <1>0, <1>7 DEF SlotsHeld
  <2>2. \A r \in Cmsis!Slots : \A u, w \in Cmsis!Tasks : Reads(u, r)' /\ Reads(w, r)' => u = w
    BY <1>0, <1>7, <1>8 DEF SlotsHeld
  <2>3. \A r \in Cmsis!Slots : \A d \in Creators : \A u \in Cmsis!Tasks :
           ~(Fills(d, r)' /\ Reads(u, r)')
    BY <1>0, <1>7, <1>8 DEF SlotsHeld
  <2>4. ASSUME NEW r \in Cmsis!Slots
        PROVE  used'[r] = TRUE <=> \/ \E d \in Creators : Fills(d, r)'
                                  \/ \E u \in Cmsis!Tasks : Reads(u, r)'
    <3>1. CASE r = s
      BY <1>0, <1>2, <1>3, <1>7, <3>1 DEF SlotsHeld
    <3>2. CASE r # s
      BY <1>0, <1>2, <1>7, <1>8, <3>2 DEF SlotsHeld
    <3> QED BY <3>1, <3>2
  <2> QED BY <2>1, <2>2, <2>3, <2>4 DEF SlotsHeld
<1>10. entry[s] = c
  BY <1>0, <1>2, <1>s DEF EntriesOwn
<1>11. EntriesOwn'
  BY <1>0, <1>2, <1>4, <1>5, <1>10 DEF EntriesOwn
<1> QED BY <1>6, <1>9, <1>11 DEF TasksInv

LEMMA KernelFailsStep ==
    ASSUME TasksInv, NSlots \in Nat, NEW c \in Creators, Cmsis!KernelFails(c)
    PROVE  TasksInv'
<1>0. TasksType /\ SlotsHeld /\ EntriesOwn
  BY DEF TasksInv
<1>s. PICK s : s = creator[c].slot
  OBVIOUS
<1>1. /\ creator[c].pc = "create" /\ Cmsis!Goto(c, "idle", 0)
      /\ UNCHANGED <<entry, task>> /\ used' = [used EXCEPT ![s] = FALSE]
  BY <1>s DEF Cmsis!KernelFails
<1>2. s \in Cmsis!Slots /\ Fills(c, s)
  BY <1>0, <1>1, <1>s DEF TasksType, Fills
<1>3. /\ creator' \in [Creators -> [pc : {"idle", "claim", "fill", "create"}, slot : 0..NSlots]]
      /\ creator'[c].pc = "idle"
      /\ \A d \in Creators \ {c} : creator'[d] = creator[d]
  BY <1>0, <1>1, CreatorSteps
<1>4. /\ used' \in [Cmsis!Slots -> BOOLEAN] /\ used'[s] = FALSE
      /\ \A r \in Cmsis!Slots \ {s} : used'[r] = used[r]
  BY <1>0, <1>1, <1>2 DEF TasksType
<1>5. TasksType'
  BY <1>0, <1>1, <1>3, <1>4 DEF TasksType
<1>6. /\ \A d \in Creators : \A r \in Cmsis!Slots : Fills(d, r)' <=> Fills(d, r) /\ d # c
      /\ \A u \in Cmsis!Tasks : \A r \in Cmsis!Slots : Reads(u, r)' <=> Reads(u, r)
  BY <1>1, <1>3 DEF Fills, Reads
<1>7. /\ \A r \in Cmsis!Slots : Fills(c, r) => r = s
      /\ \A u \in Cmsis!Tasks : ~Reads(u, s)
      /\ \A d \in Creators : Fills(d, s) => d = c
  BY <1>0, <1>2, <1>s DEF SlotsHeld, Fills
<1>8. SlotsHeld'
  BY <1>0, <1>2, <1>4, <1>6, <1>7 DEF SlotsHeld
<1>9. EntriesOwn'
  BY <1>0, <1>1, <1>3 DEF EntriesOwn
<1> QED BY <1>5, <1>8, <1>9 DEF TasksInv

\* A task reads its entry.
LEMMA ReadStep ==
    ASSUME TasksInv, NSlots \in Nat, NEW t \in Cmsis!Tasks, Cmsis!ReadEntry(t)
    PROVE  TasksInv'
<1>0. TasksType /\ SlotsHeld /\ EntriesOwn
  BY DEF TasksInv
<1>s. PICK s : s = task[t].slot
  OBVIOUS
<1>1. /\ task[t].pc = "start" /\ UNCHANGED <<used, entry, creator>>
      /\ task' = [task EXCEPT ![t].pc = "read", ![t].entry = entry[s]]
  BY <1>s DEF Cmsis!ReadEntry, Cmsis!At
<1>2. s \in Cmsis!Slots /\ entry[s] \in Creators \cup {None} /\ entry[s] = task[t].asked
  BY <1>0, <1>1, <1>s DEF TasksType, EntriesOwn
<1>3. /\ task' \in [Cmsis!Tasks -> [pc : {"none", "start", "read", "run", "leave", "gone"},
                                    slot : 0..NSlots, asked : Creators \cup {None},
                                    entry : Creators \cup {None}]]
      /\ task'[t].pc = "read" /\ task'[t].slot = s
      /\ task'[t].asked = task[t].asked /\ task'[t].entry = entry[s]
      /\ \A u \in Cmsis!Tasks \ {t} : task'[u] = task[u]
  BY <1>0, <1>1, <1>2, <1>s DEF TasksType
<1>4. TasksType'
  BY <1>0, <1>1, <1>2, <1>3 DEF TasksType
<1>5. /\ \A c \in Creators : \A r \in Cmsis!Slots : Fills(c, r)' <=> Fills(c, r)
      /\ \A u \in Cmsis!Tasks : \A r \in Cmsis!Slots : Reads(u, r)' <=> Reads(u, r)
  BY <1>1, <1>3, <1>s DEF Fills, Reads
<1>6. SlotsHeld'
  BY <1>0, <1>1, <1>5, SlotsStay
<1>7. EntriesOwn'
  BY <1>0, <1>1, <1>2, <1>3 DEF EntriesOwn
<1> QED BY <1>4, <1>6, <1>7 DEF TasksInv

\* It gives its slot back.
LEMMA FreeStep ==
    ASSUME TasksInv, NSlots \in Nat, NEW t \in Cmsis!Tasks, Cmsis!FreeSlot(t)
    PROVE  TasksInv'
<1>0. TasksType /\ SlotsHeld /\ EntriesOwn
  BY DEF TasksInv
<1>s. PICK s : s = task[t].slot
  OBVIOUS
<1>1. /\ task[t].pc = "read" /\ UNCHANGED <<entry, creator>>
      /\ used' = [used EXCEPT ![s] = FALSE] /\ Cmsis!Step(t, "run")
  BY <1>s DEF Cmsis!FreeSlot, Cmsis!At
<1>2. s \in Cmsis!Slots /\ Reads(t, s)
  BY <1>0, <1>1, <1>s DEF TasksType, Reads
<1>3. /\ task' \in [Cmsis!Tasks -> [pc : {"none", "start", "read", "run", "leave", "gone"},
                                    slot : 0..NSlots, asked : Creators \cup {None},
                                    entry : Creators \cup {None}]]
      /\ task'[t].pc = "run"
      /\ task'[t].asked = task[t].asked /\ task'[t].entry = task[t].entry
      /\ \A u \in Cmsis!Tasks \ {t} : task'[u] = task[u]
  BY <1>0, <1>1, TaskSteps
<1>4. /\ used' \in [Cmsis!Slots -> BOOLEAN] /\ used'[s] = FALSE
      /\ \A r \in Cmsis!Slots \ {s} : used'[r] = used[r]
  BY <1>0, <1>1, <1>2 DEF TasksType
<1>5. TasksType'
  BY <1>0, <1>1, <1>3, <1>4 DEF TasksType
<1>6. /\ \A c \in Creators : \A r \in Cmsis!Slots : Fills(c, r)' <=> Fills(c, r)
      /\ \A u \in Cmsis!Tasks : \A r \in Cmsis!Slots : Reads(u, r)' <=> Reads(u, r) /\ u # t
  BY <1>1, <1>3 DEF Fills, Reads
<1>7. /\ \A r \in Cmsis!Slots : Reads(t, r) => r = s
      /\ \A c \in Creators : ~Fills(c, s)
      /\ \A u \in Cmsis!Tasks : Reads(u, s) => u = t
  BY <1>0, <1>2, <1>s DEF SlotsHeld, Reads
<1>8. SlotsHeld'
  BY <1>0, <1>2, <1>4, <1>6, <1>7 DEF SlotsHeld
<1>9. EntriesOwn'
  BY <1>0, <1>1, <1>3 DEF EntriesOwn
<1> QED BY <1>5, <1>8, <1>9 DEF TasksInv

\* It returns from its entry, and is no longer counted.
LEMMA LeaveStep ==
    ASSUME TasksInv, NEW t \in Cmsis!Tasks, Cmsis!EntryReturns(t) \/ Cmsis!Leave(t)
    PROVE  TasksInv'
<1>0. TasksType /\ SlotsHeld /\ EntriesOwn
  BY DEF TasksInv
<1>1. PICK pc \in {"leave", "gone"} : Cmsis!Step(t, pc)
  BY DEF Cmsis!EntryReturns, Cmsis!Leave
<1>2. task[t].pc \in {"run", "leave"} /\ UNCHANGED <<used, entry, creator>>
  BY DEF Cmsis!EntryReturns, Cmsis!Leave, Cmsis!At
<1>3. /\ task' \in [Cmsis!Tasks -> [pc : {"none", "start", "read", "run", "leave", "gone"},
                                    slot : 0..NSlots, asked : Creators \cup {None},
                                    entry : Creators \cup {None}]]
      /\ task'[t].pc = pc
      /\ task'[t].asked = task[t].asked /\ task'[t].entry = task[t].entry
      /\ \A u \in Cmsis!Tasks \ {t} : task'[u] = task[u]
  BY <1>0, <1>1, TaskSteps
<1>4. TasksType'
  BY <1>0, <1>2, <1>3 DEF TasksType
<1>5. /\ \A c \in Creators : \A r \in Cmsis!Slots : Fills(c, r)' <=> Fills(c, r)
      /\ \A u \in Cmsis!Tasks : \A r \in Cmsis!Slots : Reads(u, r)' <=> Reads(u, r)
  BY <1>2, <1>3 DEF Fills, Reads
<1>6. SlotsHeld'
  BY <1>0, <1>2, <1>5, SlotsStay
<1>7. EntriesOwn'
  BY <1>0, <1>2, <1>3 DEF EntriesOwn
<1> QED BY <1>4, <1>6, <1>7 DEF TasksInv

LEMMA TasksStep ==
    ASSUME TasksInv, [Cmsis!Next]_(Cmsis!vars)
    PROVE  TasksInv'
<1>0. NSlots \in Nat \ {0}
  BY DEF TasksInv, TasksType
<1>1. CASE UNCHANGED Cmsis!vars
  BY <1>1 DEF Cmsis!vars, TasksInv, TasksType, SlotsHeld, EntriesOwn, Fills, Reads
<1>2. CASE Cmsis!Next
  BY <1>0, <1>2, ClaimStep, FillStep, KernelCreateStep, KernelFailsStep, ReadStep, FreeStep,
     LeaveStep DEF Cmsis!Next
<1> QED BY <1>1, <1>2

LEMMA TasksHold == NSlots \in Nat \ {0} /\ Cmsis!Spec => []TasksInv
<1>1. NSlots \in Nat \ {0} /\ Cmsis!Init => TasksInv
  BY TasksInit
<1>2. TasksInv /\ [Cmsis!Next]_(Cmsis!vars) => TasksInv'
  BY TasksStep
<1> QED BY <1>1, <1>2, PTL DEF Cmsis!Spec

(* A task runs the entry it was created with (TaskTrampoline), although    *)
(* its slot is handed on as soon as it has read it, for any number of      *)
(* slots and of tasks.                                                     *)
THEOREM OwnEntryIsRun == NSlots \in Nat \ {0} => (Cmsis!Spec => []Cmsis!RunsOwnEntry)
<1>1. TasksInv => Cmsis!RunsOwnEntry
  BY DEF TasksInv, EntriesOwn, Cmsis!RunsOwnEntry
<1> QED BY <1>1, TasksHold, PTL

\* Both modules take Cardinality from FiniteSets.
LEMMA CmsisCardinality == \A S : Cmsis!Cardinality(S) = Cardinality(S)
BY DEF Cmsis!Cardinality, Cardinality

(* No slot is lost and none is shared: one that is in use has one user, a  *)
(* call of TelOsTaskCreate or the task it made, and a free one has none.   *)
THEOREM SlotsHaveOneUser == NSlots \in Nat \ {0} => (Cmsis!Spec => []Cmsis!SlotsAreAccountedFor)
<1>1. TasksInv => Cmsis!SlotsAreAccountedFor
  <2> SUFFICES ASSUME TasksInv, NEW s \in Cmsis!Slots
               PROVE  Cardinality(Cmsis!SlotUsers(s)) = IF used[s] THEN 1 ELSE 0
    BY CmsisCardinality DEF Cmsis!SlotsAreAccountedFor
  <2>0. SlotsHeld /\ used[s] \in BOOLEAN
    BY DEF TasksInv, TasksType
  <2> DEFINE F == {c \in Creators : Fills(c, s)}
             R == {t \in Cmsis!Tasks : Reads(t, s)}
  <2>1. Cmsis!SlotUsers(s) = F \cup R
    BY DEF Cmsis!SlotUsers, Fills, Reads
  <2>2. CASE used[s] = FALSE
    <3>1. F = {} /\ R = {}
      BY <2>0, <2>2 DEF SlotsHeld
    <3>2. Cmsis!SlotUsers(s) = {}
      BY <2>1, <3>1
    <3> QED BY <2>2, <3>2, FS_EmptySet
  <2>3. CASE used[s] = TRUE
    <3>1. PICK x : Cmsis!SlotUsers(s) = {x}
      <4>1. CASE \E c \in Creators : Fills(c, s)
        <5>1. PICK c \in Creators : Fills(c, s)
          BY <4>1
        <5>2. F = {c} /\ R = {}
          BY <2>0, <5>1 DEF SlotsHeld
        <5> QED BY <2>1, <5>2
      <4>2. CASE \E t \in Cmsis!Tasks : Reads(t, s)
        <5>1. PICK t \in Cmsis!Tasks : Reads(t, s)
          BY <4>2
        <5>2. R = {t} /\ F = {}
          BY <2>0, <5>1 DEF SlotsHeld
        <5> QED BY <2>1, <5>2
      <4> QED BY <2>0, <2>3, <4>1, <4>2 DEF SlotsHeld
    <3>2. Cardinality({x}) = 1
      BY FS_Singleton
    <3> QED BY <2>3, <3>1, <3>2
  <2> QED BY <2>0, <2>2, <2>3
<1> QED BY <1>1, TasksHold, PTL

\* g_taskCount: a task is counted before the kernel makes it and until its
\* entry has returned.
TasksCounted ==
    /\ TasksInv
    /\ IsFiniteSet(Creators) /\ NTasks \in Nat
    /\ taskCount \in Int
    /\ taskCount = Cardinality(Cmsis!Live) + Cardinality(Cmsis!InCreation)

LEMMA CountedSets ==
    ASSUME TasksCounted
    PROVE  /\ IsFiniteSet(Cmsis!Live) /\ IsFiniteSet(Cmsis!InCreation)
           /\ Cardinality(Cmsis!Live) \in Nat /\ Cardinality(Cmsis!InCreation) \in Nat
<1>1. IsFiniteSet(Cmsis!Tasks)
  BY FS_Interval DEF TasksCounted, Cmsis!Tasks
<1>2. Cmsis!Live \subseteq Cmsis!Tasks /\ Cmsis!InCreation \subseteq Creators
  BY DEF Cmsis!Live, Cmsis!InCreation
<1>3. IsFiniteSet(Cmsis!Live) /\ IsFiniteSet(Cmsis!InCreation)
  BY <1>1, <1>2, FS_Subset DEF TasksCounted
<1> QED BY <1>3, FS_CardinalityType

\* A creator steps, and no task.
LEMMA CreatorCounts ==
    ASSUME TasksCounted, TasksInv', task' = task, NEW c \in Creators,
           \A d \in Creators \ {c} : creator'[d] = creator[d],
           \/ creator[c].pc # "create" /\ creator'[c].pc # "create" /\ taskCount' = taskCount
           \/ creator[c].pc # "create" /\ creator'[c].pc = "create" /\ taskCount' = taskCount + 1
           \/ creator[c].pc = "create" /\ creator'[c].pc # "create" /\ taskCount' = taskCount - 1
    PROVE  TasksCounted'
<1>1. Cmsis!Live' = Cmsis!Live
  BY DEF Cmsis!Live
<1>2. /\ IsFiniteSet(Cmsis!Live) /\ IsFiniteSet(Cmsis!InCreation)
      /\ Cardinality(Cmsis!Live) \in Nat /\ Cardinality(Cmsis!InCreation) \in Nat
  BY CountedSets
<1>3. taskCount' \in Int
      /\ taskCount' = Cardinality(Cmsis!Live) + Cardinality(Cmsis!InCreation')
  <2>1. CASE /\ creator[c].pc # "create" /\ creator'[c].pc # "create"
             /\ taskCount' = taskCount
    <3>1. Cmsis!InCreation' = Cmsis!InCreation
      BY <2>1 DEF Cmsis!InCreation
    <3> QED BY <2>1, <3>1 DEF TasksCounted
  <2>2. CASE /\ creator[c].pc # "create" /\ creator'[c].pc = "create"
             /\ taskCount' = taskCount + 1
    <3>1. Cmsis!InCreation' = Cmsis!InCreation \cup {c} /\ c \notin Cmsis!InCreation
      BY <2>2 DEF Cmsis!InCreation
    <3>2. Cardinality(Cmsis!InCreation') = Cardinality(Cmsis!InCreation) + 1
      BY <1>2, <3>1, FS_AddElement
    <3> QED BY <1>2, <2>2, <3>2 DEF TasksCounted
  <2>3. CASE /\ creator[c].pc = "create" /\ creator'[c].pc # "create"
             /\ taskCount' = taskCount - 1
    <3>1. Cmsis!InCreation' = Cmsis!InCreation \ {c} /\ c \in Cmsis!InCreation
      BY <2>3 DEF Cmsis!InCreation
    <3>2. Cardinality(Cmsis!InCreation') = Cardinality(Cmsis!InCreation) - 1
      BY <1>2, <3>1, FS_RemoveElement
    <3> QED BY <1>2, <2>3, <3>2 DEF TasksCounted
  <2> QED BY <2>1, <2>2, <2>3
<1> QED BY <1>1, <1>3 DEF TasksCounted

\* A task steps, and no creator.
LEMMA TaskCounts ==
    ASSUME TasksCounted, TasksInv', creator' = creator, NEW t \in Cmsis!Tasks,
           \A u \in Cmsis!Tasks \ {t} : task'[u] = task[u],
           task[t].pc \in {"start", "read", "run", "leave"},
           \/ task'[t].pc \in {"start", "read", "run", "leave"} /\ taskCount' = taskCount
           \/ task'[t].pc = "gone" /\ taskCount' = taskCount - 1
    PROVE  TasksCounted'
<1>1. Cmsis!InCreation' = Cmsis!InCreation
  BY DEF Cmsis!InCreation
<1>2. /\ IsFiniteSet(Cmsis!Live) /\ IsFiniteSet(Cmsis!InCreation)
      /\ Cardinality(Cmsis!Live) \in Nat /\ Cardinality(Cmsis!InCreation) \in Nat
  BY CountedSets
<1>3. taskCount' \in Int
      /\ taskCount' = Cardinality(Cmsis!Live') + Cardinality(Cmsis!InCreation)
  <2>1. CASE task'[t].pc \in {"start", "read", "run", "leave"} /\ taskCount' = taskCount
    <3>1. Cmsis!Live' = Cmsis!Live
      BY <2>1 DEF Cmsis!Live
    <3> QED BY <2>1, <3>1 DEF TasksCounted
  <2>2. CASE task'[t].pc = "gone" /\ taskCount' = taskCount - 1
    <3>1. Cmsis!Live' = Cmsis!Live \ {t} /\ t \in Cmsis!Live
      BY <2>2 DEF Cmsis!Live
    <3>2. Cardinality(Cmsis!Live') = Cardinality(Cmsis!Live) - 1
      BY <1>2, <3>1, FS_RemoveElement
    <3> QED BY <1>2, <2>2, <3>2 DEF TasksCounted
  <2> QED BY <2>1, <2>2
<1> QED BY <1>1, <1>3 DEF TasksCounted

\* A task takes over from its creator.
LEMMA HandOverCounts ==
    ASSUME TasksCounted, TasksInv', NEW c \in Creators, Cmsis!KernelCreate(c)
    PROVE  TasksCounted'
<1>1. PICK t \in Cmsis!Tasks :
         /\ task[t] = Cmsis!NoTask
         /\ task' = [task EXCEPT ![t] = [pc |-> "start", slot |-> creator[c].slot,
                                        asked |-> c, entry |-> None]]
  BY DEF Cmsis!KernelCreate
<1>2. /\ creator[c].pc = "create" /\ taskCount' = taskCount
      /\ creator' = [creator EXCEPT ![c] = [pc |-> "idle", slot |-> 0]]
      /\ creator \in [Creators -> [pc : {"idle", "claim", "fill", "create"}, slot : 0..NSlots]]
      /\ DOMAIN task = Cmsis!Tasks
  BY DEF Cmsis!KernelCreate, Cmsis!Goto, TasksCounted, TasksInv, TasksType
<1>3. Cmsis!InCreation' = Cmsis!InCreation \ {c} /\ c \in Cmsis!InCreation
  BY <1>2 DEF Cmsis!InCreation
<1>4. Cmsis!Live' = Cmsis!Live \cup {t} /\ t \notin Cmsis!Live
  BY <1>1, <1>2 DEF Cmsis!Live, Cmsis!NoTask
<1>5. /\ IsFiniteSet(Cmsis!Live) /\ IsFiniteSet(Cmsis!InCreation)
      /\ Cardinality(Cmsis!Live) \in Nat /\ Cardinality(Cmsis!InCreation) \in Nat
  BY CountedSets
<1>6. /\ Cardinality(Cmsis!Live') = Cardinality(Cmsis!Live) + 1
      /\ Cardinality(Cmsis!InCreation') = Cardinality(Cmsis!InCreation) - 1
  BY <1>3, <1>4, <1>5, FS_AddElement, FS_RemoveElement
<1> QED BY <1>2, <1>5, <1>6 DEF TasksCounted

LEMMA CountStep ==
    ASSUME TasksCounted, [Cmsis!Next]_(Cmsis!vars)
    PROVE  TasksCounted'
<1>1. TasksInv /\ TasksInv'
  BY TasksStep DEF TasksCounted
<1>2. /\ creator \in [Creators -> [pc : {"idle", "claim", "fill", "create"}, slot : 0..NSlots]]
      /\ DOMAIN task = Cmsis!Tasks
  BY <1>1 DEF TasksInv, TasksType
<1>3. ASSUME NEW c \in Creators,
             Cmsis!Create(c) \/ Cmsis!Claim(c) \/ Cmsis!Fill(c) \/ Cmsis!KernelFails(c)
      PROVE  TasksCounted'
  <2>1. PICK pc, s : creator' = [creator EXCEPT ![c] = [pc |-> pc, slot |-> s]]
    BY <1>3 DEF Cmsis!Create, Cmsis!Claim, Cmsis!Fill, Cmsis!KernelFails, Cmsis!Goto
  <2>2. /\ creator'[c] = [pc |-> pc, slot |-> s] /\ task' = task
        /\ \A d \in Creators \ {c} : creator'[d] = creator[d]
    BY <1>2, <1>3, <2>1 DEF Cmsis!Create, Cmsis!Claim, Cmsis!Fill, Cmsis!KernelFails
  <2>3. CASE Cmsis!Create(c) \/ Cmsis!Claim(c)
    <3>1. creator[c].pc # "create" /\ creator'[c].pc # "create" /\ taskCount' = taskCount
      BY <1>2, <2>3 DEF Cmsis!Create, Cmsis!Claim, Cmsis!Goto
    <3> QED BY <1>1, <2>2, <3>1, CreatorCounts
  <2>4. CASE Cmsis!Fill(c)
    <3>1. creator[c].pc # "create" /\ creator'[c].pc = "create" /\ taskCount' = taskCount + 1
      BY <1>2, <2>4 DEF Cmsis!Fill, Cmsis!Goto
    <3> QED BY <1>1, <2>2, <3>1, CreatorCounts
  <2>5. CASE Cmsis!KernelFails(c)
    <3>1. creator[c].pc = "create" /\ creator'[c].pc # "create" /\ taskCount' = taskCount - 1
      BY <1>2, <2>5 DEF Cmsis!KernelFails, Cmsis!Goto
    <3> QED BY <1>1, <2>2, <3>1, CreatorCounts
  <2> QED BY <1>3, <2>3, <2>4, <2>5
<1>4. ASSUME NEW c \in Creators, Cmsis!KernelCreate(c)
      PROVE  TasksCounted'
  BY <1>1, <1>4, HandOverCounts
<1>5. ASSUME NEW t \in Cmsis!Tasks,
             Cmsis!ReadEntry(t) \/ Cmsis!FreeSlot(t) \/ Cmsis!EntryReturns(t) \/ Cmsis!Leave(t)
      PROVE  TasksCounted'
  <2>1. /\ creator' = creator /\ \A u \in Cmsis!Tasks \ {t} : task'[u] = task[u]
    BY <1>2, <1>5 DEF Cmsis!ReadEntry, Cmsis!FreeSlot, Cmsis!EntryReturns, Cmsis!Leave,
       Cmsis!Step
  <2>2. task[t] \in [pc : {"none", "start", "read", "run", "leave", "gone"},
                     slot : 0..NSlots, asked : Creators \cup {None},
                     entry : Creators \cup {None}]
    BY <1>1 DEF TasksInv, TasksType
  <2>3. /\ task[t].pc \in {"start", "read", "run", "leave"}
        /\ \/ task'[t].pc \in {"start", "read", "run", "leave"} /\ taskCount' = taskCount
           \/ task'[t].pc = "gone" /\ taskCount' = taskCount - 1
    BY <1>2, <1>5, <2>2 DEF Cmsis!ReadEntry, Cmsis!FreeSlot, Cmsis!EntryReturns,
       Cmsis!Leave, Cmsis!At, Cmsis!Step
  <2> QED BY <1>1, <2>1, <2>3, TaskCounts
<1>6. ASSUME UNCHANGED Cmsis!vars
      PROVE  TasksCounted'
  BY <1>1, <1>6 DEF Cmsis!vars, TasksCounted, Cmsis!Live, Cmsis!InCreation
<1> QED BY <1>3, <1>4, <1>5, <1>6 DEF Cmsis!Next

LEMMA CountedInit ==
    NSlots \in Nat \ {0} /\ NTasks \in Nat /\ IsFiniteSet(Creators) /\ Cmsis!Init
        => TasksCounted
<1> SUFFICES ASSUME NSlots \in Nat \ {0}, NTasks \in Nat, IsFiniteSet(Creators), Cmsis!Init
             PROVE  TasksCounted
  OBVIOUS
<1>1. Cmsis!Live = {} /\ Cmsis!InCreation = {} /\ taskCount = 0
  BY DEF Cmsis!Init, Cmsis!NoTask, Cmsis!Live, Cmsis!InCreation
<1> QED BY <1>1, TasksInit, FS_EmptySet DEF TasksCounted

(* g_taskCount counts the tasks that run and those that are being made,    *)
(* each once, so TelOsGetObjectCount never shows fewer than run.           *)
THEOREM TasksAreCounted ==
    NSlots \in Nat \ {0} /\ NTasks \in Nat /\ IsFiniteSet(Creators)
        => (Cmsis!Spec => []Cmsis!CountsTheLiving)
<1>1. NSlots \in Nat \ {0} /\ NTasks \in Nat /\ IsFiniteSet(Creators) /\ Cmsis!Init
         => TasksCounted
  BY CountedInit
<1>2. TasksCounted /\ [Cmsis!Next]_(Cmsis!vars) => TasksCounted'
  BY CountStep
<1>3. TasksCounted => Cmsis!CountsTheLiving
  BY CmsisCardinality DEF TasksCounted, Cmsis!CountsTheLiving
<1> QED BY <1>1, <1>2, <1>3, PTL DEF Cmsis!Spec

(* The task slots have their types, and g_taskCount never exceeds the      *)
(* tasks there can be.                                                     *)
THEOREM TaskSlotsTyped ==
    NSlots \in Nat \ {0} /\ NTasks \in Nat /\ IsFiniteSet(Creators)
        => (Cmsis!Spec => []Cmsis!TypeOK)
<1>1. TasksCounted => Cmsis!TypeOK
  <2> SUFFICES ASSUME TasksCounted PROVE Cmsis!TypeOK
    OBVIOUS
  <2>1. taskCount \in 0..(NTasks + Cardinality(Creators))
    <3>0. NTasks \in Nat /\ Cmsis!Tasks = 1..NTasks
      BY DEF TasksCounted, Cmsis!Tasks
    <3>1. /\ Cmsis!Live \subseteq Cmsis!Tasks /\ Cmsis!InCreation \subseteq Creators
          /\ IsFiniteSet(Cmsis!Tasks) /\ Cardinality(Cmsis!Tasks) = NTasks
      <4>1. Cardinality(1..NTasks) = IF 1 > NTasks THEN 0 ELSE NTasks - 1 + 1
        BY <3>0, FS_Interval
      <4>2. IsFiniteSet(1..NTasks)
        BY <3>0, FS_Interval
      <4>3. Cardinality(1..NTasks) = NTasks
        BY <3>0, <4>1
      <4> QED BY <3>0, <4>2, <4>3 DEF Cmsis!Live, Cmsis!InCreation
    <3>2. /\ Cardinality(Cmsis!Live) <= NTasks
          /\ Cardinality(Cmsis!InCreation) <= Cardinality(Creators)
          /\ Cardinality(Creators) \in Nat
      BY <3>1, FS_Subset, FS_CardinalityType DEF TasksCounted
    <3>3. Cardinality(Cmsis!Live) \in Nat /\ Cardinality(Cmsis!InCreation) \in Nat
      BY CountedSets
    <3> QED BY <3>2, <3>3 DEF TasksCounted
  <2> QED BY <2>1, CmsisCardinality
          DEF TasksCounted, TasksInv, TasksType, Cmsis!TypeOK, Cmsis!Entries
<1>2. TasksCounted /\ [Cmsis!Next]_(Cmsis!vars) => TasksCounted'
  BY CountStep
<1>3. NSlots \in Nat \ {0} /\ NTasks \in Nat /\ IsFiniteSet(Creators) /\ Cmsis!Init
         => TasksCounted
  BY CountedInit
<1> QED BY <1>1, <1>2, <1>3, PTL DEF Cmsis!Spec

-----------------------------------------------------------------------------
(***************************************************************************)
(* The semaphore of tel_os_adapter_posix.cpp.                              *)
(***************************************************************************)
CONSTANTS Users, InitialCount, MaxCount
VARIABLES units, waiter, limit, result

Sem == INSTANCE Semaphores WITH count <- units, pc <- waiter

UnitsInv ==
    /\ InitialCount \in Nat /\ MaxCount \in Nat /\ InitialCount <= MaxCount
    /\ units \in 0..MaxCount
    /\ waiter \in [Users -> {"idle", "asleep", "awake", "expired", "checked"}]
    /\ result \in [Users -> {"OK", "FAIL", "TIMEOUT"}]

LEMMA UnitsStep ==
    ASSUME UnitsInv, [Sem!PosixNext]_(Sem!vars)
    PROVE  UnitsInv'
<1>1. CASE UNCHANGED Sem!vars
  BY <1>1 DEF UnitsInv, Sem!vars
<1>2. ASSUME NEW u \in Users, NEW l, Sem!Wait(u, l) PROVE UnitsInv'
  BY <1>2 DEF UnitsInv, Sem!Wait, Sem!Goto
<1>3. ASSUME NEW u \in Users, Sem!Take(u) PROVE UnitsInv'
  BY <1>3 DEF UnitsInv, Sem!Take, Sem!Goto, Sem!Answer
<1>4. ASSUME NEW u \in Users, Sem!GiveUp(u) \/ Sem!RefusePost(u) PROVE UnitsInv'
  BY <1>4 DEF UnitsInv, Sem!GiveUp, Sem!RefusePost, Sem!Goto, Sem!Answer
<1>5. ASSUME NEW u \in Users, Sem!Sleep(u) \/ Sem!Expire(u) \/ Sem!WakeUp(u)
      PROVE  UnitsInv'
  BY <1>5 DEF UnitsInv, Sem!Sleep, Sem!Expire, Sem!WakeUp, Sem!Goto
<1>6. ASSUME NEW u \in Users, Sem!Post(u) PROVE UnitsInv'
  BY <1>6 DEF UnitsInv, Sem!Post, Sem!Goto
<1> QED BY <1>1, <1>2, <1>3, <1>4, <1>5, <1>6 DEF Sem!PosixNext, Sem!InWait

LEMMA UnitsHold ==
    InitialCount \in Nat /\ MaxCount \in Nat /\ InitialCount <= MaxCount /\ Sem!PosixSpec
        => []UnitsInv
<1>1. InitialCount \in Nat /\ MaxCount \in Nat /\ InitialCount <= MaxCount /\ Sem!Init
         => UnitsInv
  <2> SUFFICES ASSUME InitialCount \in Nat, MaxCount \in Nat, InitialCount <= MaxCount,
                      Sem!Init
               PROVE  UnitsInv
    OBVIOUS
  <2>1. units \in 0..MaxCount
    BY DEF Sem!Init
  <2>2. /\ waiter \in [Users -> {"idle", "asleep", "awake", "expired", "checked"}]
        /\ result \in [Users -> {"OK", "FAIL", "TIMEOUT"}]
    BY DEF Sem!Init
  <2> QED BY <2>1, <2>2 DEF UnitsInv
<1>2. UnitsInv /\ [Sem!PosixNext]_(Sem!vars) => UnitsInv'
  BY UnitsStep
<1> QED BY <1>1, <1>2, PTL DEF Sem!PosixSpec

(* A post fails once the count has reached maxCount, so it never goes over *)
(* it: on POSIX TelOsSemPost looks and counts under one lock.              *)
THEOREM PostsStayBounded ==
    InitialCount \in Nat /\ MaxCount \in Nat /\ InitialCount <= MaxCount
        => (Sem!PosixSpec => []Sem!CountBounded)
<1>1. UnitsInv => Sem!CountBounded
  BY DEF UnitsInv, Sem!CountBounded
<1> QED BY <1>1, UnitsHold, PTL

(* A wait ends with TIMEOUT only while there is no unit: TelOsSemWait      *)
(* looks at the count once more when its time is over.                     *)
LEMMA UnitsAreTaken ==
    InitialCount \in Nat /\ MaxCount \in Nat /\ InitialCount <= MaxCount
        => (Sem!PosixSpec => Sem!NoUnitMissed)
<1>1. ASSUME UnitsInv, [Sem!PosixNext]_(Sem!vars)
      PROVE  \A u \in Users :
                /\ waiter[u] \in {"awake", "expired"} /\ waiter'[u] = "idle"
                /\ result'[u] = "TIMEOUT"
                => units = 0
  <2> SUFFICES ASSUME NEW u \in Users, waiter[u] \in {"awake", "expired"},
                      waiter'[u] = "idle", result'[u] = "TIMEOUT"
               PROVE  units = 0
    OBVIOUS
  <2>1. ~UNCHANGED Sem!vars
    BY DEF Sem!vars
  <2>2. PICK w \in Users :
           \/ \E l \in {"poll", "finite", "forever"} : Sem!Wait(w, l)
           \/ Sem!InWait(w) \/ Sem!WakeUp(w) \/ Sem!Post(w) \/ Sem!RefusePost(w)
    BY <1>1, <2>1 DEF Sem!PosixNext
  <2>3. CASE \E l \in {"poll", "finite", "forever"} : Sem!Wait(w, l)
    BY <1>1, <2>3 DEF UnitsInv, Sem!Wait, Sem!Goto
  <2>4. CASE Sem!Take(w)
    BY <1>1, <2>4 DEF UnitsInv, Sem!Take, Sem!Goto, Sem!Answer
  <2>5. CASE Sem!GiveUp(w)
    BY <2>5 DEF Sem!GiveUp
  <2>6. CASE Sem!Sleep(w) \/ Sem!Expire(w) \/ Sem!WakeUp(w)
    BY <1>1, <2>6 DEF UnitsInv, Sem!Sleep, Sem!Expire, Sem!WakeUp, Sem!Goto
  <2>7. CASE Sem!Post(w)
    BY <1>1, <2>7 DEF UnitsInv, Sem!Post, Sem!Goto
  <2>8. CASE Sem!RefusePost(w)
    BY <1>1, <2>8 DEF UnitsInv, Sem!RefusePost, Sem!Goto, Sem!Answer
  <2> QED BY <2>2, <2>3, <2>4, <2>5, <2>6, <2>7, <2>8 DEF Sem!InWait
<1>2. UnitsInv /\ [Sem!PosixNext]_(Sem!vars)
         => [\A u \in Users : waiter[u] \in {"awake", "expired"} /\ waiter'[u] = "idle"
                               /\ result'[u] = "TIMEOUT"
                => units = 0]_(Sem!vars)
  BY <1>1
<1> QED BY <1>2, UnitsHold, PTL DEF Sem!NoUnitMissed, Sem!PosixSpec

(* So have the variables of the POSIX semaphore.                           *)
THEOREM UnitsTyped ==
    InitialCount \in Nat /\ MaxCount \in Nat /\ InitialCount <= MaxCount
        => (Sem!PosixSpec => []Sem!TypeOK)
<1> DEFINE L == limit \in [Users -> {"poll", "finite", "forever"}]
<1>1. Sem!Init => L
  BY DEF Sem!Init
<1>2. L /\ [Sem!PosixNext]_(Sem!vars) => L'
  <2> SUFFICES ASSUME L, [Sem!PosixNext]_(Sem!vars) PROVE L'
    OBVIOUS
  <2>1. ASSUME NEW u \in Users, NEW l \in {"poll", "finite", "forever"}, Sem!Wait(u, l)
        PROVE  L'
    BY <2>1 DEF Sem!Wait
  <2>2. ASSUME limit' = limit PROVE L'
    BY <2>2
  <2> QED BY <2>1, <2>2 DEF Sem!PosixNext, Sem!InWait, Sem!WakeUp, Sem!Post, Sem!RefusePost,
             Sem!Take, Sem!GiveUp, Sem!Sleep, Sem!Expire, Sem!vars
<1>3. UnitsInv /\ L => Sem!TypeOK
  BY DEF UnitsInv, Sem!TypeOK
<1> QED BY <1>1, <1>2, <1>3, UnitsHold, PTL DEF Sem!PosixSpec

-----------------------------------------------------------------------------
(***************************************************************************)
(* The timer slots of tel_os_adapter_cmsis.cpp.                            *)
(***************************************************************************)
CONSTANTS Slots, TimerTask, MaxQueue
VARIABLES slotUsed, inCallback, callback, kernel, queue, called, slotCall, slotCount,
          slotAnswer

Slot == INSTANCE CmsisTimers WITH
    used <- slotUsed, running <- called, call <- slotCall, count <- slotCount,
    answer <- slotAnswer

SlotsType ==
    /\ None \notin Slots
    /\ slotUsed \in [Slots -> BOOLEAN]
    /\ callback \in [Slots -> BOOLEAN]
    /\ kernel \in [Slots -> {"none", "stopped", "ticking"}]
    /\ slotCall \in [Slot!Callers -> [op : Slot!Ops, slot : Slots \cup {None}]]

\* What a call in progress leaves of its slot.
Leaves(op, k, b) ==
    /\ op \in {"filling", "spin", "clear", "release"} => k = "none"
    /\ op = "release" => b = FALSE

\* A free slot is clean, and a call in progress has a slot in use of its own.
SlotsClean ==
    /\ \A s \in Slots : slotUsed[s] = FALSE => callback[s] = FALSE /\ kernel[s] = "none"
    /\ \A c \in Slot!Callers : slotCall[c].op = "none" <=> slotCall[c].slot = None
    /\ \A c, d \in Slot!Callers :
          slotCall[c].slot = slotCall[d].slot /\ slotCall[c].slot # None => c = d
    /\ \A c \in Slot!Callers : slotCall[c].op # "none" =>
          /\ slotUsed[slotCall[c].slot] = TRUE
          /\ Leaves(slotCall[c].op, kernel[slotCall[c].slot], callback[slotCall[c].slot])

SlotsInv == SlotsType /\ SlotsClean

LEMMA SlotsInit == None \notin Slots /\ Slot!Init => SlotsInv
<1> SUFFICES ASSUME None \notin Slots, Slot!Init PROVE SlotsInv
  OBVIOUS
<1>1. \A c \in Slot!Callers : slotCall[c].op = "none" /\ slotCall[c].slot = None
  BY DEF Slot!Init, Slot!Idle
<1>2. /\ Slot!Idle \in [op : Slot!Ops, slot : Slots \cup {None}]
      /\ slotCall = [c \in Slot!Callers |-> Slot!Idle]
  BY DEF Slot!Init, Slot!Idle, Slot!Ops
<1>3. SlotsType
  BY <1>2 DEF Slot!Init, SlotsType
<1>4. SlotsClean
  BY <1>1 DEF Slot!Init, SlotsClean
<1> QED BY <1>3, <1>4 DEF SlotsInv

\* A step of one caller that concerns one slot, which no other call is about.
LEMMA OneSlot ==
    ASSUME SlotsInv, SlotsType', NEW c \in Slot!Callers, NEW s \in Slots,
           \A d \in Slot!Callers \ {c} : slotCall[d].slot # s /\ slotCall'[d] = slotCall[d],
           \A r \in Slots \ {s} : /\ slotUsed'[r] = slotUsed[r]
                                  /\ callback'[r] = callback[r] /\ kernel'[r] = kernel[r],
           slotUsed'[s] = FALSE => callback'[s] = FALSE /\ kernel'[s] = "none",
           slotCall'[c].op = "none" <=> slotCall'[c].slot = None,
           slotCall'[c].op # "none" =>
              /\ slotCall'[c].slot = s /\ slotUsed'[s] = TRUE
              /\ Leaves(slotCall'[c].op, kernel'[s], callback'[s])
    PROVE  SlotsInv'
<1>0. SlotsType /\ SlotsClean
  BY DEF SlotsInv
<1>1. \A r \in Slots : slotUsed'[r] = FALSE => callback'[r] = FALSE /\ kernel'[r] = "none"
  BY <1>0 DEF SlotsClean
<1>2. \A d \in Slot!Callers : slotCall'[d].op = "none" <=> slotCall'[d].slot = None
  BY <1>0 DEF SlotsClean
<1>3. \A d \in Slot!Callers \ {c} : slotCall'[d].slot # s
  OBVIOUS
<1>4. \A d, e \in Slot!Callers :
         slotCall'[d].slot = slotCall'[e].slot /\ slotCall'[d].slot # None => d = e
  <2> SUFFICES ASSUME NEW d \in Slot!Callers, NEW e \in Slot!Callers, d # e,
                      slotCall'[d].slot = slotCall'[e].slot, slotCall'[d].slot # None
               PROVE  FALSE
    OBVIOUS
  <2>1. CASE d = c \/ e = c
    BY <1>2, <1>3, <2>1
  <2>2. CASE d # c /\ e # c
    BY <1>0, <2>2 DEF SlotsClean
  <2> QED BY <2>1, <2>2
<1>5. ASSUME NEW d \in Slot!Callers, slotCall'[d].op # "none"
      PROVE  /\ slotUsed'[slotCall'[d].slot] = TRUE
             /\ Leaves(slotCall'[d].op, kernel'[slotCall'[d].slot],
                       callback'[slotCall'[d].slot])
  <2>1. CASE d = c
    BY <1>5, <2>1
  <2>2. CASE d # c
    <3>1. /\ slotCall'[d] = slotCall[d] /\ slotCall[d].slot # s
          /\ slotCall[d].slot \in Slots \cup {None}
      BY <1>0, <2>2 DEF SlotsType
    <3>2. slotCall[d].slot \in Slots \ {s}
      BY <1>0, <1>5, <3>1 DEF SlotsClean
    <3> QED BY <1>0, <1>5, <3>1, <3>2 DEF SlotsClean
  <2> QED BY <2>1, <2>2
<1>6. SlotsClean'
  BY <1>1, <1>2, <1>4, <1>5 DEF SlotsClean
<1> QED BY <1>6 DEF SlotsInv

\* Goto: the caller goes on.
LEMMA CallerGoes ==
    ASSUME SlotsInv, NEW c \in Slot!Callers, NEW op \in Slot!Ops,
           NEW s \in Slots \cup {None}, Slot!Goto(c, op, s)
    PROVE  /\ slotCall' \in [Slot!Callers -> [op : Slot!Ops, slot : Slots \cup {None}]]
           /\ slotCall'[c].op = op /\ slotCall'[c].slot = s
           /\ \A d \in Slot!Callers \ {c} : slotCall'[d] = slotCall[d]
BY DEF SlotsInv, SlotsType, Slot!Goto

\* The slot of a call in progress.
LEMMA SlotOfCall ==
    ASSUME SlotsInv, NEW c \in Slot!Callers, slotCall[c].op # "none"
    PROVE  /\ slotCall[c].slot \in Slots /\ slotUsed[slotCall[c].slot] = TRUE
           /\ \A d \in Slot!Callers \ {c} : slotCall[d].slot # slotCall[c].slot
           /\ Leaves(slotCall[c].op, kernel[slotCall[c].slot], callback[slotCall[c].slot])
<1>1. slotCall[c].slot \in Slots \cup {None} /\ SlotsClean
  BY DEF SlotsInv, SlotsType
<1>2. slotCall[c].slot \in Slots
  BY <1>1 DEF SlotsClean
<1> QED BY <1>1, <1>2 DEF SlotsInv, SlotsType, SlotsClean

LEMMA ClaimInv ==
    ASSUME SlotsInv, NEW c \in Slot!Callers, Slot!ClaimSlot(c)
    PROVE  SlotsInv'
<1>0. SlotsType /\ SlotsClean
  BY DEF SlotsInv
<1>1. PICK s \in Slots :
         /\ ~slotUsed[s] /\ slotUsed' = [slotUsed EXCEPT ![s] = TRUE]
         /\ Slot!Goto(c, "filling", s)
  BY DEF Slot!ClaimSlot
<1>2. slotUsed[s] = FALSE /\ UNCHANGED <<callback, kernel>>
  BY <1>0, <1>1 DEF Slot!ClaimSlot, Slot!kernelVars, SlotsType
<1>3. /\ slotCall' \in [Slot!Callers -> [op : Slot!Ops, slot : Slots \cup {None}]]
      /\ slotCall'[c].op = "filling" /\ slotCall'[c].slot = s
      /\ \A d \in Slot!Callers \ {c} : slotCall'[d] = slotCall[d]
  BY <1>1, CallerGoes DEF Slot!Ops
<1>4. \A d \in Slot!Callers : slotCall[d].slot # s
  BY <1>0, <1>2 DEF SlotsType, SlotsClean
<1>5. /\ slotUsed' \in [Slots -> BOOLEAN] /\ slotUsed'[s] = TRUE
      /\ \A r \in Slots \ {s} : slotUsed'[r] = slotUsed[r]
  BY <1>0, <1>1 DEF SlotsType
<1>6. SlotsType'
  BY <1>0, <1>2, <1>3, <1>5 DEF SlotsType
<1>7. kernel'[s] = "none"
  BY <1>0, <1>2 DEF SlotsClean
<1>8. Leaves(slotCall'[c].op, kernel'[s], callback'[s])
  BY <1>3, <1>7 DEF Leaves
<1>9. /\ \A d \in Slot!Callers \ {c} : slotCall[d].slot # s /\ slotCall'[d] = slotCall[d]
      /\ \A r \in Slots \ {s} : /\ slotUsed'[r] = slotUsed[r]
                                /\ callback'[r] = callback[r] /\ kernel'[r] = kernel[r]
  BY <1>2, <1>3, <1>4, <1>5
<1>10. /\ slotUsed'[s] = FALSE => callback'[s] = FALSE /\ kernel'[s] = "none"
       /\ slotCall'[c].op = "none" <=> slotCall'[c].slot = None
       /\ slotCall'[c].op # "none" =>
             /\ slotCall'[c].slot = s /\ slotUsed'[s] = TRUE
             /\ Leaves(slotCall'[c].op, kernel'[s], callback'[s])
  BY <1>0, <1>3, <1>5, <1>8 DEF SlotsType
<1> QED BY <1>6, <1>9, <1>10, OneSlot

\* A call in progress goes on with its slot.
LEMMA ContinueInv ==
    ASSUME SlotsInv, NEW c \in Slot!Callers, Slot!Continue(c)
    PROVE  SlotsInv'
<1>0. SlotsType /\ SlotsClean
  BY DEF SlotsInv
<1>s. PICK s : s = slotCall[c].slot
  OBVIOUS
<1>1. slotCall[c].op # "none"
  BY DEF Slot!Continue, Slot!New, Slot!NewFails, Slot!Created, Slot!Spin, Slot!Clear,
         Slot!Release, Slot!At
<1>2. /\ s \in Slots /\ slotUsed[s] = TRUE /\ s # None
      /\ \A d \in Slot!Callers \ {c} : slotCall[d].slot # s
      /\ Leaves(slotCall[c].op, kernel[s], callback[s])
  BY <1>0, <1>s, <1>1, SlotOfCall DEF SlotsType
<1>3. ASSUME NEW op \in Slot!Ops, NEW r \in Slots \cup {None}, Slot!Goto(c, op, r),
             NEW b \in BOOLEAN, NEW f \in BOOLEAN, NEW k \in {"none", "stopped", "ticking"},
             slotUsed' = [slotUsed EXCEPT ![s] = b], callback' = [callback EXCEPT ![s] = f],
             kernel' = [kernel EXCEPT ![s] = k],
             b = FALSE => f = FALSE /\ k = "none", op = "none" <=> r = None,
             op # "none" => r = s /\ b = TRUE /\ Leaves(op, k, f)
      PROVE  SlotsInv'
  <2>1. /\ slotCall' \in [Slot!Callers -> [op : Slot!Ops, slot : Slots \cup {None}]]
        /\ slotCall'[c].op = op /\ slotCall'[c].slot = r
        /\ \A d \in Slot!Callers \ {c} : slotCall'[d] = slotCall[d]
    BY <1>3, CallerGoes
  <2>2. /\ slotUsed' \in [Slots -> BOOLEAN] /\ slotUsed'[s] = b
        /\ \A q \in Slots \ {s} : slotUsed'[q] = slotUsed[q]
    BY <1>0, <1>2, <1>3 DEF SlotsType
  <2>3. /\ callback' \in [Slots -> BOOLEAN] /\ callback'[s] = f
        /\ \A q \in Slots \ {s} : callback'[q] = callback[q]
    BY <1>0, <1>2, <1>3 DEF SlotsType
  <2>4. /\ kernel' \in [Slots -> {"none", "stopped", "ticking"}] /\ kernel'[s] = k
        /\ \A q \in Slots \ {s} : kernel'[q] = kernel[q]
    BY <1>0, <1>2, <1>3 DEF SlotsType
  <2>5. SlotsType'
    BY <1>0, <2>1, <2>2, <2>3, <2>4 DEF SlotsType
  <2>6. /\ \A d \in Slot!Callers \ {c} : slotCall[d].slot # s /\ slotCall'[d] = slotCall[d]
        /\ \A q \in Slots \ {s} : /\ slotUsed'[q] = slotUsed[q]
                                  /\ callback'[q] = callback[q] /\ kernel'[q] = kernel[q]
    BY <1>2, <2>1, <2>2, <2>3, <2>4
  <2>7. slotUsed'[s] = FALSE => callback'[s] = FALSE /\ kernel'[s] = "none"
    BY <1>3, <2>2, <2>3, <2>4
  <2>8. slotCall'[c].op = "none" <=> slotCall'[c].slot = None
    BY <1>3, <2>1
  <2>9. slotCall'[c].op # "none" =>
           /\ slotCall'[c].slot = s /\ slotUsed'[s] = TRUE
           /\ Leaves(slotCall'[c].op, kernel'[s], callback'[s])
    BY <1>3, <2>1, <2>2, <2>3, <2>4
  <2> QED BY <1>2, <2>5, <2>6, <2>7, <2>8, <2>9, OneSlot
<1>4. /\ slotUsed = [slotUsed EXCEPT ![s] = TRUE]
      /\ callback = [callback EXCEPT ![s] = callback[s]] /\ callback[s] \in BOOLEAN
      /\ kernel = [kernel EXCEPT ![s] = kernel[s]]
      /\ kernel[s] \in {"none", "stopped", "ticking"}
  <2>1. slotUsed = [slotUsed EXCEPT ![s] = slotUsed[s]]
    BY <1>0, <1>2 DEF SlotsType
  <2> QED BY <1>0, <1>2, <2>1 DEF SlotsType
<1> USE DEF Slot!slotVars, Slot!kernelVars, Slot!At
<1>5. CASE Slot!New(c)
  <2>1. Leaves("counting", "stopped", TRUE) /\ "counting" \in Slot!Ops
    BY DEF Leaves, Slot!Ops
  <2>2. /\ Slot!Goto(c, "counting", s) /\ slotUsed' = slotUsed
        /\ callback' = [callback EXCEPT ![s] = TRUE]
        /\ kernel' = [kernel EXCEPT ![s] = "stopped"]
    BY <1>s, <1>5 DEF Slot!New
  <2> QED BY <1>2, <1>3, <1>4, <2>1, <2>2
<1>6. CASE Slot!NewFails(c)
  <2>1. kernel[s] = "none" /\ "none" \in Slot!Ops
    BY <1>2, <1>6 DEF Leaves, Slot!NewFails, Slot!Ops
  <2>2. /\ Slot!Goto(c, "none", None) /\ kernel' = kernel
        /\ callback' = [callback EXCEPT ![s] = FALSE]
        /\ slotUsed' = [slotUsed EXCEPT ![s] = FALSE]
    BY <1>s, <1>6 DEF Slot!NewFails
  <2> QED BY <1>2, <1>3, <1>4, <2>1, <2>2
<1>7. CASE Slot!Created(c)
  <2>1. "none" \in Slot!Ops
    BY DEF Slot!Ops
  <2>2. Slot!Goto(c, "none", None) /\ UNCHANGED <<kernel, callback, slotUsed>>
    BY <1>7 DEF Slot!Created
  <2> QED BY <1>2, <1>3, <1>4, <2>1, <2>2
<1>8. CASE Slot!Spin(c)
  <2>1. Leaves("clear", kernel[s], callback[s]) /\ "clear" \in Slot!Ops
    BY <1>2, <1>8 DEF Leaves, Slot!Ops, Slot!Spin
  <2>2. Slot!Goto(c, "clear", s) /\ UNCHANGED <<kernel, callback, slotUsed>>
    BY <1>s, <1>8 DEF Slot!Spin
  <2> QED BY <1>2, <1>3, <1>4, <2>1, <2>2
<1>9. CASE Slot!Clear(c)
  <2>1. Leaves("release", kernel[s], FALSE) /\ "release" \in Slot!Ops
    BY <1>2, <1>9 DEF Leaves, Slot!Ops, Slot!Clear
  <2>2. /\ Slot!Goto(c, "release", s) /\ UNCHANGED <<kernel, slotUsed>>
        /\ callback' = [callback EXCEPT ![s] = FALSE]
    BY <1>s, <1>9 DEF Slot!Clear
  <2> QED BY <1>2, <1>3, <1>4, <2>1, <2>2
<1>10. CASE Slot!Release(c)
  <2>1. kernel[s] = "none" /\ callback[s] = FALSE /\ "none" \in Slot!Ops
    BY <1>2, <1>10 DEF Leaves, Slot!Release, Slot!Ops
  <2>2. /\ Slot!Goto(c, "none", None) /\ UNCHANGED <<kernel, callback>>
        /\ slotUsed' = [slotUsed EXCEPT ![s] = FALSE]
    BY <1>s, <1>10 DEF Slot!Release
  <2> QED BY <1>2, <1>3, <1>4, <2>1, <2>2
<1> QED BY <1>5, <1>6, <1>7, <1>8, <1>9, <1>10 DEF Slot!Continue

\* Start, Stop and an expiry change a kernel timer that no call deletes.
LEMMA KernelInv ==
    ASSUME SlotsInv, NEW s \in Slots, kernel[s] # "none", NEW k \in {"stopped", "ticking"},
           kernel' = [kernel EXCEPT ![s] = k], UNCHANGED <<slotUsed, callback, slotCall>>
    PROVE  SlotsInv'
<1>0. SlotsType /\ SlotsClean
  BY DEF SlotsInv
<1>1. /\ kernel' \in [Slots -> {"none", "stopped", "ticking"}] /\ kernel'[s] = k
      /\ \A r \in Slots \ {s} : kernel'[r] = kernel[r]
  BY <1>0 DEF SlotsType
<1>2. SlotsType'
  BY <1>0, <1>1 DEF SlotsType
<1>3. \A r \in Slots : slotUsed[r] = FALSE => callback[r] = FALSE /\ kernel'[r] = "none"
  BY <1>0, <1>1 DEF SlotsClean
<1>4. ASSUME NEW c \in Slot!Callers, slotCall[c].op # "none"
      PROVE  Leaves(slotCall[c].op, kernel'[slotCall[c].slot], callback[slotCall[c].slot])
  <2>1. /\ slotCall[c].slot \in Slots
        /\ Leaves(slotCall[c].op, kernel[slotCall[c].slot], callback[slotCall[c].slot])
    BY <1>4, SlotOfCall
  <2> QED BY <1>1, <2>1 DEF Leaves
<1>5. SlotsClean'
  BY <1>0, <1>3, <1>4 DEF SlotsClean
<1> QED BY <1>2, <1>5 DEF SlotsInv

LEMMA KernelDeleteInv ==
    ASSUME SlotsInv, NEW c \in Slot!Callers, NEW s \in Slots, Slot!KernelDelete(c, s)
    PROVE  SlotsInv'
<1>0. SlotsType /\ SlotsClean
  BY DEF SlotsInv
<1>1. /\ kernel[s] # "none" /\ \A d \in Slot!Callers : slotCall[d].slot # s
      /\ kernel' = [kernel EXCEPT ![s] = "none"] /\ UNCHANGED <<slotUsed, callback>>
      /\ Slot!Goto(c, "spin", s)
  BY DEF Slot!KernelDelete, Slot!Usable, Slot!slotVars
<1>2. /\ slotCall' \in [Slot!Callers -> [op : Slot!Ops, slot : Slots \cup {None}]]
      /\ slotCall'[c].op = "spin" /\ slotCall'[c].slot = s
      /\ \A d \in Slot!Callers \ {c} : slotCall'[d] = slotCall[d]
  BY <1>1, CallerGoes DEF Slot!Ops
<1>3. /\ kernel' \in [Slots -> {"none", "stopped", "ticking"}] /\ kernel'[s] = "none"
      /\ \A r \in Slots \ {s} : kernel'[r] = kernel[r]
  BY <1>0, <1>1 DEF SlotsType
<1>4. slotUsed[s] = TRUE
  BY <1>0, <1>1 DEF SlotsType, SlotsClean
<1>5. SlotsType'
  BY <1>0, <1>1, <1>2, <1>3 DEF SlotsType
<1>6. Leaves(slotCall'[c].op, kernel'[s], callback'[s])
  BY <1>2, <1>3 DEF Leaves
<1>7. /\ \A d \in Slot!Callers \ {c} : slotCall[d].slot # s /\ slotCall'[d] = slotCall[d]
      /\ \A r \in Slots \ {s} : /\ slotUsed'[r] = slotUsed[r]
                                /\ callback'[r] = callback[r] /\ kernel'[r] = kernel[r]
  BY <1>1, <1>2, <1>3
<1>8. /\ slotUsed'[s] = FALSE => callback'[s] = FALSE /\ kernel'[s] = "none"
      /\ slotCall'[c].op = "none" <=> slotCall'[c].slot = None
      /\ slotCall'[c].op # "none" =>
            /\ slotCall'[c].slot = s /\ slotUsed'[s] = TRUE
            /\ Leaves(slotCall'[c].op, kernel'[s], callback'[s])
  BY <1>0, <1>1, <1>2, <1>4, <1>6 DEF SlotsType
<1> QED BY <1>5, <1>7, <1>8, OneSlot

LEMMA SlotsStep ==
    ASSUME SlotsInv, [Slot!Next]_(Slot!vars)
    PROVE  SlotsInv'
<1> USE DEF Slot!slotVars, Slot!kernelVars
<1>1. ASSUME UNCHANGED <<slotUsed, callback, kernel, slotCall>>
      PROVE  SlotsInv'
  BY <1>1 DEF SlotsInv, SlotsType, SlotsClean
<1>2. ASSUME NEW c \in Slot!Callers, NEW s \in Slots, Slot!Start(c, s) \/ Slot!Stop(c, s)
      PROVE  SlotsInv'
  BY <1>2, KernelInv DEF Slot!Start, Slot!Stop, Slot!Usable
<1>3. ASSUME NEW s \in Slots, Slot!Expire(s)
      PROVE  SlotsInv'
  BY <1>3, KernelInv DEF Slot!Expire
<1>4. ASSUME NEW c \in Slot!Callers, Slot!RefuseCreate(c)
      PROVE  SlotsInv'
  BY <1>1, <1>4 DEF Slot!RefuseCreate
<1>5. ASSUME Slot!Trampoline
      PROVE  SlotsInv'
  BY <1>1, <1>5 DEF Slot!Trampoline, Slot!Call, Slot!Skip, Slot!Return
<1>6. ASSUME UNCHANGED Slot!vars
      PROVE  SlotsInv'
  BY <1>1, <1>6 DEF Slot!vars
<1> QED BY <1>2, <1>3, <1>4, <1>5, <1>6, ClaimInv, ContinueInv, KernelDeleteInv
       DEF Slot!Next

\* g_timerCount: a slot is counted once its kernel timer is made.
InMaking == {c \in Slot!Callers : slotCall[c].op \in {"filling", "counting"}}
SlotsInUse == {s \in Slots : slotUsed[s] = TRUE}
SlotsCounted ==
    /\ SlotsInv
    /\ IsFiniteSet(SlotsInUse) /\ IsFiniteSet(InMaking)
    /\ slotCount \in Int
    /\ slotCount + Cardinality(InMaking) = Cardinality(SlotsInUse)

\* A step of one caller, told by how it changes the two sets.
LEMMA SlotCountKept ==
    ASSUME SlotsCounted, SlotsInv', NEW c, NEW s,
           \/ /\ InMaking' = InMaking /\ SlotsInUse' = SlotsInUse
              /\ slotCount' = slotCount
           \/ /\ c \notin InMaking /\ InMaking' = InMaking \cup {c}
              /\ s \notin SlotsInUse /\ SlotsInUse' = SlotsInUse \cup {s}
              /\ slotCount' = slotCount
           \/ /\ c \in InMaking /\ InMaking' = InMaking \ {c}
              /\ s \in SlotsInUse /\ SlotsInUse' = SlotsInUse \ {s}
              /\ slotCount' = slotCount
           \/ /\ c \in InMaking /\ InMaking' = InMaking \ {c}
              /\ SlotsInUse' = SlotsInUse
              /\ slotCount' = slotCount + 1
           \/ /\ InMaking' = InMaking
              /\ s \in SlotsInUse /\ SlotsInUse' = SlotsInUse \ {s}
              /\ slotCount' = slotCount - 1
    PROVE  SlotsCounted'
<1>1. /\ IsFiniteSet(InMaking) /\ Cardinality(InMaking) \in Nat
      /\ IsFiniteSet(SlotsInUse) /\ Cardinality(SlotsInUse) \in Nat
      /\ slotCount \in Int /\ slotCount + Cardinality(InMaking) = Cardinality(SlotsInUse)
  BY FS_CardinalityType DEF SlotsCounted
<1>2. /\ c \notin InMaking => /\ IsFiniteSet(InMaking \cup {c})
                              /\ Cardinality(InMaking \cup {c}) = Cardinality(InMaking) + 1
      /\ s \notin SlotsInUse => /\ IsFiniteSet(SlotsInUse \cup {s})
                                /\ Cardinality(SlotsInUse \cup {s}) = Cardinality(SlotsInUse) + 1
  BY <1>1, FS_AddElement
<1>3. /\ c \in InMaking => /\ IsFiniteSet(InMaking \ {c})
                           /\ Cardinality(InMaking \ {c}) = Cardinality(InMaking) - 1
      /\ s \in SlotsInUse => /\ IsFiniteSet(SlotsInUse \ {s})
                             /\ Cardinality(SlotsInUse \ {s}) = Cardinality(SlotsInUse) - 1
  BY <1>1, FS_RemoveElement
<1> DEFINE m == Cardinality(InMaking)
           n == Cardinality(SlotsInUse)
           m2 == Cardinality(InMaking')
           n2 == Cardinality(SlotsInUse')
<1>4. /\ IsFiniteSet(InMaking') /\ IsFiniteSet(SlotsInUse')
      /\ m \in Nat /\ n \in Nat /\ slotCount \in Int /\ slotCount + m = n
      /\ \/ m2 = m /\ n2 = n /\ slotCount' = slotCount
         \/ m2 = m + 1 /\ n2 = n + 1 /\ slotCount' = slotCount
         \/ m2 = m - 1 /\ n2 = n - 1 /\ slotCount' = slotCount
         \/ m2 = m - 1 /\ n2 = n /\ slotCount' = slotCount + 1
         \/ m2 = m /\ n2 = n - 1 /\ slotCount' = slotCount - 1
  BY <1>1, <1>2, <1>3, Zenon
<1> HIDE DEF m, n, m2, n2
<1>5. slotCount' \in Int /\ slotCount' + m2 = n2
  BY <1>4
<1> QED BY <1>4, <1>5 DEF SlotsCounted, m2, n2

LEMMA ClaimCounts ==
    ASSUME SlotsCounted, SlotsInv', NEW c \in Slot!Callers, Slot!ClaimSlot(c)
    PROVE  SlotsCounted'
<1>0. SlotsInv /\ SlotsType
  BY DEF SlotsCounted, SlotsInv
<1>1. PICK s \in Slots :
         /\ ~slotUsed[s] /\ slotUsed' = [slotUsed EXCEPT ![s] = TRUE]
         /\ Slot!Goto(c, "filling", s)
  BY DEF Slot!ClaimSlot
<1>2. slotCall[c].op = "none" /\ slotCount' = slotCount
  BY DEF Slot!ClaimSlot, Slot!Free, Slot!Idle
<1>3. /\ slotCall'[c].op = "filling"
      /\ \A d \in Slot!Callers \ {c} : slotCall'[d] = slotCall[d]
  BY <1>0, <1>1, CallerGoes DEF Slot!Ops
<1>4. c \notin InMaking /\ InMaking' = InMaking \cup {c}
  BY <1>2, <1>3 DEF InMaking
<1>5. s \notin SlotsInUse /\ SlotsInUse' = SlotsInUse \cup {s}
  BY <1>0, <1>1 DEF SlotsInUse, SlotsType
<1> QED BY <1>2, <1>4, <1>5, SlotCountKept

LEMMA ContinueCounts ==
    ASSUME SlotsCounted, SlotsInv', NEW c \in Slot!Callers, Slot!Continue(c)
    PROVE  SlotsCounted'
<1> USE DEF Slot!slotVars, Slot!kernelVars, Slot!At
<1>0. SlotsInv /\ SlotsType
  BY DEF SlotsCounted, SlotsInv
<1>s. PICK s : s = slotCall[c].slot
  OBVIOUS
<1>1. s \in Slots /\ s \in SlotsInUse
  <2>1. slotCall[c].op # "none"
    BY DEF Slot!Continue, Slot!New, Slot!NewFails, Slot!Created, Slot!Spin, Slot!Clear,
           Slot!Release
  <2> QED BY <1>0, <1>s, <2>1, SlotOfCall DEF SlotsInUse
<1>2. ASSUME NEW op \in Slot!Ops, NEW r \in Slots \cup {None}, Slot!Goto(c, op, r)
      PROVE  /\ slotCall'[c].op = op
             /\ \A d \in Slot!Callers \ {c} : slotCall'[d] = slotCall[d]
  BY <1>0, <1>2, CallerGoes
<1>3. slotUsed' = [slotUsed EXCEPT ![s] = FALSE] => SlotsInUse' = SlotsInUse \ {s}
  BY <1>0, <1>1 DEF SlotsInUse, SlotsType
<1>4. slotUsed' = slotUsed => SlotsInUse' = SlotsInUse
  BY DEF SlotsInUse
<1>5. CASE Slot!New(c) \/ Slot!Spin(c) \/ Slot!Clear(c)
  <2>1. PICK op \in {"counting", "clear", "release"} :
           /\ Slot!Goto(c, op, s) /\ (op = "counting" <=> slotCall[c].op = "filling")
           /\ slotCall[c].op # "counting"
    BY <1>s, <1>5 DEF Slot!New, Slot!Spin, Slot!Clear
  <2>2. /\ slotCall'[c].op = op
        /\ \A d \in Slot!Callers \ {c} : slotCall'[d] = slotCall[d]
    BY <1>1, <1>2, <2>1 DEF Slot!Ops
  <2>3. InMaking' = InMaking
    BY <2>1, <2>2 DEF InMaking
  <2>4. slotUsed' = slotUsed /\ slotCount' = slotCount
    BY <1>5 DEF Slot!New, Slot!Spin, Slot!Clear
  <2> QED BY <1>4, <2>3, <2>4, SlotCountKept
<1>6. CASE Slot!NewFails(c) \/ Slot!Created(c) \/ Slot!Release(c)
  <2>1. /\ slotCall'[c].op = "none"
        /\ \A d \in Slot!Callers \ {c} : slotCall'[d] = slotCall[d]
    <3>1. Slot!Goto(c, "none", None)
      BY <1>6 DEF Slot!NewFails, Slot!Created, Slot!Release
    <3> QED BY <1>2, <3>1 DEF Slot!Ops
  <2>2. CASE Slot!NewFails(c)
    <3>1. /\ slotCall[c].op = "filling" /\ slotCount' = slotCount
          /\ slotUsed' = [slotUsed EXCEPT ![s] = FALSE]
      BY <1>s, <2>2 DEF Slot!NewFails
    <3>2. c \in InMaking /\ InMaking' = InMaking \ {c}
      BY <2>1, <3>1 DEF InMaking
    <3> QED BY <1>1, <1>3, <3>1, <3>2, SlotCountKept
  <2>3. CASE Slot!Created(c)
    <3>1. /\ slotCall[c].op = "counting" /\ slotCount' = slotCount + 1
          /\ slotUsed' = slotUsed
      BY <2>3 DEF Slot!Created
    <3>2. c \in InMaking /\ InMaking' = InMaking \ {c}
      BY <2>1, <3>1 DEF InMaking
    <3> QED BY <1>4, <3>1, <3>2, SlotCountKept
  <2>4. CASE Slot!Release(c)
    <3>1. /\ slotCall[c].op = "release" /\ slotCount' = slotCount - 1
          /\ slotUsed' = [slotUsed EXCEPT ![s] = FALSE]
      BY <1>s, <2>4 DEF Slot!Release
    <3>2. InMaking' = InMaking
      BY <2>1, <3>1 DEF InMaking
    <3> QED BY <1>1, <1>3, <3>1, <3>2, SlotCountKept
  <2> QED BY <1>6, <2>2, <2>3, <2>4
<1> QED BY <1>5, <1>6 DEF Slot!Continue

LEMMA SlotCountStep ==
    ASSUME SlotsCounted, [Slot!Next]_(Slot!vars)
    PROVE  SlotsCounted'
<1> USE DEF Slot!slotVars, Slot!kernelVars
<1>0. SlotsInv /\ SlotsInv'
  BY SlotsStep DEF SlotsCounted
<1>1. ASSUME UNCHANGED <<slotUsed, slotCall, slotCount>>
      PROVE  SlotsCounted'
  BY <1>0, <1>1 DEF SlotsCounted, InMaking, SlotsInUse
<1>2. ASSUME NEW c \in Slot!Callers, NEW s \in Slots, Slot!Start(c, s) \/ Slot!Stop(c, s)
      PROVE  SlotsCounted'
  BY <1>1, <1>2 DEF Slot!Start, Slot!Stop
<1>3. ASSUME NEW s \in Slots, Slot!Expire(s)
      PROVE  SlotsCounted'
  BY <1>1, <1>3 DEF Slot!Expire
<1>4. ASSUME NEW c \in Slot!Callers, Slot!RefuseCreate(c)
      PROVE  SlotsCounted'
  BY <1>1, <1>4 DEF Slot!RefuseCreate
<1>5. ASSUME Slot!Trampoline
      PROVE  SlotsCounted'
  BY <1>1, <1>5 DEF Slot!Trampoline, Slot!Call, Slot!Skip, Slot!Return
<1>6. ASSUME UNCHANGED Slot!vars
      PROVE  SlotsCounted'
  BY <1>1, <1>6 DEF Slot!vars
<1>7. ASSUME NEW c \in Slot!Callers, NEW s \in Slots, Slot!KernelDelete(c, s)
      PROVE  SlotsCounted'
  <2>1. /\ slotCall[c].op = "none" /\ UNCHANGED <<slotUsed, slotCount>>
        /\ Slot!Goto(c, "spin", s)
    BY <1>7 DEF Slot!KernelDelete, Slot!Free, Slot!Idle
  <2>2. /\ slotCall'[c].op = "spin"
        /\ \A d \in Slot!Callers \ {c} : slotCall'[d] = slotCall[d]
    BY <1>0, <2>1, CallerGoes DEF Slot!Ops
  <2>3. InMaking' = InMaking /\ SlotsInUse' = SlotsInUse
    BY <2>1, <2>2 DEF InMaking, SlotsInUse
  <2> QED BY <1>0, <2>1, <2>3, SlotCountKept
<1> QED BY <1>0, <1>2, <1>3, <1>4, <1>5, <1>6, <1>7, ClaimCounts, ContinueCounts
       DEF Slot!Next

LEMMA SameCardinality == \A S : Slot!Cardinality(S) = Cardinality(S)
BY DEF Slot!Cardinality, Cardinality

LEMMA SlotCountInit == None \notin Slots /\ Slot!Init => SlotsCounted
<1> SUFFICES ASSUME None \notin Slots, Slot!Init PROVE SlotsCounted
  OBVIOUS
<1>1. InMaking = {} /\ SlotsInUse = {} /\ slotCount = 0
  BY DEF Slot!Init, Slot!Idle, InMaking, SlotsInUse
<1> QED BY <1>1, SlotsInit, FS_EmptySet DEF SlotsCounted

LEMMA SlotsAreClean == SlotsCounted => Slot!FreeSlotsAreClean
<1> SUFFICES ASSUME SlotsCounted PROVE Slot!FreeSlotsAreClean
  OBVIOUS
<1>1. SlotsType /\ SlotsClean
  BY DEF SlotsCounted, SlotsInv
<1>2. \A s \in Slots : ~slotUsed[s] => ~callback[s] /\ kernel[s] = "none"
  BY <1>1 DEF SlotsType, SlotsClean
<1>3. ASSUME \A c \in Slot!Callers : slotCall[c] = Slot!Idle
      PROVE  slotCount = Cardinality({s \in Slots : slotUsed[s]})
  <2>1. InMaking = {}
    BY <1>3 DEF InMaking, Slot!Idle
  <2>2. SlotsInUse = {s \in Slots : slotUsed[s]}
    BY <1>1 DEF SlotsInUse, SlotsType
  <2>3. Cardinality(InMaking) = 0
    BY <2>1, FS_EmptySet
  <2>4. Cardinality(SlotsInUse) \in Nat
    BY FS_CardinalityType DEF SlotsCounted
  <2>5. slotCount = Cardinality(SlotsInUse)
    BY <2>3, <2>4 DEF SlotsCounted
  <2> QED BY <2>2, <2>5
<1> QED BY <1>2, <1>3, SameCardinality DEF Slot!FreeSlotsAreClean

(* A slot is free when its timer is gone, callback cleared and kernel      *)
(* timer deleted; with no call in progress g_timerCount is the number of   *)
(* slots in use.  TelOsTimerCreate and TelOsTimerDelete of every task and  *)
(* of every callback may interleave.                                       *)
THEOREM FreeSlotsStayClean == None \notin Slots => (Slot!Spec => []Slot!FreeSlotsAreClean)
<1>1. None \notin Slots /\ Slot!Init => SlotsCounted
  BY SlotCountInit
<1>2. SlotsCounted /\ [Slot!Next]_(Slot!vars) => SlotsCounted'
  BY SlotCountStep
<1> QED BY <1>1, <1>2, SlotsAreClean, PTL DEF Slot!Spec

\* What FreeSlotsStayClean does not need of the variables.
QueueType ==
    /\ inCallback \in [Slots -> 0..1]
    /\ queue \in Seq(Slots)
    /\ called \in Slots \cup {None}
    /\ slotAnswer \in [timer : Slots \cup {None},
                       result : {"OK", "FAIL", "INVALID_PARAM", "NO_RESOURCE"}]
    /\ \A s \in Slots : inCallback[s] = 1 <=> called = s

LEMMA QueueInit == None \notin Slots /\ Slot!Init => QueueType
BY DEF Slot!Init, QueueType

LEMMA SlotAnswerType ==
    ASSUME NEW s \in Slots \cup {None}, NEW r \in {"OK", "FAIL", "NO_RESOURCE"},
           Slot!Answer(s, r)
    PROVE  slotAnswer' \in [timer : Slots \cup {None},
                            result : {"OK", "FAIL", "INVALID_PARAM", "NO_RESOURCE"}]
BY DEF Slot!Answer

LEMMA QueueStep ==
    ASSUME SlotsInv, QueueType, [Slot!Next]_(Slot!vars)
    PROVE  QueueType'
<1> USE DEF Slot!slotVars, Slot!kernelVars, Slot!At
<1>0. None \notin Slots
  BY DEF SlotsInv, SlotsType
<1>1. ASSUME UNCHANGED <<inCallback, queue, called>>,
             slotAnswer' \in [timer : Slots \cup {None},
                              result : {"OK", "FAIL", "INVALID_PARAM", "NO_RESOURCE"}]
      PROVE  QueueType'
  BY <1>1 DEF QueueType
<1>2. ASSUME UNCHANGED <<inCallback, queue, called, slotAnswer>> PROVE QueueType'
  BY <1>1, <1>2 DEF QueueType
<1>3. ASSUME NEW c \in Slot!Callers, Slot!ClaimSlot(c) PROVE QueueType'
  BY <1>2, <1>3 DEF Slot!ClaimSlot
<1>4. ASSUME NEW c \in Slot!Callers, Slot!RefuseCreate(c) PROVE QueueType'
  BY <1>1, <1>4, SlotAnswerType DEF Slot!RefuseCreate
<1>5. ASSUME NEW c \in Slot!Callers, Slot!Continue(c) PROVE QueueType'
  <2>1. CASE Slot!New(c) \/ Slot!Spin(c) \/ Slot!Clear(c)
    BY <1>2, <2>1 DEF Slot!New, Slot!Spin, Slot!Clear
  <2>2. CASE Slot!NewFails(c)
    BY <1>1, <2>2, SlotAnswerType DEF Slot!NewFails
  <2>3. CASE Slot!Created(c) \/ Slot!Release(c)
    <3>1. slotCall[c].slot \in Slots
      BY <2>3, SlotOfCall DEF Slot!Created, Slot!Release
    <3> QED BY <1>1, <2>3, <3>1, SlotAnswerType DEF Slot!Created, Slot!Release
  <2> QED BY <1>5, <2>1, <2>2, <2>3 DEF Slot!Continue
<1>6. ASSUME NEW c \in Slot!Callers, NEW s \in Slots, Slot!Start(c, s) PROVE QueueType'
  BY <1>1, <1>6, SlotAnswerType DEF Slot!Start
<1>7. ASSUME NEW c \in Slot!Callers, NEW s \in Slots, Slot!Stop(c, s) PROVE QueueType'
  <2>1. PICK r \in {"OK", "FAIL"} : Slot!Answer(s, r)
    BY <1>7 DEF Slot!Stop
  <2>2. slotAnswer' \in [timer : Slots \cup {None},
                         result : {"OK", "FAIL", "INVALID_PARAM", "NO_RESOURCE"}]
    BY <2>1, SlotAnswerType
  <2> QED BY <1>1, <1>7, <2>2 DEF Slot!Stop
<1>8. ASSUME NEW c \in Slot!Callers, NEW s \in Slots, Slot!KernelDelete(c, s)
      PROVE  QueueType'
  BY <1>2, <1>8 DEF Slot!KernelDelete
<1>9. ASSUME NEW s \in Slots, Slot!Expire(s) PROVE QueueType'
  BY <1>9 DEF Slot!Expire, QueueType
<1>10. CASE Slot!Call
  <2>1. /\ queue # <<>> /\ called = None /\ called' = Head(queue)
        /\ inCallback' = [inCallback EXCEPT ![Head(queue)] = @ + 1]
        /\ queue' = Tail(queue) /\ slotAnswer' = slotAnswer
    BY <1>10 DEF Slot!Call
  <2>2. Head(queue) \in Slots /\ Tail(queue) \in Seq(Slots)
    BY <2>1 DEF QueueType
  <2>3. inCallback[Head(queue)] = 0
    BY <1>0, <2>1, <2>2 DEF QueueType
  <2> DEFINE s == Head(queue)
  <2> HIDE DEF s
  <2>4. /\ inCallback' \in [Slots -> 0..1] /\ inCallback'[s] = 1
        /\ \A r \in Slots \ {s} : inCallback'[r] = inCallback[r]
    BY <2>1, <2>2, <2>3 DEF QueueType, s
  <2> QED BY <1>0, <2>1, <2>2, <2>4 DEF QueueType, s
<1>11. CASE Slot!Skip
  BY <1>11 DEF Slot!Skip, QueueType
<1>12. CASE Slot!Return
  <2>1. /\ called # None /\ called' = None /\ UNCHANGED <<queue, slotAnswer>>
        /\ inCallback' = [inCallback EXCEPT ![called] = @ - 1]
    BY <1>12 DEF Slot!Return
  <2>2. called \in Slots /\ inCallback[called] = 1
    BY <2>1 DEF QueueType
  <2>3. /\ inCallback' \in [Slots -> 0..1] /\ inCallback'[called] = 0
        /\ \A r \in Slots \ {called} : inCallback'[r] = inCallback[r]
    BY <2>1, <2>2 DEF QueueType
  <2> QED BY <1>0, <2>1, <2>2, <2>3 DEF QueueType
<1>13. CASE UNCHANGED Slot!vars
  BY <1>2, <1>13 DEF Slot!vars
<1> QED BY <1>3, <1>4, <1>5, <1>6, <1>7, <1>8, <1>9, <1>10, <1>11, <1>12, <1>13
       DEF Slot!Next, Slot!Trampoline

\* No more slots are counted than there are.
LEMMA SlotCountType ==
    ASSUME SlotsCounted, IsFiniteSet(Slots)
    PROVE  slotCount \in 0..Cardinality(Slots)
<1>0. SlotsType /\ SlotsClean
  BY DEF SlotsCounted, SlotsInv
<1>1. /\ Cardinality(InMaking) \in Nat /\ Cardinality(SlotsInUse) \in Nat
      /\ Cardinality(Slots) \in Nat /\ Cardinality(SlotsInUse) <= Cardinality(Slots)
  <2>1. SlotsInUse \subseteq Slots
    BY DEF SlotsInUse
  <2> QED BY <2>1, FS_CardinalityType, FS_Subset DEF SlotsCounted
<1>2. Cardinality(InMaking) <= Cardinality(SlotsInUse)
  <2> DEFINE f == [c \in InMaking |-> slotCall[c].slot]
  <2>1. ASSUME NEW c \in InMaking
        PROVE  slotCall[c].slot \in SlotsInUse /\ slotCall[c].slot # None
    BY <1>0, SlotOfCall DEF InMaking, SlotsInUse, SlotsCounted, SlotsType
  <2>2. f \in [InMaking -> SlotsInUse]
    BY <2>1
  <2>3. ASSUME NEW c \in InMaking, NEW d \in InMaking, f[c] = f[d] PROVE c = d
    <3>1. c \in Slot!Callers /\ d \in Slot!Callers /\ slotCall[c].slot = slotCall[d].slot
      BY <2>3 DEF InMaking
    <3> QED BY <1>0, <2>1, <3>1 DEF SlotsClean
  <2>4. f \in Injection(InMaking, SlotsInUse)
    BY <2>2, <2>3 DEF Injection, IsInjective
  <2> QED BY <2>4, FS_Injection DEF SlotsCounted
<1> QED BY <1>1, <1>2 DEF SlotsCounted

\* What AdapterIsSound says of the timer slots.
SlotsSound == SlotsCounted /\ QueueType /\ IsFiniteSet(Slots)

LEMMA SlotsSoundTyped == SlotsSound => Slot!TypeOK
<1> SUFFICES ASSUME SlotsSound PROVE Slot!TypeOK
  OBVIOUS
<1>1. slotCount \in 0..Cardinality(Slots)
  BY SlotCountType DEF SlotsSound
<1> QED BY <1>1, SameCardinality
       DEF SlotsSound, SlotsCounted, SlotsInv, SlotsType, QueueType, Slot!TypeOK

(* The variables of the timer slots on CMSIS have their types; a callback  *)
(* at most is executed at a time.                                          *)
THEOREM TimerSlotsTyped ==
    None \notin Slots /\ IsFiniteSet(Slots) => (Slot!Spec => []Slot!TypeOK)
<1>1. None \notin Slots /\ IsFiniteSet(Slots) /\ Slot!Init => SlotsSound
  BY SlotCountInit, QueueInit DEF SlotsSound
<1>2. SlotsSound /\ [Slot!Next]_(Slot!vars) => SlotsSound'
  BY SlotCountStep, QueueStep DEF SlotsSound, SlotsCounted
<1> QED BY <1>1, <1>2, SlotsSoundTyped, PTL DEF Slot!Spec

-----------------------------------------------------------------------------
(***************************************************************************)
(* One timer on CMSIS, which is what the call manager makes, and the       *)
(* contract of OsTimers.                                                   *)
(***************************************************************************)
\* With one slot: which it is, and what OsTimers sees of it.
One == CHOOSE s : s \in Slots
SlotState == Slot!timerState[One]
OwedCalls == [s \in Slots |-> Slot!Cardinality({i \in 1..Len(queue) : queue[i] = s})]

\* Nothing of the slot's callback is left before it is created and from the
\* moment the wait of TelOsTimerDelete is over; in between its callback is set.
OneQuiet ==
    /\ slotCall[TimerTask].op = "none"
    /\ slotUsed[One] = FALSE => queue = <<>> /\ called = None
    /\ \A c \in Slot!Callers :
          /\ slotCall[c].op \in {"filling", "counting", "clear", "release"} =>
                queue = <<>> /\ called = None
          /\ slotCall[c].op = "counting" => kernel[One] = "stopped"
    /\ slotUsed[One] = TRUE =>
          callback[One] = TRUE \/ \E c \in Slot!Callers : slotCall[c].op \in {"filling", "release"}

OneInv == Slots = {One} /\ SlotsInv /\ QueueType /\ OneQuiet

LEMMA ContractOfSlots ==
    Slot!Contract!vars = <<Slot!timerState, OwedCalls, called, slotAnswer>>
BY DEF Slot!Contract!vars, OwedCalls

LEMMA OwedIs ==
    ASSUME OneInv
    PROVE  OwedCalls = [s \in Slots |-> Len(queue)]
<1>1. Len(queue) \in Nat /\ \A i \in 1..Len(queue) : queue[i] = One
  BY DEF OneInv, QueueType
<1>2. \A s \in Slots : {i \in 1..Len(queue) : queue[i] = s} = 1..Len(queue)
  BY <1>1 DEF OneInv
<1>3. Cardinality(1..Len(queue)) = Len(queue)
  <2>1. Cardinality(1..Len(queue)) = IF 1 > Len(queue) THEN 0 ELSE Len(queue) - 1 + 1
    BY <1>1, FS_Interval
  <2> QED BY <1>1, <2>1
<1>4. \A s \in Slots : Slot!Cardinality({i \in 1..Len(queue) : queue[i] = s}) = Len(queue)
  BY <1>2, <1>3, SameCardinality
<1> QED BY <1>4 DEF OwedCalls

LEMMA StateIs ==
    ASSUME OneInv
    PROVE  Slot!timerState = [s \in Slots |-> SlotState]
BY DEF OneInv, SlotState, Slot!timerState

\* Two calls in progress are one.
LEMMA OneCall ==
    ASSUME OneInv, NEW c \in Slot!Callers, slotCall[c].op # "none"
    PROVE  /\ slotCall[c].slot = One /\ slotUsed[One] = TRUE /\ c \in Tasks
           /\ \A d \in Slot!Callers \ {c} : slotCall[d].op = "none"
           /\ Leaves(slotCall[c].op, kernel[One], callback[One])
<1>1. /\ slotCall[c].slot \in Slots /\ slotUsed[slotCall[c].slot] = TRUE
      /\ \A d \in Slot!Callers \ {c} : slotCall[d].slot # slotCall[c].slot
      /\ Leaves(slotCall[c].op, kernel[slotCall[c].slot], callback[slotCall[c].slot])
  BY SlotOfCall DEF OneInv
<1>2. slotCall[c].slot = One
  BY <1>1 DEF OneInv
<1>3. ASSUME NEW d \in Slot!Callers \ {c}, slotCall[d].op # "none" PROVE FALSE
  <2>1. slotCall[d].slot \in Slots
    BY <1>3, SlotOfCall DEF OneInv
  <2> QED BY <1>1, <1>2, <2>1 DEF OneInv
<1>4. c \in Tasks
  BY DEF OneInv, OneQuiet, Slot!Callers
<1> QED BY <1>1, <1>2, <1>3, <1>4

\* What OsTimers sees of the slot.
LEMMA SlotStateIs ==
    ASSUME OneInv
    PROVE  /\ slotUsed[One] = FALSE => SlotState = "none"
           /\ \A c \in Slot!Callers :
                 /\ slotCall[c].op \in {"filling", "counting"} => SlotState = "none"
                 /\ slotCall[c].op \in {"spin", "clear", "release"} => SlotState = "closing"
           /\ slotUsed[One] = TRUE /\ (\A c \in Slot!Callers : slotCall[c].op = "none") =>
                 SlotState = IF kernel[One] = "ticking" THEN "pending" ELSE "idle"
<1>0. One \in Slots
  BY DEF OneInv
<1>1. SlotState = IF ~slotUsed[One] \/ Slot!Creating(One) THEN "none"
                  ELSE IF Slot!Deleting(One) THEN "closing"
                  ELSE IF kernel[One] = "ticking" THEN "pending" ELSE "idle"
  BY <1>0 DEF SlotState, Slot!timerState
<1>2. ASSUME NEW c \in Slot!Callers, slotCall[c].op \in {"filling", "counting"}
      PROVE  Slot!Creating(One)
  BY <1>2, OneCall DEF Slot!Creating
<1>3. ASSUME NEW c \in Slot!Callers, slotCall[c].op \in {"spin", "clear", "release"}
      PROVE  ~Slot!Creating(One) /\ Slot!Deleting(One) /\ slotUsed[One]
  <2>1. slotCall[c].slot = One /\ slotUsed[One] = TRUE
        /\ \A d \in Slot!Callers \ {c} : slotCall[d].op = "none"
    BY <1>3, OneCall
  <2> QED BY <1>3, <2>1 DEF Slot!Creating, Slot!Deleting
<1>4. (\A c \in Slot!Callers : slotCall[c].op = "none") =>
         ~Slot!Creating(One) /\ ~Slot!Deleting(One)
  BY DEF Slot!Creating, Slot!Deleting
<1> QED BY <1>1, <1>2, <1>3, <1>4

\* The same of the next state.
Seen ==
    /\ Slot!timerState = [s \in Slots |-> SlotState]
    /\ OwedCalls = [s \in Slots |-> Len(queue)]

LEMMA SeenNext ==
    OneInv' => /\ Slot!timerState' = [s \in Slots |-> SlotState']
               /\ OwedCalls' = [s \in Slots |-> Len(queue')]
<1>1. OneInv => Seen
  BY StateIs, OwedIs DEF Seen
<1>2. OneInv' => Seen'
  BY <1>1, PTL
<1> QED BY <1>2 DEF Seen

\* A step that changes the slot's state, the expiries or the callback.
OneStep == [Slot!Contract!Next]_(Slot!Contract!vars)

LEMMA OneStutters ==
    ASSUME OneInv, OneInv', SlotState' = SlotState, UNCHANGED <<queue, called, slotAnswer>>
    PROVE  OneStep
<1>1. Slot!timerState' = Slot!timerState
  <2>1. Slot!timerState = [s \in Slots |-> SlotState]
    BY StateIs
  <2>2. Slot!timerState' = [s \in Slots |-> SlotState']
    BY SeenNext
  <2> QED BY <2>1, <2>2
<1>2. OwedCalls' = OwedCalls
  <2>1. OwedCalls = [s \in Slots |-> Len(queue)]
    BY OwedIs
  <2>2. OwedCalls' = [s \in Slots |-> Len(queue')]
    BY SeenNext
  <2> QED BY <2>1, <2>2
<1> QED BY <1>1, <1>2, ContractOfSlots DEF OneStep, Slot!Contract!vars, OwedCalls

\* The functions of OsTimers, with one timer.
LEMMA OneValues ==
    ASSUME OneInv, OneInv'
    PROVE  /\ One \in Slots
           /\ Slot!timerState[One] = SlotState /\ OwedCalls[One] = Len(queue)
           /\ Slot!timerState' = [Slot!timerState EXCEPT ![One] = SlotState']
           /\ OwedCalls' = [OwedCalls EXCEPT ![One] = Len(queue')]
<1>1. Slot!timerState = [s \in Slots |-> SlotState]
  BY StateIs
<1>2. Slot!timerState' = [s \in Slots |-> SlotState']
  BY SeenNext
<1>3. OwedCalls = [s \in Slots |-> Len(queue)]
  BY OwedIs
<1>4. OwedCalls' = [s \in Slots |-> Len(queue')]
  BY SeenNext
<1>5. Slots = {One}
  BY DEF OneInv
<1>6. [Slot!timerState EXCEPT ![One] = SlotState'] = [s \in Slots |-> SlotState']
  BY <1>1, <1>5
<1>7. [OwedCalls EXCEPT ![One] = Len(queue')] = [s \in Slots |-> Len(queue')]
  BY <1>3, <1>5
<1> QED BY <1>1, <1>2, <1>3, <1>4, <1>5, <1>6, <1>7

LEMMA OneInit ==
    None \notin Slots /\ (\E s : Slots = {s}) /\ Slot!Init => OneInv /\ Slot!Contract!Init
<1> SUFFICES ASSUME None \notin Slots, \E s : Slots = {s}, Slot!Init
             PROVE  OneInv /\ Slot!Contract!Init
  OBVIOUS
<1>1. Slots = {One}
  BY DEF One
<1>2. \A c \in Slot!Callers : slotCall[c].op = "none"
  BY DEF Slot!Init, Slot!Idle
<1>3. TimerTask \in Slot!Callers
  BY DEF Slot!Callers
<1>4. OneQuiet
  BY <1>1, <1>2, <1>3 DEF OneQuiet, Slot!Init
<1>5. OneInv
  BY <1>1, <1>4, SlotsInit, QueueInit DEF OneInv
<1>6. Len(queue) = 0 /\ slotUsed[One] = FALSE
  BY <1>1 DEF Slot!Init
<1>7. Slot!timerState = [s \in Slots |-> "none"]
  BY <1>5, <1>6, StateIs, SlotStateIs
<1>8. OwedCalls = [s \in Slots |-> 0]
  BY <1>5, <1>6, OwedIs
<1>9. Slot!Contract!Init
  BY <1>7, <1>8 DEF Slot!Init, Slot!Contract!Init, OwedCalls
<1> QED BY <1>5, <1>9

OneDone == OneInv' /\ OneStep

\* SlotStateIs for the next state.
SlotStateSeen ==
    /\ slotUsed[One] = FALSE => SlotState = "none"
    /\ \A c \in Slot!Callers :
          /\ slotCall[c].op \in {"filling", "counting"} => SlotState = "none"
          /\ slotCall[c].op \in {"spin", "clear", "release"} => SlotState = "closing"
    /\ slotUsed[One] = TRUE /\ (\A c \in Slot!Callers : slotCall[c].op = "none") =>
          SlotState = IF kernel[One] = "ticking" THEN "pending" ELSE "idle"

LEMMA SeenState == (OneInv => SlotStateSeen) /\ (OneInv' => SlotStateSeen')
<1>1. OneInv => SlotStateSeen
  BY SlotStateIs DEF SlotStateSeen
<1>2. OneInv' => SlotStateSeen'
  BY <1>1, PTL
<1> QED BY <1>1, <1>2

\* A call that goes from one point to the next; the others are not in progress.
LEMMA OneCallGoes ==
    ASSUME OneInv, SlotsInv', QueueType', NEW c \in Slot!Callers,
           \A d \in Slot!Callers \ {c} : slotCall[d].op = "none" /\ slotCall'[d] = slotCall[d],
           c = TimerTask => slotCall'[c].op = "none",
           slotUsed'[One] = FALSE \/
              slotCall'[c].op \in {"filling", "counting", "clear", "release"} =>
                 queue' = <<>> /\ called' = None,
           slotCall'[c].op = "counting" => kernel'[One] = "stopped",
           slotUsed'[One] = TRUE =>
              callback'[One] = TRUE \/ slotCall'[c].op \in {"filling", "release"}
    PROVE  OneInv'
<1>0. \A d \in Slot!Callers : d # c => slotCall'[d].op = "none"
  OBVIOUS
<1>a. slotCall'[TimerTask].op = "none"
  BY <1>0 DEF Slot!Callers
<1>b. slotUsed'[One] = FALSE => queue' = <<>> /\ called' = None
  OBVIOUS
<1>c. ASSUME NEW d \in Slot!Callers
      PROVE  /\ slotCall'[d].op \in {"filling", "counting", "clear", "release"} =>
                    queue' = <<>> /\ called' = None
             /\ slotCall'[d].op = "counting" => kernel'[One] = "stopped"
  BY <1>0, <1>c
<1>d. slotUsed'[One] = TRUE =>
         \/ callback'[One] = TRUE
         \/ \E d \in Slot!Callers : slotCall'[d].op \in {"filling", "release"}
  OBVIOUS
<1>1. OneQuiet'
  BY <1>a, <1>b, <1>c, <1>d DEF OneQuiet
<1> QED BY <1>1 DEF OneInv, One

LEMMA OneClaims ==
    ASSUME OneInv, SlotsInv', QueueType', NEW c \in Slot!Callers, Slot!ClaimSlot(c)
    PROVE  OneDone
<1>1. /\ slotUsed[One] = FALSE /\ Slot!Goto(c, "filling", One)
      /\ slotUsed' = [slotUsed EXCEPT ![One] = TRUE]
      /\ UNCHANGED <<queue, called, callback, kernel, slotAnswer>>
  BY DEF OneInv, SlotsInv, SlotsType, Slot!ClaimSlot, Slot!kernelVars
<1>2. /\ queue = <<>> /\ called = None /\ c # TimerTask
      /\ \A d \in Slot!Callers : slotCall[d].op = "none"
  <2>1. queue = <<>> /\ called = None
    BY <1>1 DEF OneInv, OneQuiet
  <2>2. c # TimerTask
    BY <2>1 DEF Slot!ClaimSlot, Slot!Free, Slot!MayRun
  <2> QED BY <1>1, <2>1, <2>2, OneCall
<1>3. slotCall'[c].op = "filling" /\ \A d \in Slot!Callers \ {c} : slotCall'[d] = slotCall[d]
  BY <1>1, CallerGoes DEF OneInv, Slot!Ops
<1>4. slotUsed'[One] = TRUE
  BY <1>1 DEF OneInv, SlotsInv, SlotsType
<1>5. OneInv'
  BY <1>1, <1>2, <1>3, <1>4, OneCallGoes
<1>6. SlotState = "none" /\ SlotState' = "none"
  BY <1>1, <1>3, <1>5, SeenState DEF SlotStateSeen
<1> QED BY <1>1, <1>5, <1>6, OneStutters DEF OneDone

LEMMA OneRefuses ==
    ASSUME OneInv, SlotsInv', QueueType', NEW c \in Slot!Callers, Slot!RefuseCreate(c)
    PROVE  OneDone
<1>1. UNCHANGED <<slotUsed, callback, kernel, queue, called, slotCall, inCallback>>
      /\ Slot!Answer(None, "NO_RESOURCE")
  BY DEF Slot!RefuseCreate, Slot!slotVars, Slot!kernelVars
<1>2. OneInv'
  BY <1>1 DEF OneInv, OneQuiet, One
<1>3. Slot!timerState' = Slot!timerState /\ OwedCalls' = OwedCalls
  BY <1>1 DEF Slot!timerState, Slot!Creating, Slot!Deleting, OwedCalls
<1>4. Slot!Contract!RefuseCreate
  BY <1>1, <1>3 DEF Slot!Contract!RefuseCreate, Slot!Contract!Answer, Slot!Answer, OwedCalls
<1> QED BY <1>2, <1>4 DEF OneDone, OneStep, Slot!Contract!Next

\* The timer of the contract is the one slot.
LEMMA OneAction ==
    ASSUME OneInv, OneInv',
           \/ Slot!Contract!Create(One) \/ Slot!Contract!Start(One)
           \/ Slot!Contract!Stop(One) \/ Slot!Contract!Expire(One)
           \/ Slot!Contract!Run(One) \/ Slot!Contract!BeginDelete(One)
           \/ Slot!Contract!EndDelete(One) \/ Slot!Contract!RefuseCreate
           \/ Slot!Contract!Return
    PROVE  OneDone
<1>1. One \in Slots
  BY DEF OneInv
<1> QED BY <1>1 DEF OneDone, OneStep, Slot!Contract!Next

LEMMA OneContinues ==
    ASSUME OneInv, SlotsInv', QueueType', NEW c \in Slot!Callers, Slot!Continue(c)
    PROVE  OneDone
<1> USE DEF Slot!slotVars, Slot!kernelVars, Slot!At
<1>1. slotCall[c].op # "none"
  BY DEF Slot!Continue, Slot!New, Slot!NewFails, Slot!Created, Slot!Spin, Slot!Clear,
         Slot!Release
<1>2. /\ slotCall[c].slot = One /\ slotUsed[One] = TRUE /\ c # TimerTask
      /\ \A d \in Slot!Callers \ {c} : slotCall[d].op = "none"
  BY <1>1, OneCall DEF OneInv, OneQuiet
<1>3. ASSUME NEW op \in Slot!Ops, NEW s \in Slots \cup {None}, Slot!Goto(c, op, s)
      PROVE  /\ slotCall'[c].op = op
             /\ \A d \in Slot!Callers \ {c} : slotCall'[d] = slotCall[d]
  BY <1>3, CallerGoes DEF OneInv
<1>4. /\ One \in Slots /\ {"counting", "none", "clear", "release"} \subseteq Slot!Ops
      /\ slotUsed \in [Slots -> BOOLEAN] /\ callback \in [Slots -> BOOLEAN]
      /\ kernel \in [Slots -> {"none", "stopped", "ticking"}]
  BY DEF OneInv, SlotsInv, SlotsType, Slot!Ops
<1>5. slotCall[c].op \in {"filling", "counting", "clear", "release"} =>
         queue = <<>> /\ called = None /\ Len(queue) = 0
  BY DEF OneInv, OneQuiet
<1>6. CASE Slot!New(c)
  <2>1. /\ callback' = [callback EXCEPT ![One] = TRUE]
        /\ kernel' = [kernel EXCEPT ![One] = "stopped"]
        /\ Slot!Goto(c, "counting", One) /\ slotCall[c].op = "filling"
        /\ UNCHANGED <<slotUsed, queue, called, slotAnswer>>
    BY <1>2, <1>6 DEF Slot!New
  <2>2. /\ slotCall'[c].op = "counting" /\ callback'[One] = TRUE /\ kernel'[One] = "stopped"
        /\ \A d \in Slot!Callers \ {c} : slotCall'[d] = slotCall[d]
    BY <1>3, <1>4, <2>1
  <2>3. OneInv'
    BY <1>2, <1>5, <2>1, <2>2, OneCallGoes
  <2>4. SlotState = "none" /\ SlotState' = "none"
    BY <2>1, <2>2, <2>3, SeenState DEF SlotStateSeen
  <2> QED BY <2>1, <2>3, <2>4, OneStutters DEF OneDone
<1>7. CASE Slot!NewFails(c)
  <2>1. /\ callback' = [callback EXCEPT ![One] = FALSE]
        /\ slotUsed' = [slotUsed EXCEPT ![One] = FALSE]
        /\ Slot!Goto(c, "none", None) /\ slotCall[c].op = "filling"
        /\ Slot!Answer(None, "NO_RESOURCE")
        /\ UNCHANGED <<kernel, queue, called>>
    BY <1>2, <1>7 DEF Slot!NewFails
  <2>2. /\ slotCall'[c].op = "none" /\ slotUsed'[One] = FALSE
        /\ \A d \in Slot!Callers \ {c} : slotCall'[d] = slotCall[d]
    BY <1>3, <1>4, <2>1
  <2>3. OneInv'
    BY <1>2, <1>5, <2>1, <2>2, OneCallGoes
  <2>4. SlotState = "none" /\ SlotState' = "none"
    BY <2>1, <2>2, <2>3, SeenState DEF SlotStateSeen
  <2>5. Slot!timerState' = Slot!timerState /\ OwedCalls' = OwedCalls
    <3>1. Seen /\ (OneInv' => Seen')
      BY StateIs, OwedIs, SeenNext DEF Seen
    <3> QED BY <2>1, <2>3, <2>4, <3>1 DEF Seen
  <2>6. Slot!Contract!RefuseCreate
    BY <2>1, <2>5 DEF Slot!Contract!RefuseCreate, Slot!Contract!Answer, Slot!Answer, OwedCalls
  <2> QED BY <2>3, <2>6, OneAction
<1>8. CASE Slot!Created(c)
  <2>1. /\ Slot!Goto(c, "none", None) /\ slotCall[c].op = "counting"
        /\ Slot!Answer(One, "OK")
        /\ UNCHANGED <<slotUsed, callback, kernel, queue, called>>
    BY <1>2, <1>8 DEF Slot!Created
  <2>2. /\ slotCall'[c].op = "none" /\ kernel[One] = "stopped" /\ callback[One] = TRUE
        /\ \A d \in Slot!Callers \ {c} : slotCall'[d] = slotCall[d]
    <3>1. kernel[One] = "stopped" /\ callback[One] = TRUE
      BY <1>2, <2>1 DEF OneInv, OneQuiet
    <3> QED BY <1>3, <1>4, <2>1, <3>1
  <2>3. OneInv'
    BY <1>2, <1>5, <2>1, <2>2, OneCallGoes
  <2>4. \A d \in Slot!Callers : slotCall'[d].op = "none"
    BY <1>2, <2>2
  <2>5. SlotState = "none" /\ SlotState' = "idle"
    BY <1>2, <2>1, <2>2, <2>3, <2>4, SeenState DEF SlotStateSeen
  <2>6. Slot!Contract!Create(One)
    BY <2>1, <2>3, <2>5, OneValues
       DEF Slot!Contract!Create, Slot!Contract!Answer, Slot!Answer, OwedCalls
  <2> QED BY <2>3, <2>6, OneAction
<1>9. CASE Slot!Spin(c)
  <2>1. /\ Slot!Goto(c, "clear", One) /\ slotCall[c].op = "spin" /\ inCallback[One] = 0
        /\ UNCHANGED <<slotUsed, callback, kernel, queue, called, slotAnswer>>
    BY <1>2, <1>9 DEF Slot!Spin
  <2>2. /\ slotCall'[c].op = "clear"
        /\ \A d \in Slot!Callers \ {c} : slotCall'[d] = slotCall[d]
    BY <1>3, <1>4, <2>1
  <2>3. called = None
    BY <1>4, <2>1 DEF OneInv, QueueType
  <2>4. queue = <<>>
    BY <1>2, <1>9, <2>3 DEF Slot!Spin, Slot!MayRun
  <2>5. callback[One] = TRUE
    BY <1>2, <2>1 DEF OneInv, OneQuiet
  <2>6. OneInv'
    BY <1>2, <2>1, <2>2, <2>3, <2>4, <2>5, OneCallGoes
  <2>7. SlotState = "closing" /\ SlotState' = "closing"
    BY <2>1, <2>2, <2>6, SeenState DEF SlotStateSeen
  <2> QED BY <2>1, <2>6, <2>7, OneStutters DEF OneDone
<1>10. CASE Slot!Clear(c)
  <2>1. /\ callback' = [callback EXCEPT ![One] = FALSE]
        /\ Slot!Goto(c, "release", One) /\ slotCall[c].op = "clear"
        /\ UNCHANGED <<slotUsed, kernel, queue, called, slotAnswer>>
    BY <1>2, <1>10 DEF Slot!Clear
  <2>2. /\ slotCall'[c].op = "release"
        /\ \A d \in Slot!Callers \ {c} : slotCall'[d] = slotCall[d]
    BY <1>3, <1>4, <2>1
  <2>3. OneInv'
    BY <1>2, <1>5, <2>1, <2>2, OneCallGoes
  <2>4. SlotState = "closing" /\ SlotState' = "closing"
    BY <2>1, <2>2, <2>3, SeenState DEF SlotStateSeen
  <2> QED BY <2>1, <2>3, <2>4, OneStutters DEF OneDone
<1>11. CASE Slot!Release(c)
  <2>1. /\ slotUsed' = [slotUsed EXCEPT ![One] = FALSE]
        /\ Slot!Goto(c, "none", None) /\ slotCall[c].op = "release"
        /\ Slot!Answer(One, "OK")
        /\ UNCHANGED <<kernel, callback, queue, called>>
    BY <1>2, <1>11 DEF Slot!Release
  <2>2. /\ slotCall'[c].op = "none" /\ slotUsed'[One] = FALSE
        /\ \A d \in Slot!Callers \ {c} : slotCall'[d] = slotCall[d]
    BY <1>3, <1>4, <2>1
  <2>3. OneInv'
    BY <1>2, <1>5, <2>1, <2>2, OneCallGoes
  <2>4. SlotState = "closing" /\ SlotState' = "none"
    BY <2>1, <2>2, <2>3, SeenState DEF SlotStateSeen
  <2>5. Len(queue) = 0 /\ called # One
    BY <1>4, <1>5, <2>1 DEF OneInv, SlotsInv, SlotsType
  <2>6. Slot!Contract!EndDelete(One)
    BY <2>1, <2>3, <2>4, <2>5, OneValues
       DEF Slot!Contract!EndDelete, Slot!Contract!Answer, Slot!Answer, OwedCalls
  <2> QED BY <2>3, <2>6, OneAction
<1> QED BY <1>6, <1>7, <1>8, <1>9, <1>10, <1>11 DEF Slot!Continue

LEMMA OneKernel ==
    ASSUME OneInv, SlotsInv', QueueType', NEW c \in Slot!Callers, NEW s \in Slots,
           Slot!Start(c, s) \/ Slot!Stop(c, s) \/ Slot!KernelDelete(c, s)
    PROVE  OneDone
<1>0. /\ One \in Slots /\ s = One /\ One # None
      /\ slotUsed \in [Slots -> BOOLEAN] /\ kernel \in [Slots -> {"none", "stopped", "ticking"}]
  BY DEF OneInv, SlotsInv, SlotsType
<1>1. /\ kernel[One] # "none" /\ \A d \in Slot!Callers : slotCall[d].slot # One
      /\ UNCHANGED <<slotUsed, callback, queue, called>>
      /\ slotCall[c].op = "none" /\ Slot!MayRun(c)
  BY <1>0 DEF Slot!Start, Slot!Stop, Slot!KernelDelete, Slot!Usable, Slot!slotVars,
              Slot!Free, Slot!Idle
<1>2. \A d \in Slot!Callers : slotCall[d].op = "none"
  BY <1>1, OneCall
<1>3. slotUsed[One] = TRUE
  BY <1>0, <1>1 DEF OneInv, SlotsInv, SlotsClean
<1>4. callback[One] = TRUE
  BY <1>2, <1>3 DEF OneInv, OneQuiet
<1>5. SlotState = IF kernel[One] = "ticking" THEN "pending" ELSE "idle"
  BY <1>2, <1>3, SeenState DEF SlotStateSeen
<1>6. CASE Slot!Start(c, s)
  <2>1. /\ kernel' = [kernel EXCEPT ![One] = "ticking"] /\ slotCall' = slotCall
        /\ Slot!Answer(One, "OK")
    BY <1>0, <1>6 DEF Slot!Start
  <2>2. kernel'[One] = "ticking"
    BY <1>0, <2>1
  <2>3. OneInv'
    BY <1>1, <1>2, <1>3, <1>4, <2>1, OneCallGoes
  <2>4. SlotState' = "pending"
    BY <1>1, <1>2, <1>3, <2>1, <2>2, <2>3, SeenState DEF SlotStateSeen
  <2>5. Slot!Contract!Start(One)
    BY <1>1, <1>5, <2>1, <2>3, <2>4, OneValues
       DEF Slot!Contract!Start, Slot!Contract!Answer, Slot!Answer, OwedCalls
  <2> QED BY <2>3, <2>5, OneAction
<1>7. CASE Slot!Stop(c, s)
  <2>1. /\ kernel' = [kernel EXCEPT ![One] = "stopped"] /\ slotCall' = slotCall
        /\ Slot!Answer(One, IF kernel[One] = "ticking" THEN "OK" ELSE "FAIL")
    BY <1>0, <1>7 DEF Slot!Stop
  <2>2. kernel'[One] = "stopped"
    BY <1>0, <2>1
  <2>3. OneInv'
    BY <1>1, <1>2, <1>3, <1>4, <2>1, OneCallGoes
  <2>4. SlotState' = "idle"
    BY <1>1, <1>2, <1>3, <2>1, <2>2, <2>3, SeenState DEF SlotStateSeen
  <2>5. Slot!Contract!Stop(One)
    BY <1>1, <1>5, <2>1, <2>3, <2>4, OneValues
       DEF Slot!Contract!Stop, Slot!Contract!Answer, Slot!Answer, OwedCalls
  <2> QED BY <2>3, <2>5, OneAction
<1>8. CASE Slot!KernelDelete(c, s)
  <2>1. /\ kernel' = [kernel EXCEPT ![One] = "none"] /\ Slot!Goto(c, "spin", One)
        /\ slotAnswer' = slotAnswer /\ ~(c = TimerTask /\ called = One)
    BY <1>0, <1>8 DEF Slot!KernelDelete
  <2>2. /\ slotCall'[c].op = "spin"
        /\ \A d \in Slot!Callers \ {c} : slotCall'[d] = slotCall[d]
    BY <1>0, <2>1, CallerGoes DEF OneInv, Slot!Ops
  <2>3. c # TimerTask
    <3>1. called # None => called = One
      BY DEF OneInv, QueueType
    <3> QED BY <1>1, <2>1, <3>1 DEF Slot!MayRun
  <2>4. OneInv'
    BY <1>1, <1>2, <1>3, <1>4, <2>2, <2>3, OneCallGoes
  <2>5. SlotState' = "closing"
    BY <2>2, <2>4, SeenState DEF SlotStateSeen
  <2>6. Slot!Contract!BeginDelete(One)
    BY <1>1, <1>5, <2>1, <2>4, <2>5, OneValues
       DEF Slot!Contract!BeginDelete, OwedCalls
  <2> QED BY <2>4, <2>6, OneAction
<1> QED BY <1>6, <1>7, <1>8

LEMMA OneExpires ==
    ASSUME OneInv, SlotsInv', QueueType', NEW s \in Slots, Slot!Expire(s)
    PROVE  OneDone
<1>0. /\ One \in Slots /\ s = One /\ queue \in Seq(Slots)
      /\ slotUsed \in [Slots -> BOOLEAN] /\ kernel \in [Slots -> {"none", "stopped", "ticking"}]
      /\ TimerTask \in Slot!Callers
  BY DEF OneInv, SlotsInv, SlotsType, QueueType, Slot!Callers
<1>1. /\ kernel[One] = "ticking" /\ kernel' = [kernel EXCEPT ![One] = "stopped"]
      /\ queue' = Append(queue, One)
      /\ UNCHANGED <<slotUsed, callback, called, slotCall, slotAnswer>>
  BY <1>0 DEF Slot!Expire, Slot!slotVars
<1>2. ASSUME NEW c \in Slot!Callers, slotCall[c].op # "none" PROVE FALSE
  <2>1. /\ Leaves(slotCall[c].op, kernel[One], callback[One]) /\ slotCall[c].op \in Slot!Ops
        /\ slotCall[c].op = "counting" => kernel[One] = "stopped"
    BY <1>2, OneCall DEF OneInv, OneQuiet, SlotsInv, SlotsType
  <2> QED BY <1>1, <1>2, <2>1 DEF Leaves, Slot!Ops
<1>3. slotUsed[One] = TRUE
  BY <1>0, <1>1 DEF OneInv, SlotsInv, SlotsClean
<1>4. callback[One] = TRUE
  BY <1>2, <1>3 DEF OneInv, OneQuiet
<1>5. kernel'[One] = "stopped" /\ Len(queue) \in Nat /\ Len(queue') = Len(queue) + 1
  BY <1>0, <1>1
<1>6. OneInv'
  BY <1>0, <1>1, <1>2, <1>3, <1>4, OneCallGoes
<1>7. SlotState = "pending" /\ SlotState' = "idle"
  BY <1>1, <1>2, <1>3, <1>5, <1>6, SeenState DEF SlotStateSeen
<1>8. Slot!Contract!Expire(One)
  BY <1>1, <1>5, <1>6, <1>7, OneValues DEF Slot!Contract!Expire, OwedCalls
<1> QED BY <1>6, <1>8, OneAction

LEMMA OneCalls ==
    ASSUME OneInv, SlotsInv', QueueType', Slot!Trampoline
    PROVE  OneDone
<1>0. /\ One \in Slots /\ One # None /\ queue \in Seq(Slots)
      /\ slotUsed \in [Slots -> BOOLEAN] /\ callback \in [Slots -> BOOLEAN]
  BY DEF OneInv, SlotsInv, SlotsType, QueueType
<1>1. UNCHANGED <<slotUsed, callback, kernel, slotCall, slotAnswer>>
  BY DEF Slot!Trampoline, Slot!Call, Slot!Skip, Slot!Return, Slot!slotVars
<1>2. SlotState' = SlotState
  BY <1>1 DEF SlotState, Slot!timerState, Slot!Creating, Slot!Deleting
<1>3. slotUsed[One] = TRUE /\
         \A c \in Slot!Callers : slotCall[c].op \notin {"filling", "counting", "clear", "release"}
  BY <1>0 DEF OneInv, OneQuiet, Slot!Trampoline, Slot!Call, Slot!Skip, Slot!Return
<1>4. OneInv'
  <2>1. OneQuiet'
    BY <1>1, <1>3 DEF OneInv, OneQuiet
  <2> QED BY <2>1 DEF OneInv, One
<1>5. callback[One] = TRUE
  BY <1>3 DEF OneInv, OneQuiet
<1>6. CASE Slot!Call
  <2>1. queue # <<>> /\ called = None /\ called' = Head(queue) /\ queue' = Tail(queue)
    BY <1>6 DEF Slot!Call
  <2>2. Head(queue) = One /\ Len(queue) \in Nat /\ Len(queue) > 0
        /\ Len(queue') = Len(queue) - 1
    BY <1>0, <2>1 DEF OneInv
  <2>a. /\ OwedCalls[One] = Len(queue)
        /\ OwedCalls' = [OwedCalls EXCEPT ![One] = OwedCalls[One] - 1]
    BY <1>4, <2>2, OneValues
  <2>b. Slot!timerState' = Slot!timerState
    BY <1>2, <1>4, StateIs, SeenNext
  <2>3. Slot!Contract!Run(One)
    BY <1>1, <2>1, <2>2, <2>a, <2>b DEF Slot!Contract!Run, OwedCalls
  <2> QED BY <1>4, <2>3, OneAction
<1>7. CASE Slot!Skip
  <2>1. queue # <<>> /\ ~(slotUsed[Head(queue)] /\ callback[Head(queue)])
    BY <1>7 DEF Slot!Skip
  <2>2. Head(queue) = One
    BY <1>0, <2>1 DEF OneInv
  <2> QED BY <1>3, <1>5, <2>1, <2>2
<1>8. CASE Slot!Return
  <2>1. called # None /\ called' = None /\ queue' = queue
    BY <1>8 DEF Slot!Return
  <2>2. Slot!Contract!Return
    BY <1>1, <1>2, <1>4, <2>1, OneValues, StateIs, SeenNext
       DEF Slot!Contract!Return, OwedCalls
  <2> QED BY <1>4, <2>2, OneAction
<1> QED BY <1>6, <1>7, <1>8 DEF Slot!Trampoline

LEMMA OneSteps ==
    ASSUME OneInv, [Slot!Next]_(Slot!vars)
    PROVE  OneDone
<1>1. SlotsInv' /\ QueueType'
  BY SlotsStep, QueueStep DEF OneInv
<1>2. CASE UNCHANGED Slot!vars
  <2>1. UNCHANGED <<slotUsed, callback, kernel, queue, called, slotCall, slotAnswer>>
    BY <1>2 DEF Slot!vars
  <2>2. OneInv'
    BY <1>1, <2>1 DEF OneInv, OneQuiet, One
  <2>3. SlotState' = SlotState
    BY <2>1 DEF SlotState, Slot!timerState, Slot!Creating, Slot!Deleting
  <2> QED BY <2>1, <2>2, <2>3, OneStutters DEF OneDone
<1> QED BY <1>1, <1>2, OneClaims, OneRefuses, OneContinues, OneKernel, OneExpires, OneCalls
       DEF Slot!Next

(* The one timer of the call manager on CMSIS keeps the contract of        *)
(* tel_os_adapter.h, for any number of tasks and any length of the timer   *)
(* task's queue: however TelOsTimerDelete meets an expiry or the callback, *)
(* when its spin ends and the slot is released none is left.               *)
THEOREM OneCmsisTimerImplements ==
    None \notin Slots /\ (\E s : Slots = {s}) => (Slot!Spec => Slot!Implements)
<1>1. OneInv /\ [Slot!Next]_(Slot!vars) =>
         OneInv' /\ [Slot!Contract!Next]_(Slot!Contract!vars)
  BY OneSteps DEF OneDone, OneStep
<1> QED BY <1>1, OneInit, PTL DEF Slot!Spec, Slot!Implements, Slot!Contract!Spec
=============================================================================
