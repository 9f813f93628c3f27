------------------------------ MODULE TimedTable ------------------------------
(***************************************************************************)
(* What a table of delayed tasks promises, with no clock that wraps: every *)
(* task waits out its delay, tasks are taken out in the order in which     *)
(* they fall due, those due together in the order in which they were       *)
(* posted, and a task that was removed or dropped is not run.              *)
(***************************************************************************)
EXTENDS Integers, Sequences

CONSTANTS
    Jobs,       \* the tasks
    Delays,     \* the ticks a task may be made to wait
    MaxTasks    \* how many of them may wait

VARIABLES
    pending,    \* waiting tasks, the next to fall due first, each with the
                \* ticks it has left (negative once it is overdue)
    taken       \* tasks taken out and not run yet, the next one first

vars == <<pending, taken>>

Init == pending = <<>> /\ taken = <<>>

\* A task goes behind those that fall due before it or together with it.
Post(job, delay) ==
    /\ Len(pending) < MaxTasks
    /\ \E n \in 0 .. Len(pending) :
          /\ \A i \in 1 .. n : pending[i].left <= delay
          /\ \A i \in n + 1 .. Len(pending) : delay < pending[i].left
          /\ pending' = [i \in 1 .. Len(pending) + 1 |->
                            IF i <= n THEN pending[i]
                            ELSE IF i = n + 1 THEN [job |-> job, left |-> delay]
                            ELSE pending[i - 1]]
    /\ UNCHANGED taken

Remove(n) ==
    /\ n \in 1 .. Len(pending)
    /\ pending' = [i \in 1 .. Len(pending) - 1 |->
                      IF i < n THEN pending[i] ELSE pending[i + 1]]
    /\ UNCHANGED taken

Tick ==
    /\ pending' = [i \in 1 .. Len(pending) |->
                      [pending[i] EXCEPT !.left = pending[i].left - 1]]
    /\ UNCHANGED taken

\* The tasks that are due leave the table, all of them.
Take ==
    /\ taken = <<>>
    /\ \E n \in 0 .. Len(pending) :
          /\ \A i \in 1 .. n : pending[i].left <= 0
          /\ \A i \in n + 1 .. Len(pending) : pending[i].left > 0
          /\ taken' = [i \in 1 .. n |-> pending[i].job]
          /\ pending' = [i \in 1 .. Len(pending) - n |-> pending[i + n]]

Run == taken # <<>> /\ taken' = Tail(taken) /\ UNCHANGED pending

DropAll == pending' = <<>> /\ UNCHANGED taken

Next ==
    \/ \E job \in Jobs : \E delay \in Delays : Post(job, delay)
    \/ \E n \in 1 .. Len(pending) : Remove(n)
    \/ Tick
    \/ Take
    \/ Run
    \/ DropAll

Spec == Init /\ [][Next]_vars
=============================================================================
