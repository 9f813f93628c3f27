---------------------------- MODULE MCCallService ----------------------------
(* CallService on small instances: model values for the tasks, the         *)
(* callbacks and the stacks.                                               *)
EXTENDS CallService, TLC

Symmetry == Permutations(Clients) \cup Permutations(Callbacks)
                \cup Permutations(Stacks)

\* What nobody will read again is left out of the state: the last call of a
\* client that makes none, the flag of a callback nothing refers to, and
\* whether a notice was lost, unless a ready service waits for its stack.
CurrentCall(c) == IF cpc[c] \in {"post", "wait"} THEN cop[c] ELSE "none"
View == <<loopVars, serviceVars, connectionVars, reportCb, registerStatus,
          proxyCb, closed \ Free, initVars, stackVars,
          missed /\ ready /\ ~callbackRegistered,
          cpc, [c \in Clients |-> CurrentCall(c)], ccb, opc>>
=============================================================================
