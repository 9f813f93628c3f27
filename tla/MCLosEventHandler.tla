-------------------------- MODULE MCLosEventHandler --------------------------
(* LosEventHandler on small instances: model values for the client tasks   *)
(* and the heap blocks, and the smallest pools that can run full.          *)
EXTENDS LosEventHandler, TLC

Symmetry == Permutations(Callers) \cup Permutations(Contexts)

\* The fields of a context that nobody references are garbage: states that
\* differ only there are the same state.
ContextView(c) ==
    IF Referenced(c)
    THEN <<ctxSlot[c], ctxStatus[c], c \in abandoned, c \in done, c \in ran>>
    ELSE <<>>
View == <<lifeVars, queueVars, waiterVars, timerVars, callVars, loopVars,
          [c \in Contexts |-> ContextView(c)]>>

\* A call that uses a deleted kernel object has no defined outcome: nothing is
\* claimed of a behaviour in which Init failed and a late call did that.
Defined == NoUseAfterRelease
=============================================================================
