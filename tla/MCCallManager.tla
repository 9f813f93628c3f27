--------------------------- MODULE MCCallManager ---------------------------
(***************************************************************************)
(* CallManager for TLC. What was sent, told and returned in a step has no  *)
(* influence on later steps; the action properties read it in the step     *)
(* itself, so the view leaves it out.                                      *)
(***************************************************************************)
EXTENDS CallManager, TLC

Symmetry == Permutations(Slots) \cup Permutations(CallTypes)
View == <<table, lastCallId, dialEcc, pendingMo, pendingHangup, protectTask,
          ringtone, waitingTone, callAudio, requests, details, todo>>
=============================================================================
