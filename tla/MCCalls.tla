------------------------------ MODULE MCCalls ------------------------------
(***************************************************************************)
(* CallManager on two instances in one run: normal calls on two slots with *)
(* room in the table, and emergency calls on one slot with a table that is *)
(* soon full.  What was sent, told and returned in a step has no influence *)
(* on later steps; the view leaves it out.                                 *)
(***************************************************************************)
EXTENDS CallManager, TLC

VARIABLE part   \* "normal", or the slot of the emergency calls

Ecc(slot) == INSTANCE CallManager WITH
    Slots <- {slot}, MaxCallObjects <- 2, Dials <- {"normal", "ecc"},
    Controls <- {"answer", "reject", "hangup", "hold", "unhold", "switch", "end"}

CallsInit == Init /\ part \in {"normal"} \cup Slots
CallsNext ==
    /\ \/ part = "normal" /\ Next
       \/ \E slot \in Slots : part = slot /\ Ecc(slot)!Next
    /\ UNCHANGED part
CallsSpec == CallsInit /\ [][CallsNext]_<<vars, part>>

Symmetry == Permutations(Slots) \cup Permutations(CallTypes)
View == <<part, table, lastCallId, dialEcc, pendingMo, pendingHangup,
          protectTask, ringtone, waitingTone, callAudio, requests, details, todo>>
=============================================================================
