----------------------------- MODULE MCClientApi -----------------------------
(***************************************************************************)
(* ClientApi with many methods and trust models for a task that is alone,  *)
(* and with few for two tasks.                                             *)
(***************************************************************************)
EXTENDS ClientApi, TLC

VARIABLE alone

\* A system application without a permission, with one, with all, or with
\* the pair a refused rejection needs; and three that are no system's.
Trust(system, granted) == [system |-> system, granted |-> granted]
Trusted == {Trust(TRUE, Permissions)}
Models ==
    {Trust(TRUE, g) : g \in {p \in SUBSET Permissions : Cardinality(p) <= 1}}
        \cup {Trust(TRUE, {"ANSWER_CALL", "SEND_MESSAGES"}),
              Trust(FALSE, {}), Trust(FALSE, Permissions),
              Trust(FALSE, {"MANAGE_CALL_FOR_DEVICES"})} \cup Trusted

\* The methods that reach the service, and some of those that do not: turned
\* down by the proxy, or answered by the client.
Some == InScope \cup {"SetMuted", "GetMainCallId", "NotifyTransferCallContact",
                      "IsInEmergencyCall", "FormatPhoneNumber"}

\* Two tasks register and close.
Shared == {"RegisterCallBack", "UnRegisterCallBack", "EndCall"}

OneCalls == \E c \in Clients : \A d \in Clients \ {c} : call[d] = NoCall

ClientsInit == Init /\ alone \in BOOLEAN /\ (~alone => trust \in Trusted)
ClientsNext ==
    /\ Next
    /\ IF alone THEN OneCalls' /\ Len(queue') <= 1
       ELSE \A c \in Clients :
               call'[c].method \in Shared \cup {"none", "Init", "UnInit"}
    /\ UNCHANGED alone

ClientsSpec == ClientsInit /\ [][ClientsNext]_<<vars, alone>>

Symmetry == Permutations(Clients)
=============================================================================
