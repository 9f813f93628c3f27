---------------------------- MODULE MCConference ----------------------------
(* The hand-overs of the configurations of Conference.                     *)
EXTENDS Conference

ToCs == {<<"IMS", "CS">>}
BothWays == {<<"IMS", "CS">>, <<"CS", "IMS">>}
=============================================================================
