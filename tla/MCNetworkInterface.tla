------------------------- MODULE MCNetworkInterface -------------------------
(***************************************************************************)
(* Instances of NetworkInterface for TLC: three links with messages of     *)
(* different sizes and delays.                                             *)
(***************************************************************************)
EXTENDS NetworkInterface

CONSTANTS big, small, tiny

Three      == {big, small, tiny}
Sizes      == [l \in Link |-> CASE l = big -> 4 [] l = small -> 2 [] l = tiny -> 1]
TheDelays  == [l \in Link |-> IF l = big THEN {2} ELSE {1}]
Unranked   == <<>>
=============================================================================
