---------------------------- MODULE MCFifoBuffer ----------------------------
(***************************************************************************)
(* Instances of FifoBuffer for TLC: channels of different routes, with     *)
(* messages of different sizes and delays.                                 *)
(***************************************************************************)
EXTENDS FifoBuffer

CONSTANTS big, small, a, b

Two        == {big, small}
Sizes      == [l \in Link |-> IF l = big THEN 4 ELSE 2]
TheDelays  == [l \in Link |-> IF l = big THEN {2} ELSE {0, 1}]
Schedule   == <<small, big>>
Capacities == [l \in Link |-> IF l = big THEN 2 ELSE 1]
Payloads   == [l \in Link |-> IF l = big THEN {a} ELSE {a, b}]
Tokens     == [l \in Link |-> IF l = big THEN <<a>> ELSE <<>>]

Mapping(forBig, forSmall) == [l \in Link |-> IF l = big THEN forBig ELSE forSmall]
TheMappings == {Mapping("netif", "netif"), Mapping("netif", "PE"), Mapping("PE", "none")}
=============================================================================
