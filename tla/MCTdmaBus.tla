----------------------------- MODULE MCTdmaBus ------------------------------
(***************************************************************************)
(* An instance of TdmaBus for TLC: two senders, one of them with two       *)
(* channels of one message size and the other of two.                      *)
(***************************************************************************)
EXTENDS TdmaBus

CONSTANTS a, b

SenderSet  == {a, b}
ChannelSet == {[name |-> 1, link |-> a, size |-> 5], [name |-> 2, link |-> a, size |-> 5],
               [name |-> 3, link |-> b, size |-> 1], [name |-> 4, link |-> b, size |-> 4]}
=============================================================================
