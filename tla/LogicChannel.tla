---------------------------- MODULE LogicChannel ----------------------------
(***************************************************************************)
(* What a system level channel promises to the tasks at its two ends: the  *)
(* messages arrive in the order they were written, each of them once, and  *)
(* a writer gets ahead of the reader by the capacity of the channel plus   *)
(* the one message it is writing.                                          *)
(***************************************************************************)
EXTENDS Naturals, Sequences

CONSTANTS
  Link,       \* the channels
  Payload,    \* of each channel: what a message may carry
  Capacity,   \* of each channel: how many messages it stores
  Initial     \* of each channel: the messages it starts with

VARIABLE content  \* of each channel: the messages written and not read yet

Init == content = Initial

Send(l, m) ==
  /\ Len(content[l]) <= Capacity[l]
  /\ content' = [content EXCEPT ![l] = Append(@, m)]

Receive(l) ==
  /\ content[l] # <<>>
  /\ content' = [content EXCEPT ![l] = Tail(@)]

Next == \E l \in Link : Receive(l) \/ \E m \in Payload[l] : Send(l, m)

Spec == Init /\ [][Next]_content
=============================================================================
