--------------------------- MODULE MCDispatchCalls ---------------------------
(***************************************************************************)
(* Instance of DispatchCalls for TLC: four tasks, whose settings order     *)
(* them differently under each static priorities policy, with ties, and a  *)
(* fifth one assigned elsewhere.                                           *)
(***************************************************************************)
EXTENDS DispatchCalls

CONSTANTS a, b, c, d, other

Four   == {a, b, c, d}
ByName == <<a, b, c, d>>

Nothing == {<<<<>>, <<>>>>}

\* By names, by pointers, by both; coherent or not; too short, and with a task
\* of another scheduler.
Given ==
  LET S == <<b, a, d, c, a>>
      P == <<b, a, d, a, c>>
  IN  {<<S, <<>>>>, <<<<>>, S>>, <<S, S>>, <<S, P>>, <<S, ByName>>, <<ByName, <<>>>>,
       <<<<>>, <<>>>>, <<<<a, b, c>>, <<>>>>, <<<<>>, <<d, b, c>>>>, <<<<a, b, c>>, <<a, b, d>>>>,
       <<<<a, b, c, d, other>>, <<>>>>, <<<<>>, <<a, b, c, d, other>>>>}

Setting(pr, t, dl, w) == [priority |-> pr, period |-> t, deadline |-> dl, WCET |-> w]

\* The setters called: deadlines before and after periods, and refused values.
SetCall(s, t, v) == [setter |-> s, task |-> t, value |-> v]
SomeSet ==
  {SetCall("set_Period", b, 5), SetCall("set_Deadline", b, 0), SetCall("set_priority", c, 1),
   SetCall("set_Period", d, 0), SetCall("set_priority", a, 0)}
NoneSet  == {}

Unset == {[t \in Four |-> Setting(255, 0, 0, 1)]}

\* An aperiodic task without deadline, equal periods, and deadlines in an order
\* of their own.
Described ==
  {[t \in Four |-> CASE t = a -> Setting(3, 6, 4, 1) [] t = b -> Setting(1, 4, 4, 2)
                     [] t = c -> Setting(2, 6, 3, 1) [] t = d -> Setting(2, 9, 8, 4)],
   [t \in Four |-> CASE t = a -> Setting(2, 4, 4, 1) [] t = b -> Setting(1, 0, 0, 2)
                     [] t = c -> Setting(255, 6, 5, 1) [] t = d -> Setting(255, 6, 6, 4)]}
=============================================================================
