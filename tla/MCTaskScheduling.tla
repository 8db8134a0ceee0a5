-------------------------- MODULE MCTaskScheduling --------------------------
(***************************************************************************)
(* Instances of TaskScheduling for TLC: task sets, orders and scripts.     *)
(***************************************************************************)
EXTENDS TaskScheduling, TLC

CONSTANTS hi, mid, lo

Pair   == {hi, lo}
HiLo   == <<hi, lo>>
Trio   == {hi, mid, lo}
HiMidLo == <<hi, mid, lo>>

PairNone     == [t \in Pair |-> 0]
TrioNone     == [t \in Trio |-> 0]
PairEndless  == [t \in Pair |-> TRUE]
TrioFinite   == [t \in Trio |-> FALSE]
TrioEndless  == [t \in Trio |-> TRUE]

\* Two waiters race for the token the first task posts, or the event it sets, in
\* each of its jobs.
SharedPeriod == (hi :> 11 @@ mid :> 0 @@ lo :> 0)
SharedScript ==
  (hi  :> <<{Consume(1)}, {SemPost, EventSet}, {WaitPeriod}>> @@
   mid :> <<{SemWait, EventWait}, {Consume(1), Consume(6)}>> @@
   lo  :> <<{SemWait, EventWait}, {Consume(2), Consume(9)}>>)

\* Aperiodic tasks that compute for ever, sliced by the tick timer; the second
\* one sets and unsets the event the third one may wait for.
AllKinds     == EventKind
SlicedScript ==
  (hi  :> <<{Consume(1), Consume(3), Yield}, {Consume(2)}>> @@
   mid :> <<{Yield, EventSet, EventUnset}, {Consume(2)}>> @@
   lo  :> <<{EventWait, Consume(3)}, {Consume(2)}>>)

\* Periodic tasks.
PairPeriod     == (hi :> 3 @@ lo :> 6)
PeriodicScript ==
  (hi :> <<{Consume(1)}, {WaitPeriod}>> @@
   lo :> <<{Consume(1), Consume(2), Consume(3)}, {WaitPeriod}>>)
\* Three tasks that compete; the later ones may miss deadlines.
TrioLong     == (hi :> 4 @@ mid :> 7 @@ lo :> 12)

\* Finite tasks whose last call is a consumption.
FiniteScript ==
  [t \in Task |-> <<{Consume(1)}, {WaitPeriod, Consume(3)}, {Consume(2)}>>]
=============================================================================
