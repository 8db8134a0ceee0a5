-------------------------- MODULE MCTaskAccounting --------------------------
(***************************************************************************)
(* Instances of TaskAccounting for TLC.                                    *)
(***************************************************************************)
EXTENDS TaskAccounting, TLC

CONSTANTS hi, mid, lo

Solo == {hi}
One  == <<hi>>
Trio == {hi, mid, lo}
HiMidLo == <<hi, mid, lo>>

TrioNone    == [t \in Trio |-> 0]
TrioEndless == [t \in Trio |-> TRUE]

\* Two periodic tasks and an aperiodic one that waits for the semaphore the
\* first one posts in each of its jobs.
TrioPeriod == (hi :> 6 @@ mid :> 9 @@ lo :> 0)
TrioScript ==
  (hi  :> <<{Consume(1), Consume(2)}, {SemPost}, {WaitPeriod}>> @@
   mid :> <<{Consume(1), Consume(2), Consume(4)}, {WaitPeriod}>> @@
   lo  :> <<{SemWait}, {Consume(1)}>>)

\* One task whose jobs may take longer than its period.
SoloNone     == [t \in Solo |-> 0]
SoloPeriod   == [t \in Solo |-> 4]
SoloEndless  == [t \in Solo |-> TRUE]
OverrunScript == [t \in Solo |-> <<{Consume(2), Consume(5)}, {WaitPeriod}>>]
=============================================================================
