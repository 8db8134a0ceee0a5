------------------------------ MODULE Dispatch ------------------------------
(***************************************************************************)
(* The decision of scheduler::dispatch() (src/src/scheduler.cpp): which    *)
(* of the tasks assigned to a local scheduler receives the processor.      *)
(* Every operator is a pure function of what dispatch() reads: the set of  *)
(* tasks whose state_signal is READY, the circular iterator of the policy  *)
(* and, for EDF, the time each task has left to its next deadline.         *)
(***************************************************************************)
EXTENDS Integers, Sequences, LeastElement

CONSTANTS
  Task,            \* the tasks assigned to the scheduler
  Assigned,        \* tasks_assigned: the tasks in the order of the map, by name
  ByPriority,      \* tasks_by_priority: the tasks as end_of_elaboration sorts them
  StaticSchedule   \* static_schedule_by_task_info_pointers

\* What elaboration leaves (DispatchCalls): a static schedule of the assigned
\* tasks in which each appears, and tasks_by_priority, a permutation of them.
ASSUME TaskSetAssumption ==
  /\ Task # {}
  /\ \A s \in {Assigned, ByPriority, StaticSchedule} :
       /\ s \in Seq(Task)
       /\ {s[i] : i \in 1..Len(s)} = Task

\* A choice of dispatch(): the task and the iterator it leaves behind.
Choice == [task : Task, it : Nat \ {0}]

\* STATIC_SCHEDULING: the next entry of the schedule, whatever its state.
StaticChoice(schedule, it) ==
  [task |-> schedule[it], it |-> IF it = Len(schedule) THEN 1 ELSE it + 1]

\* Variant: every round starts again at the head of the list.
CycleChoiceFromHead(it, ready) ==
  LET hits == {k \in 1..Len(Assigned) : Assigned[k] \in ready}
  IN  [task |-> Assigned[IF hits = {} THEN 1 ELSE Least(hits)], it |-> 1]

\* Variant: the iterator leaves the end of the list.
CycleChoiceNoWrap(it, ready) == [task |-> Assigned[it], it |-> it + 1]

\* CYCLE_EXECUTIVE: at most one round from it_dyn_sched; the iterator advances
\* past every task examined, and the last task examined is returned.
CycleChoice(it, ready) ==
  LET n    == Len(Assigned)
      At(k) == ((it + k - 1) % n) + 1
      hits == {k \in 0..n-1 : Assigned[At(k)] \in ready}
      last == IF hits = {} THEN n - 1 ELSE Least(hits)
  IN  [task |-> Assigned[At(last)], it |-> At(last + 1)]

\* Variant: the READY task of the lowest priority.
PriorityChoiceLowest(byPriority, it, ready) ==
  LET hits == {k \in 1..Len(byPriority) : byPriority[k] \in ready}
  IN  [task |-> byPriority[IF hits = {} THEN 1 ELSE CHOOSE k \in hits : \A j \in hits : j <= k],
       it |-> it]

\* STATIC_PRIORITIES: the first READY task in priority order, and the task of
\* the highest priority when none is READY.
PriorityChoice(byPriority, it, ready) ==
  LET hits == {k \in 1..Len(byPriority) : byPriority[k] \in ready}
  IN  [task |-> byPriority[IF hits = {} THEN 1 ELSE Least(hits)], it |-> it]

\* EARLIEST_DEADLINE_FIRST with first_ready_task_found false on entry.  The
\* shortest deadline is recorded for the first READY task only, so the last
\* READY task that beats that first one is returned; with no READY task the
\* second loop keeps comparing the first task with itself.
EdfScan(ready, timeToDeadline) ==
  LET hits  == {k \in 1..Len(Assigned) : Assigned[k] \in ready}
      first == Least(hits)
      beats == {k \in hits : timeToDeadline[Assigned[first]] > timeToDeadline[Assigned[k]]}
  IN  CASE hits = {} -> Assigned[1]
        [] hits # {} /\ beats = {} -> Assigned[first]
        [] hits # {} /\ beats # {} ->
             Assigned[CHOOSE k \in beats : \A j \in beats : j <= k]

\* first_ready_task_found is a local that is never initialised.  When it is
\* true on entry no READY task beats the zero it is compared with and the
\* uninitialised return_task_info is returned: any task the slot still names.
EdfChoices(flagOnEntry, ready, timeToDeadline) ==
  IF flagOnEntry THEN Task ELSE {EdfScan(ready, timeToDeadline)}
=============================================================================
