---------------------------- MODULE DispatchCalls ----------------------------
(***************************************************************************)
(* A scheduler from its elaboration to its calls of dispatch().            *)
(* The tasks are set in any order of the calls of their setters.           *)
(* Elaboration refuses or prepares the static schedule, given as a list of *)
(* task names, of pointers to tasks or both, and sorts tasks_by_priority.  *)
(* Then dispatch() is called with arbitrary task states: between two calls *)
(* any task may become READY or stop being READY, and the deadlines move.  *)
(* The iterators persist from one call to the next; passed counts, for     *)
(* each task, the calls in a row that found it READY and returned another  *)
(* task, and turn is the entry of the given schedule that is due.          *)
(***************************************************************************)
EXTENDS Dispatch, FiniteSets

CONSTANTS
  MaxTime,          \* the largest time to the next deadline
  Policies,         \* the policies the scheduler may have
  Foreign,          \* tasks that are not assigned to this scheduler
  StaticSchedules,  \* what may be given: pairs of a list of names and one of pointers
  Sortings,         \* the static priorities policies the scheduler may have
  TaskSets,         \* what may be known of each task: priority, period, deadline, WCET
  SettingCalls      \* the calls of setters still to come, in any order and number

DispatchPolicy == {"STATIC_SCHEDULING", "CYCLE_EXECUTIVE", "STATIC_PRIORITIES",
            "EARLIEST_DEADLINE_FIRST"}

\* Period and deadline are 0 until they are set.
Settings == [priority : Nat \ {0}, period : Nat, deadline : Nat, WCET : Nat]

Lists == Seq(Task \cup Foreign)

ASSUME DispatchCallsAssumption ==
  /\ MaxTime \in Nat
  /\ Policies \subseteq DispatchPolicy
  /\ Foreign \cap Task = {}
  /\ StaticSchedules \subseteq Lists \X Lists
  /\ Sortings \subseteq {"USER_PRIORITIES", "RATE_MONOTONIC", "DEADLINE_MONOTONIC",
                         "DENSITY_MONOTONIC"}
  /\ TaskSets \subseteq [Task -> Settings]
  /\ SettingCalls \subseteq [setter : {"set_Period", "set_Deadline", "set_priority"},
                             task : Task, value : Nat]

VARIABLES
  status,           \* "elaboration", "running", or "error": a report ended the program
  policy,           \* scheduler_policy, and dynamic_priorities_policy
  sorting,          \* static_priorities_policy
  settings,         \* what was set of each task
  names,            \* static_schedule_by_task_names
  pointers,         \* static_schedule_by_task_info_pointers
  given,            \* the static schedule its user meant
  byPriority,       \* tasks_by_priority
  it,               \* it_dyn_sched
  itStatic,         \* it_static_sched
  ready,            \* the tasks READY at the last call
  timeToDeadline,   \* of each task, get_time_to_next_deadline() at the last call
  flag,             \* what first_ready_task_found held on entry
  task,             \* the task the last call returned
  passed,
  turn

configVars == <<policy, sorting, names, given>>
callVars == <<it, itStatic, ready, timeToDeadline, flag, task, passed, turn>>
vars == <<status, pointers, byPriority, settings, configVars, callVars>>

Init ==
  /\ status = "elaboration"
  /\ policy \in Policies /\ sorting \in Sortings /\ settings \in TaskSets
  /\ \E s \in StaticSchedules :
       /\ names = s[1] /\ pointers = s[2]
       /\ given = IF s[1] = <<>> THEN s[2] ELSE s[1]
  /\ byPriority = <<>>
  /\ it = 1 /\ itStatic = 1
  /\ ready = {} /\ flag = FALSE
  /\ timeToDeadline = [t \in Task |-> 0]
  /\ task = Assigned[1]
  /\ passed = [t \in Task |-> 0]
  /\ turn = 0

-----------------------------------------------------------------------------
\* The setters of a task; once the simulation runs they are refused.

\* A period of 0 is an error.  The period is the implicit deadline of a task
\* that has none; a deadline set before is kept.
SetPeriod(t, v) ==
  /\ status' = IF v = 0 THEN "error" ELSE status
  /\ settings' = IF v = 0 THEN settings
                 ELSE [settings EXCEPT ![t].period = v,
                                       ![t].deadline = IF @ = 0 THEN v ELSE @]

\* A deadline of 0, or one beyond the period, is only warned of.
SetDeadline(t, v) ==
  /\ settings' = [settings EXCEPT ![t].deadline = v]
  /\ UNCHANGED status

\* Priority 0 is reserved.
SetPriority(t, v) ==
  /\ status' = IF v = 0 THEN "error" ELSE status
  /\ settings' = IF v = 0 THEN settings ELSE [settings EXCEPT ![t].priority = v]

Set(c) ==
  /\ status = "elaboration"
  /\ \/ c.setter = "set_Period" /\ SetPeriod(c.task, c.value)
     \/ c.setter = "set_Deadline" /\ SetDeadline(c.task, c.value)
     \/ c.setter = "set_priority" /\ SetPriority(c.task, c.value)
  /\ UNCHANGED <<pointers, byPriority, configVars, callVars>>

-----------------------------------------------------------------------------
\* Elaboration.

Entries(s) == {s[i] : i \in 1..Len(s)}

\* Variant: two lists of one length are not compared.
StaticScheduleRefusedBySize ==
  \/ names = <<>> /\ pointers = <<>>
  \/ names # <<>> /\ pointers # <<>> /\ Len(names) # Len(pointers)
  \/ ~(Entries(names) \subseteq Task)
  \/ ~(Task \subseteq Entries(pointers \o names))

\* No schedule, two that differ, a name that is not one of an assigned task, or
\* an assigned task that does not appear.  Pointers are not looked up.
StaticScheduleRefused ==
  \/ names = <<>> /\ pointers = <<>>
  \/ names # <<>> /\ pointers # <<>> /\ names # pointers
  \/ ~(Entries(names) \subseteq Task)
  \/ ~(Task \subseteq Entries(pointers \o names))

\* The names are appended to the pointers, also when both were given.
CheckAndPrepareStaticSchedule ==
  /\ status' = IF StaticScheduleRefused THEN "error" ELSE "running"
  /\ pointers' = pointers \o names
  /\ UNCHANGED byPriority

\* The comparison that std::sort is called with; the density of a task is its
\* WCET divided by its deadline.
Precedes(t, u) ==
  LET x == settings[t]
      y == settings[u]
  IN  CASE sorting = "USER_PRIORITIES"    -> x.priority < y.priority
        [] sorting = "RATE_MONOTONIC"     -> x.period < y.period
        [] sorting = "DEADLINE_MONOTONIC" -> x.deadline < y.deadline
        [] sorting = "DENSITY_MONOTONIC"  -> x.WCET * y.deadline > y.WCET * x.deadline

\* std::sort leaves tasks that compare equal in any order.
SortedByPriority ==
  {s \in [1..Len(Assigned) -> Task] :
     /\ Entries(s) = Task
     /\ \A i, j \in 1..Len(Assigned) : i < j => ~Precedes(s[j], s[i])}

\* density() reports an error for a task without deadline.
SortTasks ==
  /\ status' = IF sorting = "DENSITY_MONOTONIC" /\ \E t \in Task : settings[t].deadline = 0
               THEN "error" ELSE "running"
  /\ byPriority' \in IF status' = "error" THEN {byPriority} ELSE SortedByPriority
  /\ UNCHANGED pointers

EndOfElaboration ==
  /\ status = "elaboration"
  /\ IF policy = "STATIC_SCHEDULING" THEN CheckAndPrepareStaticSchedule ELSE SortTasks
  /\ UNCHANGED <<settings, configVars, callVars>>

-----------------------------------------------------------------------------
\* Calls of dispatch().

Returned(r, d, f) ==
  CASE policy = "STATIC_SCHEDULING" ->
         LET choice == StaticChoice(pointers, itStatic)
         IN  {[task |-> choice.task, it |-> it, itStatic |-> choice.it]}
    [] policy = "CYCLE_EXECUTIVE" ->
         LET choice == CycleChoice(it, r)
         IN  {[task |-> choice.task, it |-> choice.it, itStatic |-> itStatic]}
    [] policy = "STATIC_PRIORITIES" ->
         {[task |-> PriorityChoice(byPriority, it, r).task, it |-> it, itStatic |-> itStatic]}
    [] policy = "EARLIEST_DEADLINE_FIRST" ->
         {[task |-> t, it |-> it, itStatic |-> itStatic] : t \in EdfChoices(f, r, d)}

\* Only EDF reads the deadlines and the flag.
EdfInputs ==
  IF policy = "EARLIEST_DEADLINE_FIRST"
  THEN [Task -> 0..MaxTime] \X BOOLEAN
  ELSE {<<timeToDeadline, FALSE>>}

\* passed is counted up to the length of a round.
Round == Len(Assigned)

\* The turns of the schedule that was given go round.
NextTurn == IF turn >= Len(given) THEN 1 ELSE turn + 1

DispatchCall ==
  /\ status = "running"
  /\ \E r \in SUBSET Task, in \in EdfInputs :
       \E c \in Returned(r, in[1], in[2]) :
         /\ ready' = r /\ timeToDeadline' = in[1] /\ flag' = in[2]
         /\ task' = c.task /\ it' = c.it /\ itStatic' = c.itStatic
         /\ passed' = [t \in Task |-> IF t \notin r \/ t = c.task THEN 0
                                      ELSE Least({passed[t] + 1, Round})]
  /\ turn' = NextTurn
  /\ UNCHANGED <<status, pointers, byPriority, settings, configVars>>

Next == (\E c \in SettingCalls : Set(c)) \/ EndOfElaboration \/ DispatchCall

Spec == Init /\ [][Next]_vars

-----------------------------------------------------------------------------
\* Every variable holds a value of its kind, the iterators are positions of
\* what they iterate over and tasks_by_priority is a list of the tasks.
TypeOK ==
  /\ status \in {"elaboration", "running", "error"}
  /\ policy \in Policies /\ sorting \in Sortings /\ settings \in [Task -> Settings]
  /\ names \in Lists /\ pointers \in Lists /\ given \in Lists
  /\ byPriority \in Seq(Task)
  /\ it \in 1..Round
  /\ itStatic \in 1..(IF Len(pointers) = 0 THEN 1 ELSE Len(pointers))
  /\ ready \subseteq Task /\ task \in Task \cup Foreign
  /\ timeToDeadline \in [Task -> 0..MaxTime] /\ flag \in BOOLEAN
  /\ passed \in [Task -> 0..Round]
  /\ turn \in Nat

Returns(p) == status = "running" /\ policy = p /\ ready # {}

\* The rotation of the cycle executive is fair: a task that stays READY is
\* returned within one round of calls, wherever the iterator was left and
\* whatever the other tasks do.
RotationFair ==
  policy = "CYCLE_EXECUTIVE" => \A t \in Task : passed[t] < Round

\* With the cycle executive dispatch() returns a READY task, with static
\* priorities one that no READY task precedes in the order of priorities,
\* periods, deadlines or densities the scheduler was configured with.
ReadyTaskReturned ==
  /\ Returns("CYCLE_EXECUTIVE") => task \in ready
  /\ Returns("STATIC_PRIORITIES") =>
       task \in ready /\ \A t \in ready : ~Precedes(t, task)

\* With static scheduling the calls of dispatch() return the schedule that was
\* given, entry by entry and round after round, whether it was given by names,
\* by pointers or by both; every assigned task has its turn in it, and one
\* given by names has no other.
StaticScheduleFollowed ==
  policy = "STATIC_SCHEDULING" /\ status = "running" =>
    /\ turn > 0 => task = given[turn]
    /\ Task \subseteq Entries(given)
    /\ names # <<>> => Entries(given) \subseteq Task

\* "returns the active task with an earliest deadline among ready tasks",
\* stated for the calls that find the uninitialised flag false.
EarliestDeadlineReturned ==
  Returns("EARLIEST_DEADLINE_FIRST") /\ ~flag =>
    task \in ready /\ \A t \in ready : timeToDeadline[task] <= timeToDeadline[t]
=============================================================================
