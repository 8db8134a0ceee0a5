--------------------------- MODULE TaskScheduling ---------------------------
(***************************************************************************)
(* One KisTA local scheduler and the tasks assigned to it, running on the  *)
(* SystemC kernel.                                                         *)
(*                                                                         *)
(* The processes are scheduler::scheduler_proc, task_info_t::update_state_ *)
(* proc (one state machine per task) and the user threads, which call      *)
(* consume, wait_period, yield, semaphore::wait/post and wait for events.  *)
(* They share the signals of a task (written now, visible one delta cycle  *)
(* later), events notified with SC_ZERO_TIME (seen only by a process       *)
(* already waiting when they fire) and plain variables (visible at once).  *)
(*                                                                         *)
(* Time is relative: every pending timeout is the time left until it       *)
(* fires, and slack is current_absolute_deadline minus the current time,   *)
(* so a periodic system has finitely many states and runs forever.         *)
(***************************************************************************)
EXTENDS Dispatch, FiniteSets

CONSTANTS
  NoTask,              \* no task dispatched yet, or no thread running
  Policy,              \* scheduler_policy
  Triggering,          \* scheduler_triggering_policy
  TickDelay,           \* tick_timer_delay, 0 when time slicing is disabled
  PenaltiesEnabled,    \* are_scheduling_times_enabled()
  SchedulingTime,      \* the constant scheduling_time
  Period, Deadline,    \* of each task; a Period of 0 is an aperiodic task
  Script,              \* of each task: the sequence of sets of calls its code makes
  Endless,             \* of each task: its code restarts after the last call
  SemSize,             \* initial value of the semaphore the tasks share
  SemMax,              \* bound on the value of that semaphore
  EventKinds,          \* what the event the tasks share may be: see EventKind
  MaxLate              \* bound on how far a job may run past its deadline

Call == [op : {"consume"}, time : Nat \ {0}]
          \cup [op : {"wait_period", "yield", "sem_wait", "sem_post",
                         "event_set", "event_unset", "event_wait"}, time : {0}]

Consume(n) == [op |-> "consume", time |-> n]
WaitPeriod == [op |-> "wait_period", time |-> 0]
Yield      == [op |-> "yield", time |-> 0]
SemWait    == [op |-> "sem_wait", time |-> 0]
SemPost    == [op |-> "sem_post", time |-> 0]
EventSet   == [op |-> "event_set", time |-> 0]
EventUnset == [op |-> "event_unset", time |-> 0]
EventWait  == [op |-> "event_wait", time |-> 0]

\* A memoryless_event, and a registered_event whose flag the wait unsets or keeps.
EventKind == {"memoryless", "unset_on_release", "kept_on_release"}

\* wait_period in an aperiodic task, and yield under a dynamic policy that is
\* not preemptive nor cooperative, are reported as errors by the library.
ASSUME SchedulingAssumption ==
  /\ NoTask \notin Task
  /\ Policy \in {"STATIC_SCHEDULING", "CYCLE_EXECUTIVE", "STATIC_PRIORITIES"}
  /\ Triggering \in {"PREEMPTIVE", "COOPERATIVE", "NON_PREEMPTIVE"}
  /\ PenaltiesEnabled \in BOOLEAN /\ EventKinds \subseteq EventKind
  /\ {TickDelay, SchedulingTime, SemSize, SemMax, MaxLate} \subseteq Nat
  /\ Period \in [Task -> Nat] /\ Deadline \in [Task -> Nat]
  /\ Endless \in [Task -> BOOLEAN]
  /\ Script \in [Task -> Seq(SUBSET Call)]
  /\ \A t \in Task :
       /\ Len(Script[t]) > 0
       /\ \A i \in 1..Len(Script[t]) : \A c \in Script[t][i] :
            /\ c.op = "wait_period" => Period[t] > 0
            /\ c.op = "yield" => (Triggering # "NON_PREEMPTIVE" \/ Policy = "STATIC_SCHEDULING")

Preemptive == Triggering = "PREEMPTIVE"

\* task_state_t
States == {"READY", "EXECUTING", "WAIT_PERIOD", "INACTIVE_WAIT_PERIOD",
           "WAIT_COMM_SYNC", "INACTIVE_WAIT_COMM_SYNC", "FINISHED"}

\* The signals of a task; wper and wcom are waiting_period_signal and
\* waiting_comm_sync_signal.
Signals == [active : BOOLEAN, consumption : BOOLEAN, wper : BOOLEAN, wcom : BOOLEAN,
            state : States]

VARIABLES
  \* the kernel
  cur, nxt,      \* of each task: its signals, and what they become in the update phase
  pending,       \* the events notified for the next delta cycle
  runFsm, runUser, runSched,   \* the processes the evaluate phase has still to run
  thread,        \* the user thread executing now, between two of its waits
  \* the scheduler
  schedPc,       \* where scheduler_proc waits
  current,       \* current_task_info
  it,            \* it_static_sched or it_dyn_sched
  penalty, tick, \* time left to the end of the scheduling time, and to the next tick
  \* the tasks
  userPc,        \* where the user thread waits
  ip,            \* the call of the script the thread makes, or makes next
  left, burst,   \* left_consume_time, and the timeout of the wait in consume
  finished,      \* finished_flag
  release,       \* time left to the next task_release_event
  slack,         \* current_absolute_deadline - sc_time_stamp()
  missed,        \* miss_deadline_flag
  sem,           \* value of the semaphore
  event,         \* the event the tasks share: its kind, and flag
  owed           \* history: time of the call to consume not yet spent while active

kernelVars == <<cur, nxt, pending, runFsm, runUser, runSched, thread>>
schedVars  == <<schedPc, current, it, penalty, tick>>
taskVars   == <<userPc, ip, left, burst, finished, release, slack, missed, sem, event, owed>>
vars       == <<kernelVars, schedVars, taskVars>>

-----------------------------------------------------------------------------
(***************************************************************************)
(* Events, and the sensitivity of the processes.                           *)
(***************************************************************************)
Pos(s, t)  == <<"posedge", s, t>>
Neg(s, t)  == <<"negedge", s, t>>
Notify(e)  == <<"notify", e, NoTask>>
Release(t) == <<"notify", "task_release_event", t>>
EndResponse(t) == <<"notify", "end_response_event", t>>

\* Variant: a task that starts to wait triggers the scheduler.
TriggerListWithWaits == {Notify("completion"), Notify("running_task_to_wait_state")}

\* What wait(scheduler_event_trigger_list) waits for.
TriggerList ==
  CASE Policy = "STATIC_SCHEDULING" -> {Notify("yield")}
    [] Policy # "STATIC_SCHEDULING" /\ Preemptive ->
         {Notify(e) : e \in {"yield", "completion", "tick_timer",
                             "running_task_to_wait_state", "innactive_task_ends_wait"}}
    [] Policy # "STATIC_SCHEDULING" /\ Triggering = "COOPERATIVE" ->
         {Notify("yield"), Notify("completion")}
    [] Policy # "STATIC_SCHEDULING" /\ Triggering = "NON_PREEMPTIVE" ->
         {Notify("completion")}

SchedSensitivity ==
  CASE schedPc = "idle" -> TriggerList
    [] schedPc \in {"first_delta", "last_delta"} -> {Notify("zero_time")}
    [] schedPc \in {"start", "penalty"} -> {}

\* Variant: an executing task does not notice that it loses the processor.
FsmSensitivityNoLoss(t, s) ==
  CASE s = "READY"     -> {Pos("active", t)}
    [] s = "EXECUTING" -> {Neg("consumption", t)}
    [] s # "READY" /\ s # "EXECUTING" -> {Pos("active", t)}

\* update_state_proc waits after each transition for the edges that can leave
\* the state it has just written.
FsmSensitivity(t, s) ==
  CASE s = "READY"     -> {Pos("active", t)}
    [] s = "EXECUTING" -> {Neg("active", t), Neg("consumption", t),
                           Pos("wper", t), Pos("wcom", t)}
    [] s = "WAIT_PERIOD"             -> {Neg("wper", t), Neg("active", t)}
    [] s = "WAIT_COMM_SYNC"          -> {Neg("wcom", t), Neg("active", t)}
    [] s = "INACTIVE_WAIT_PERIOD"    -> {Neg("wper", t), Pos("active", t)}
    [] s = "INACTIVE_WAIT_COMM_SYNC" -> {Neg("wcom", t), Pos("active", t)}
    [] s = "FINISHED"                -> {}

\* A thread spawned with dont_initialize starts at the first posedge of active.
UserSensitivity(t) ==
  CASE userPc[t] \in {"dormant", "consume_guard", "yielded", "guard"} -> {Pos("active", t)}
    [] userPc[t] = "consuming" -> IF Preemptive THEN {Neg("active", t)} ELSE {}
    [] userPc[t] = "wait_release" -> {Release(t)}
    [] userPc[t] = "event_wait" -> {Notify("user_event")}
    [] userPc[t] \in {"call", "sem_wait", "done"} -> {}

\* What fires when the kernel ends an evaluate phase: the edges of the signals
\* that change and the events notified during the phase.
Fired ==
  LET Line == {"active", "consumption", "wper", "wcom"} \X Task
  IN  pending
        \cup {Pos(l[1], l[2]) : l \in {x \in Line : ~cur[x[2]][x[1]] /\ nxt[x[2]][x[1]]}}
        \cup {Neg(l[1], l[2]) : l \in {x \in Line : cur[x[2]][x[1]] /\ ~nxt[x[2]][x[1]]}}

EvaluationOver == thread = NoTask /\ ~runSched /\ runFsm = {} /\ runUser = {}

\* Nothing is left to do at the current time.
Quiescent == EvaluationOver /\ pending = {} /\ nxt = cur

-----------------------------------------------------------------------------
(***************************************************************************)
(* The kernel.                                                             *)
(***************************************************************************)
Init ==
  /\ cur = [t \in Task |-> [active |-> FALSE, consumption |-> FALSE, wper |-> FALSE,
                            wcom |-> FALSE, state |-> "READY"]]
  /\ nxt = cur
  /\ pending = IF TickDelay > 0 THEN {Notify("tick_timer")} ELSE {}
  /\ runFsm = {} /\ runUser = {} /\ runSched = TRUE
  /\ thread = NoTask
  /\ schedPc = "start" /\ current = NoTask /\ it = 1
  /\ penalty = 0 /\ tick = TickDelay
  /\ userPc = [t \in Task |-> "dormant"]
  /\ ip = [t \in Task |-> 1]
  /\ left = [t \in Task |-> 0] /\ burst = left /\ owed = left
  /\ finished = [t \in Task |-> FALSE] /\ missed = finished
  /\ release = Period
  /\ slack = [t \in Task |-> IF Period[t] = 0 THEN 0
                             ELSE IF Deadline[t] = 0 THEN Period[t] ELSE Deadline[t]]
  /\ sem = SemSize /\ event \in [kind : EventKinds, flag : {FALSE}]

\* The update and delta notification phases.
DeltaCycle ==
  /\ EvaluationOver /\ ~Quiescent
  /\ cur' = nxt /\ pending' = {}
  /\ runSched' = (SchedSensitivity \cap Fired # {})
  /\ runFsm' = {t \in Task : FsmSensitivity(t, nxt[t].state) \cap Fired # {}}
  /\ runUser' = {t \in Task : UserSensitivity(t) \cap Fired # {}}
  /\ UNCHANGED <<nxt, thread, schedVars, taskVars>>

\* The pending timeouts: of consume, of the scheduling time, of the tick timer
\* and of the release generators.
Timeouts ==
  {x \in {burst[t] : t \in Task} \cup {release[t] : t \in Task} \cup {penalty, tick} : x > 0}

\* The absolute deadline of a periodic task is read until its code ends.
DeadlineCounts(t) == Period[t] > 0 /\ userPc[t] # "done"

\* Time advances to the next timeout.  gen_release_event and gen_tick_timer_event
\* run first at the new time: they only notify their event and wait again.
AdvanceTime ==
  LET d        == Least(Timeouts)
      After(x) == IF x = 0 THEN 0 ELSE x - d
  IN  /\ Quiescent /\ Timeouts # {}
      /\ \A t \in Task : DeadlineCounts(t) => slack[t] - d >= -MaxLate
      /\ burst' = [t \in Task |-> After(burst[t])]
      /\ runUser' = {t \in Task : burst[t] = d}
      /\ penalty' = After(penalty) /\ runSched' = (penalty = d)
      /\ tick' = IF tick = d THEN TickDelay ELSE After(tick)
      /\ release' = [t \in Task |-> IF release[t] = d THEN Period[t] ELSE After(release[t])]
      /\ pending' = {Release(t) : t \in {u \in Task : release[u] = d}}
                      \cup IF tick = d THEN {Notify("tick_timer")} ELSE {}
      /\ slack' = [t \in Task |-> IF DeadlineCounts(t) THEN slack[t] - d ELSE slack[t]]
      /\ owed' = [t \in Task |-> IF cur[t].active /\ userPc[t] = "consuming"
                                 THEN owed[t] - d ELSE owed[t]]
      /\ UNCHANGED <<cur, nxt, runFsm, thread, schedPc, current, it,
                     userPc, ip, left, finished, missed, sem, event>>

-----------------------------------------------------------------------------
(***************************************************************************)
(* scheduler_proc.                                                         *)
(***************************************************************************)

\* Variant: the previous task keeps active.
SchedResumeKeepsActive ==
  /\ runSched /\ thread = NoTask /\ schedPc \in {"start", "idle"}
  /\ runSched' = FALSE
  /\ schedPc' = "first_delta" /\ pending' = pending \cup {Notify("zero_time")}
  /\ UNCHANGED <<cur, nxt, runFsm, runUser, thread, current, it, penalty, tick, taskVars>>

\* Variant: one wait(SC_ZERO_TIME) only, whatever the scheduling time.
SchedResumeOneDelta ==
  /\ runSched /\ thread = NoTask /\ schedPc \in {"start", "idle"}
  /\ runSched' = FALSE
  /\ nxt' = IF current = NoTask THEN nxt ELSE [nxt EXCEPT ![current].active = FALSE]
  /\ schedPc' = "last_delta" /\ pending' = pending \cup {Notify("zero_time")}
  /\ UNCHANGED <<cur, runFsm, runUser, thread, current, it, penalty, tick, taskVars>>

\* A trigger takes the processor from the current task; the scheduler then
\* spends its scheduling time, or two delta cycles when scheduling times are
\* disabled.  A scheduling time of zero lasts one delta cycle.
SchedResume ==
  /\ runSched /\ thread = NoTask /\ schedPc \in {"start", "idle"}
  /\ runSched' = FALSE
  /\ nxt' = IF current = NoTask THEN nxt ELSE [nxt EXCEPT ![current].active = FALSE]
  /\ IF PenaltiesEnabled /\ SchedulingTime > 0
     THEN /\ schedPc' = "penalty" /\ penalty' = SchedulingTime
          /\ UNCHANGED pending
     ELSE /\ schedPc' = IF PenaltiesEnabled THEN "last_delta" ELSE "first_delta"
          /\ pending' = pending \cup {Notify("zero_time")}
          /\ UNCHANGED penalty
  /\ UNCHANGED <<cur, runFsm, runUser, thread, current, it, tick, taskVars>>

\* The second wait(SC_ZERO_TIME).
SchedSecondDelta ==
  /\ runSched /\ thread = NoTask /\ schedPc = "first_delta"
  /\ runSched' = FALSE /\ schedPc' = "last_delta"
  /\ pending' = pending \cup {Notify("zero_time")}
  /\ UNCHANGED <<cur, nxt, runFsm, runUser, thread, current, it, penalty, tick, taskVars>>

ReadyTasks == {t \in Task : cur[t].state = "READY"}

Dispatched ==
  CASE Policy = "STATIC_SCHEDULING" -> StaticChoice(StaticSchedule, it)
    [] Policy = "CYCLE_EXECUTIVE"   -> CycleChoice(it, ReadyTasks)
    [] Policy = "STATIC_PRIORITIES" -> PriorityChoice(ByPriority, it, ReadyTasks)

SchedDispatch ==
  /\ runSched /\ thread = NoTask /\ schedPc \in {"last_delta", "penalty"}
  /\ runSched' = FALSE /\ schedPc' = "idle"
  /\ current' = Dispatched.task /\ it' = Dispatched.it
  /\ nxt' = [nxt EXCEPT ![Dispatched.task].active = TRUE]
  /\ UNCHANGED <<cur, pending, runFsm, runUser, thread, penalty, tick, taskVars>>

-----------------------------------------------------------------------------
(***************************************************************************)
(* update_state_proc.  The code's else branches report an error: there no  *)
(* action below is enabled and the process stays in runFsm.                *)
(***************************************************************************)
FsmMove(t, state, events) ==
  /\ runFsm' = runFsm \ {t}
  /\ nxt' = [nxt EXCEPT ![t].state = state]
  /\ pending' = pending \cup {Notify(e) : e \in events}
  /\ UNCHANGED <<cur, runUser, runSched, thread, schedVars, taskVars>>

FsmResumed(t, state) == t \in runFsm /\ thread = NoTask /\ cur[t].state = state

\* EXECUTING: the waits are tested first, then completion, then the loss or
\* the end of the use of the processor.
ExecutingWaits(t) ==
  /\ FsmResumed(t, "EXECUTING")
  /\ cur[t].wper \/ cur[t].wcom
  /\ FsmMove(t, CASE cur[t].wper /\ cur[t].active  -> "WAIT_PERIOD"
                  [] cur[t].wper /\ ~cur[t].active -> "INACTIVE_WAIT_PERIOD"
                  [] ~cur[t].wper /\ cur[t].active -> "WAIT_COMM_SYNC"
                  [] OTHER                         -> "INACTIVE_WAIT_COMM_SYNC",
             {"running_task_to_wait_state"})

\* Variant: the completion is not notified, and the task stays READY.
ExecutingCompletesReady(t) ==
  /\ FsmResumed(t, "EXECUTING")
  /\ ~cur[t].wper /\ ~cur[t].wcom
  /\ finished[t] /\ ~cur[t].consumption
  /\ FsmMove(t, "READY", {})

ExecutingCompletes(t) ==
  /\ FsmResumed(t, "EXECUTING")
  /\ ~cur[t].wper /\ ~cur[t].wcom
  /\ finished[t] /\ ~cur[t].consumption
  /\ FsmMove(t, "FINISHED", {"completion"})

ExecutingStops(t) ==
  /\ FsmResumed(t, "EXECUTING")
  /\ ~cur[t].wper /\ ~cur[t].wcom
  /\ cur[t].consumption \/ ~finished[t]
  /\ ~cur[t].active \/ ~cur[t].consumption
  /\ FsmMove(t, "READY", {})

ReadyActivated(t) ==
  /\ FsmResumed(t, "READY")
  /\ cur[t].active
  /\ FsmMove(t, "EXECUTING", {})

\* Kind of wait: the signal that is high during it, and its two states.
WaitKinds == {[line |-> "wper", active |-> "WAIT_PERIOD", inactive |-> "INACTIVE_WAIT_PERIOD"],
              [line |-> "wcom", active |-> "WAIT_COMM_SYNC", inactive |-> "INACTIVE_WAIT_COMM_SYNC"]}

\* WAIT_PERIOD and WAIT_COMM_SYNC: the end of the wait is tested first.
ActiveWaitEnds(t) ==
  \E w \in WaitKinds :
    /\ FsmResumed(t, w.active) /\ ~cur[t][w.line]
    /\ FsmMove(t, "EXECUTING", {})

ActiveWaitLosesProcessor(t) ==
  \E w \in WaitKinds :
    /\ FsmResumed(t, w.active) /\ cur[t][w.line] /\ ~cur[t].active
    /\ FsmMove(t, w.inactive, {})

InactiveWaitEnds(t) ==
  \E w \in WaitKinds :
    /\ FsmResumed(t, w.inactive) /\ ~cur[t][w.line]
    /\ IF cur[t].active
       THEN FsmMove(t, "EXECUTING", {})
       ELSE FsmMove(t, "READY", {"innactive_task_ends_wait"})

InactiveWaitActivated(t) ==
  \E w \in WaitKinds :
    /\ FsmResumed(t, w.inactive) /\ cur[t][w.line] /\ cur[t].active
    /\ FsmMove(t, w.active, {})

Fsm(t) ==
  \/ ExecutingWaits(t) \/ ExecutingCompletes(t) \/ ExecutingStops(t) \/ ReadyActivated(t)
  \/ ActiveWaitEnds(t) \/ ActiveWaitLosesProcessor(t)
  \/ InactiveWaitEnds(t) \/ InactiveWaitActivated(t)

-----------------------------------------------------------------------------
(***************************************************************************)
(* User threads.  A thread runs from one of its waits to the next without  *)
(* any other process running; thread names it between two of its calls.    *)
(***************************************************************************)
userFrame == <<cur, runFsm, runSched, schedVars, release>>

Resumed(t, pc) ==
  /\ t \in runUser /\ thread = NoTask /\ userPc[t] = pc
  /\ runUser' = runUser \ {t}

Calls(t, op) ==
  /\ thread = t /\ ip[t] <= Len(Script[t])
  /\ \E c \in Script[t][ip[t]] : c.op = op

WaitAt(t, pc) ==
  /\ thread' = NoTask /\ userPc' = [userPc EXCEPT ![t] = pc] /\ UNCHANGED ip

NextCall(t) ==
  /\ thread' = t /\ userPc' = [userPc EXCEPT ![t] = "call"]
  /\ ip' = [ip EXCEPT ![t] = IF ip[t] = Len(Script[t]) /\ Endless[t] THEN 1 ELSE ip[t] + 1]

\* The guard that ends a call: the thread goes on only while it is active.
NextCallIfActive(t) == IF cur[t].active THEN NextCall(t) ELSE WaitAt(t, "guard")

SetFinished(t, b) == finished' = [finished EXCEPT ![t] = b]
Write(t, s, b)    == nxt' = [nxt EXCEPT ![t][s] = b]

UserStart(t) ==
  /\ Resumed(t, "dormant")
  /\ thread' = t /\ userPc' = [userPc EXCEPT ![t] = "call"]
  /\ UNCHANGED <<userFrame, nxt, pending, ip, left, burst, finished, slack, missed, sem, event, owed>>

GuardPassed(t) ==
  /\ Resumed(t, "guard")
  /\ NextCall(t)
  /\ UNCHANGED <<userFrame, nxt, pending, left, burst, finished, slack, missed, sem, event, owed>>

\* The function of the task returns.
UserEnds(t) ==
  /\ thread = t /\ ip[t] > Len(Script[t])
  /\ WaitAt(t, "done")
  /\ UNCHANGED <<userFrame, nxt, pending, runUser, left, burst, finished, slack, missed, sem, event, owed>>

\* consume: under a preemptive scheduler the wait starts only while active.
ConsumeCall(t) ==
  /\ Calls(t, "consume")
  /\ \E c \in Script[t][ip[t]] :
       /\ c.op = "consume"
       /\ left' = [left EXCEPT ![t] = c.time] /\ owed' = [owed EXCEPT ![t] = c.time]
       /\ IF Preemptive /\ ~cur[t].active
          THEN WaitAt(t, "consume_guard") /\ UNCHANGED burst
          ELSE WaitAt(t, "consuming") /\ burst' = [burst EXCEPT ![t] = c.time]
  /\ SetFinished(t, FALSE) /\ Write(t, "consumption", TRUE)
  /\ UNCHANGED <<userFrame, pending, runUser, slack, missed, sem, event>>

ConsumeActivated(t) ==
  /\ Resumed(t, "consume_guard")
  /\ WaitAt(t, "consuming") /\ burst' = [burst EXCEPT ![t] = left[t]]
  /\ UNCHANGED <<userFrame, nxt, pending, left, finished, slack, missed, sem, event, owed>>

\* Variant: the preempted consumption starts again from its full time.
ConsumePreemptedRestarts(t) ==
  /\ Resumed(t, "consuming") /\ burst[t] > 0
  /\ burst' = [burst EXCEPT ![t] = 0]
  /\ Write(t, "consumption", TRUE)
  /\ WaitAt(t, "consume_guard")
  /\ UNCHANGED <<userFrame, pending, left, finished, slack, missed, sem, event, owed>>

\* active fell before the timeout: consumption is written false and, in the
\* next iteration of the loop, true again; the rest of the time is left.
ConsumePreempted(t) ==
  /\ Resumed(t, "consuming") /\ burst[t] > 0
  /\ left' = [left EXCEPT ![t] = burst[t]] /\ burst' = [burst EXCEPT ![t] = 0]
  /\ Write(t, "consumption", TRUE)
  /\ WaitAt(t, "consume_guard")
  /\ UNCHANGED <<userFrame, pending, finished, slack, missed, sem, event, owed>>

ConsumeEnds(t) ==
  /\ Resumed(t, "consuming") /\ burst[t] = 0
  /\ left' = IF Preemptive THEN [left EXCEPT ![t] = 0] ELSE left
  /\ Write(t, "consumption", FALSE) /\ SetFinished(t, TRUE)
  /\ NextCall(t)
  /\ UNCHANGED <<userFrame, pending, burst, slack, missed, sem, event, owed>>

\* wait_period before the absolute deadline, or exactly at it.
WaitPeriodCall(t) ==
  /\ Calls(t, "wait_period") /\ slack[t] >= 0
  /\ pending' = pending \cup {EndResponse(t)}
  /\ SetFinished(t, FALSE) /\ Write(t, "wper", TRUE)
  /\ WaitAt(t, "wait_release")
  /\ UNCHANGED <<userFrame, runUser, left, burst, slack, missed, sem, event, owed>>

\* wait_period past the deadline: the next job starts at once.
WaitPeriodMissed(t) ==
  /\ Calls(t, "wait_period") /\ slack[t] < 0
  /\ pending' = pending \cup {EndResponse(t)}
  /\ missed' = [missed EXCEPT ![t] = TRUE]
  /\ slack' = [slack EXCEPT ![t] = @ + Period[t]]
  /\ SetFinished(t, TRUE) /\ Write(t, "wper", FALSE)
  /\ NextCallIfActive(t)
  /\ UNCHANGED <<userFrame, runUser, left, burst, sem, event, owed>>

\* Variant: the absolute deadline is not moved to the next period.
WaitPeriodReleasedSameDeadline(t) ==
  /\ Resumed(t, "wait_release")
  /\ SetFinished(t, TRUE) /\ Write(t, "wper", FALSE)
  /\ NextCallIfActive(t)
  /\ UNCHANGED <<userFrame, pending, left, burst, slack, missed, sem, event, owed>>

\* Variant: the absolute deadline moves by two periods.
WaitPeriodReleasedSkips(t) ==
  /\ Resumed(t, "wait_release")
  /\ slack' = [slack EXCEPT ![t] = @ + 2 * Period[t]]
  /\ SetFinished(t, TRUE) /\ Write(t, "wper", FALSE)
  /\ NextCallIfActive(t)
  /\ UNCHANGED <<userFrame, pending, left, burst, missed, sem, event, owed>>

WaitPeriodReleased(t) ==
  /\ Resumed(t, "wait_release")
  /\ slack' = [slack EXCEPT ![t] = @ + Period[t]]
  /\ SetFinished(t, TRUE) /\ Write(t, "wper", FALSE)
  /\ NextCallIfActive(t)
  /\ UNCHANGED <<userFrame, pending, left, burst, missed, sem, event, owed>>

YieldCall(t) ==
  /\ Calls(t, "yield")
  /\ pending' = pending \cup {Notify("yield")}
  /\ SetFinished(t, FALSE) /\ WaitAt(t, "yielded")
  /\ UNCHANGED <<userFrame, nxt, runUser, left, burst, slack, missed, sem, event, owed>>

YieldResumed(t) ==
  /\ Resumed(t, "yielded")
  /\ SetFinished(t, TRUE) /\ NextCall(t)
  /\ UNCHANGED <<userFrame, nxt, pending, left, burst, slack, missed, sem, event, owed>>

\* semaphore::wait with a token: waiting_comm_sync_signal is written true and
\* false before the kernel can see it.
SemTaken(t) ==
  /\ Calls(t, "sem_wait") /\ sem > 0
  /\ sem' = sem - 1
  /\ SetFinished(t, TRUE) /\ Write(t, "wcom", FALSE)
  /\ NextCallIfActive(t)
  /\ UNCHANGED <<userFrame, pending, runUser, left, burst, slack, missed, event, owed>>

SemBlocks(t) ==
  /\ Calls(t, "sem_wait") /\ sem = 0
  /\ SetFinished(t, FALSE) /\ Write(t, "wcom", TRUE)
  /\ WaitAt(t, "sem_wait")
  /\ UNCHANGED <<userFrame, pending, runUser, left, burst, slack, missed, sem, event, owed>>

\* Variant: a waiter that is not active when it is woken waits again.
SemWokenActive(t) ==
  /\ Resumed(t, "sem_wait")
  /\ IF sem = 0 \/ ~cur[t].active
     THEN WaitAt(t, "sem_wait") /\ UNCHANGED <<nxt, finished, sem>>
     ELSE sem' = sem - 1 /\ SetFinished(t, TRUE) /\ Write(t, "wcom", FALSE) /\ NextCall(t)
  /\ UNCHANGED <<userFrame, pending, left, burst, slack, missed, event, owed>>

\* A waiter that finds the token taken by another thread waits again.
SemWoken(t) ==
  /\ Resumed(t, "sem_wait")
  /\ IF sem = 0
     THEN WaitAt(t, "sem_wait") /\ UNCHANGED <<nxt, finished, sem>>
     ELSE /\ sem' = sem - 1
          /\ SetFinished(t, TRUE) /\ Write(t, "wcom", FALSE)
          /\ NextCallIfActive(t)
  /\ UNCHANGED <<userFrame, pending, left, burst, slack, missed, event, owed>>

\* sc_semaphore::post wakes the waiters in the same evaluate phase.
SemPosts(t) ==
  /\ Calls(t, "sem_post") /\ sem < SemMax
  /\ sem' = sem + 1
  /\ runUser' = runUser \cup {u \in Task : userPc[u] = "sem_wait"}
  /\ NextCall(t)
  /\ UNCHANGED <<userFrame, nxt, pending, left, burst, finished, slack, missed, event, owed>>

\* Variant: set of a registered event writes the flag and notifies nothing.
EventSetsOnlyFlag(t) ==
  /\ Calls(t, "event_set")
  /\ event' = [event EXCEPT !.flag = event.kind # "memoryless"]
  /\ NextCall(t)
  /\ UNCHANGED <<userFrame, nxt, pending, runUser, left, burst, finished, slack, missed, sem, owed>>

\* registered_event::set, or the notification of a memoryless_event.
EventSets(t) ==
  /\ Calls(t, "event_set")
  /\ event' = [event EXCEPT !.flag = event.kind # "memoryless"]
  /\ pending' = pending \cup {Notify("user_event")}
  /\ NextCall(t)
  /\ UNCHANGED <<userFrame, nxt, runUser, left, burst, finished, slack, missed, sem, owed>>

\* registered_event::unset
EventUnsets(t) ==
  /\ Calls(t, "event_unset")
  /\ event' = [event EXCEPT !.flag = FALSE]
  /\ NextCall(t)
  /\ UNCHANGED <<userFrame, nxt, pending, runUser, left, burst, finished, slack, missed, sem, owed>>

\* wait for an event whose flag is set: the flag is taken or kept, and the wait signal is
\* written true and false before the kernel can see it.
EventTaken(t) ==
  /\ Calls(t, "event_wait") /\ event.flag
  /\ event' = [event EXCEPT !.flag = event.kind = "kept_on_release"]
  /\ SetFinished(t, TRUE) /\ Write(t, "wcom", FALSE)
  /\ NextCallIfActive(t)
  /\ UNCHANGED <<userFrame, pending, runUser, left, burst, slack, missed, sem, owed>>

EventBlocks(t) ==
  /\ Calls(t, "event_wait") /\ ~event.flag
  /\ SetFinished(t, FALSE) /\ Write(t, "wcom", TRUE)
  /\ WaitAt(t, "event_wait")
  /\ UNCHANGED <<userFrame, pending, runUser, left, burst, slack, missed, sem, event, owed>>

\* The notification releases every waiter; the flag is not tested again.
EventWoken(t) ==
  /\ Resumed(t, "event_wait")
  /\ event' = [event EXCEPT !.flag = @ /\ event.kind = "kept_on_release"]
  /\ SetFinished(t, TRUE) /\ Write(t, "wcom", FALSE)
  /\ NextCallIfActive(t)
  /\ UNCHANGED <<userFrame, pending, left, burst, slack, missed, sem, owed>>

User(t) ==
  \/ UserStart(t) \/ GuardPassed(t) \/ UserEnds(t)
  \/ ConsumeCall(t) \/ ConsumeActivated(t) \/ ConsumePreempted(t) \/ ConsumeEnds(t)
  \/ WaitPeriodCall(t) \/ WaitPeriodMissed(t) \/ WaitPeriodReleased(t)
  \/ YieldCall(t) \/ YieldResumed(t)
  \/ SemTaken(t) \/ SemBlocks(t) \/ SemWoken(t) \/ SemPosts(t)
  \/ EventSets(t) \/ EventUnsets(t) \/ EventTaken(t) \/ EventBlocks(t) \/ EventWoken(t)

Next ==
  \/ DeltaCycle \/ AdvanceTime
  \/ SchedResume \/ SchedSecondDelta \/ SchedDispatch
  \/ \E t \in Task : Fsm(t) \/ User(t)

Spec == Init /\ [][Next]_vars

\* The kernel never stops while a process can run or a timeout is pending.
FairSpec == Spec /\ WF_vars(Next)

-----------------------------------------------------------------------------
(***************************************************************************)
(* Properties.                                                             *)
(***************************************************************************)
SchedPcs == {"start", "idle", "first_delta", "last_delta", "penalty"}
UserPcs  == {"dormant", "call", "consume_guard", "consuming", "wait_release", "sem_wait",
             "event_wait", "yielded", "guard", "done"}

EventIds ==
  {Pos(s, t) : s \in {"active", "consumption", "wper", "wcom"}, t \in Task}
    \cup {Neg(s, t) : s \in {"active", "consumption", "wper", "wcom"}, t \in Task}
    \cup {Notify(e) : e \in {"yield", "completion", "tick_timer", "zero_time",
                             "running_task_to_wait_state", "innactive_task_ends_wait",
                             "user_event"}}
    \cup {Release(t) : t \in Task} \cup {EndResponse(t) : t \in Task}

\* The iterator never leaves the list its policy goes round.
Positions == 1..Len(IF Policy = "STATIC_SCHEDULING" THEN StaticSchedule ELSE Assigned)

\* Every variable holds a value of its kind.
TypeOK ==
  /\ cur \in [Task -> Signals] /\ nxt \in [Task -> Signals]
  /\ pending \subseteq EventIds
  /\ runFsm \subseteq Task /\ runUser \subseteq Task /\ runSched \in BOOLEAN
  /\ thread \in Task \cup {NoTask} /\ current \in Task \cup {NoTask}
  /\ schedPc \in SchedPcs /\ it \in Positions
  /\ penalty \in Nat /\ tick \in Nat
  /\ userPc \in [Task -> UserPcs] /\ ip \in [Task -> Nat \ {0}]
  /\ left \in [Task -> Nat] /\ burst \in [Task -> Nat]
  /\ finished \in [Task -> BOOLEAN] /\ missed \in [Task -> BOOLEAN]
  /\ release \in [Task -> Nat] /\ slack \in [Task -> Int] /\ sem \in Nat
  /\ event \in [kind : EventKinds, flag : BOOLEAN]
  /\ owed \in [Task -> Int]

\* The processor is granted to one task at a time, the one scheduler_proc
\* dispatched last: the pending write of active to another task is only made
\* after the fall of the previous one has become visible.
ProcessorExclusive ==
  \A t \in Task : cur[t].active => t = current /\ \A u \in Task : nxt[u].active => u = t

\* dispatch() runs only when the state machine of the preempted task has left
\* EXECUTING: what the comment on the second wait(SC_ZERO_TIME) asks for.  A
\* dispatch that still sees EXECUTING would pass over the preempted task.
DispatchSeesPreemption ==
  runSched /\ schedPc \in {"last_delta", "penalty"} =>
    \A t \in Task : cur[t].state \notin {"EXECUTING", "WAIT_PERIOD", "WAIT_COMM_SYNC"}

\* A branch of update_state_proc applies to the signals g of a task.
HasTransition(g) ==
  \/ g.state = "READY" /\ g.active
  \/ g.state = "EXECUTING" /\ (g.wper \/ g.wcom \/ ~g.active \/ ~g.consumption)
  \/ g.state = "WAIT_PERIOD" /\ (~g.wper \/ ~g.active)
  \/ g.state = "WAIT_COMM_SYNC" /\ (~g.wcom \/ ~g.active)
  \/ g.state = "INACTIVE_WAIT_PERIOD" /\ (~g.wper \/ g.active)
  \/ g.state = "INACTIVE_WAIT_COMM_SYNC" /\ (~g.wcom \/ g.active)

\* update_state_proc never reaches one of its error reports: whatever order
\* signals change in, a woken state machine has a transition to take.
NoUnexpectedTransition == \A t \in runFsm : HasTransition(cur[t])

\* When time passes the state of every task says what its thread waits for
\* and whether it holds the processor: a lost edge of a signal would leave
\* update_state_proc in another state for good.
StateTracksThread ==
  Quiescent => \A t \in Task :
    LET s == cur[t].state
        a == cur[t].active
        pc == userPc[t]
    IN  /\ pc = "wait_release" => s = IF a THEN "WAIT_PERIOD" ELSE "INACTIVE_WAIT_PERIOD"
        /\ pc \in {"sem_wait", "event_wait"} =>
             s = IF a THEN "WAIT_COMM_SYNC" ELSE "INACTIVE_WAIT_COMM_SYNC"
        /\ pc = "consuming" => s = "EXECUTING" /\ a
        /\ pc \in {"dormant", "consume_guard", "yielded", "guard"} => s = "READY" /\ ~a
        /\ pc = "done" => s \in {"READY", "EXECUTING", "FINISHED"}

\* When time passes under a preemptive scheduler that is not computing a
\* schedule, no READY task has been passed over: the current task executes, and
\* under static priorities it outranks every READY task.
Outranks(t, u) ==
  \E i, j \in 1..Len(ByPriority) : i < j /\ ByPriority[i] = t /\ ByPriority[j] = u

PriorityRespected ==
  Quiescent /\ schedPc = "idle" =>
    \A t \in ReadyTasks : cur[current].state = "EXECUTING" /\ Outranks(current, t)

\* consume(c) costs the task exactly c units of time holding the processor,
\* however often it is preempted: nothing is consumed twice and nothing lost.
ConsumeExact ==
  \A t \in Task :
    /\ userPc[t] = "consuming" => owed[t] = burst[t]
    /\ userPc[t] = "consume_guard" => owed[t] = left[t]
    /\ userPc[t] \notin {"consuming", "consume_guard"} => owed[t] = 0

\* No thread waits in semaphore::wait while the semaphore has a token: of the
\* waiters woken by a post, active or not, one takes it.
TokenTaken == Quiescent => sem = 0 \/ \A t \in Task : userPc[t] # "sem_wait"

\* No thread waits for a registered event that is set: set() reaches a thread
\* that has found the flag unset, whatever it did between the test and the wait,
\* and a thread that comes later finds the flag.
EventReleases == Quiescent /\ event.flag => \A t \in Task : userPc[t] # "event_wait"

\* A task set that the analysis finds schedulable meets its deadlines: no job
\* is still running when its absolute deadline has passed.
DeadlinesMet ==
  \A t \in Task : DeadlineCounts(t) => slack[t] >= 0 /\ ~missed[t]

\* A thread in wait_period resumes at its absolute deadline, the trigger it was
\* due at (implicit deadlines): the release it waits for is that one, and not
\* the release of a later period.
ResumesAtDueTrigger ==
  Quiescent => \A t \in Task :
    userPc[t] = "wait_release" /\ Deadline[t] \in {0, Period[t]} => slack[t] = release[t]

\* A task that is not preempted keeps the processor until it has finished.
RunsToCompletion ==
  [][\A t \in Task : cur[t].active /\ ~nxt'[t].active => cur[t].state = "FINISHED"]_vars

\* No READY task is starved: it is activated in the end.
ReadyTaskActivated ==
  \A t \in Task : cur[t].state = "READY" ~> cur[t].active

\* Every consumption that starts is served completely.
ConsumptionEnds ==
  \A t \in Task : owed[t] > 0 ~> owed[t] = 0

\* A task whose code has ended passes to FINISHED.
EndedTaskFinishes ==
  \A t \in Task : userPc[t] = "done" ~> cur[t].state = "FINISHED"
=============================================================================
