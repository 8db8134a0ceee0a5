-------------------------- MODULE TaskStatesProofs --------------------------
(***************************************************************************)
(* The delta cycles of a preemptive scheduler: why, when time passes, the  *)
(* state of every task is the one its thread and its processor call for,   *)
(* dispatch() never sees a state it is about to lose, and the processor is *)
(* with the task of the highest priority.  From this follow what KisTA     *)
(* measures: the occupation of endless tasks and, as long as the deadlines *)
(* are met, the releases of periodic tasks and their response times.       *)
(***************************************************************************)
EXTENDS TaskAccounting, TaskSchedulingProofs

-----------------------------------------------------------------------------
(***************************************************************************)
(* The systems the theorems are about.                                     *)
(***************************************************************************)
Ops(t, i) == {c.op : c \in Script[t][i]}

Uses(t, op) == \E i \in 1..Len(Script[t]) : op \in Ops(t, i)

\* The position of the call after position i; past the script when it ends.
Following(t, i) == IF i = Len(Script[t]) /\ Endless[t] THEN 1 ELSE i + 1

CommWaits == {"sem_wait", "event_wait"}

\* The call after a wait_period does not block in a wait for another task.
FollowedByWork(t, i) ==
  Following(t, i) <= Len(Script[t]) => Ops(t, Following(t, i)) \subseteq {"consume", "yield"}

\* A preemptive dynamic scheduler.  In the systems left out the lines of a task
\* that holds the processor can change twice in one delta cycle, and its state
\* machine misses one of the edges: a time slice that ends with a release, a task
\* that sets the event it waits for, a release at once followed by a wait for
\* another task, and a scheduling time of zero.
Regular ==
  /\ Preemptive /\ Policy # "STATIC_SCHEDULING"
  /\ PenaltiesEnabled => SchedulingTime > 0
  /\ TickDelay > 0 => \A t \in Task : ~Uses(t, "wait_period")
  /\ \A t \in Task : Uses(t, "event_set") => ~Uses(t, "event_wait")
  /\ \A t \in Task : \A i \in 1..Len(Script[t]) :
       "wait_period" \in Ops(t, i) =>
         (\A op \in CommWaits : ~Uses(t, op)) \/ FollowedByWork(t, i)

\* What triggers the scheduler in these systems.
LEMMA Triggers ==
  ASSUME Regular
  PROVE  TriggerList = {Notify("yield"), Notify("completion"), Notify("tick_timer"),
                        Notify("running_task_to_wait_state"), Notify("innactive_task_ends_wait")}
<1>1. Policy # "STATIC_SCHEDULING" /\ Preemptive
  BY DEF Regular
<1>2. TriggerList = {Notify(e) : e \in {"yield", "completion", "tick_timer",
                     "running_task_to_wait_state", "innactive_task_ends_wait"}}
  BY <1>1, SchedulingAssumption DEF TriggerList, Preemptive
<1> QED  BY <1>2

-----------------------------------------------------------------------------
(***************************************************************************)
(* The invariant.  A phase is an evaluate phase; cur is what it reads, nxt *)
(* what it has written, and a process has run in it once it has left       *)
(* runFsm, runUser or runSched.                                            *)
(***************************************************************************)
\* The lines as written are those of the place where the thread waits.
LinesWritten(t) ==
  /\ nxt[t].wper <=> userPc[t] = "wait_release"
  /\ nxt[t].wcom <=> userPc[t] \in CommWaits
  /\ nxt[t].consumption <=> userPc[t] \in {"consuming", "consume_guard"}

\* A thread executes only while its task is active.
Executes(t) ==
  /\ userPc[t] = "call" <=> thread = t
  /\ thread = t => cur[t].active /\ ~cur[t].wcom

\* What has woken a thread, and that it has written nothing in the phase.
WokenThread(t) ==
  t \in runUser =>
    /\ \A s \in {"wper", "wcom", "consumption"} : nxt[t][s] = cur[t][s]
    /\ userPc[t] \in {"dormant", "guard", "consume_guard", "yielded"} => cur[t].active
    /\ userPc[t] \in CommWaits => ~cur[t].active
    /\ userPc[t] = "consuming" => (cur[t].active <=> burst[t] = 0)
    /\ userPc[t] # "done"

\* The rise of active wakes a thread that waits for it.
SeesActive(t) ==
  cur[t].active /\ userPc[t] \in {"dormant", "guard", "consume_guard"} => t \in runUser

\* A wait starts only with the processor, and a wait for another task does not
\* end with it.
LinesChange(t) ==
  /\ nxt[t].wper /\ ~cur[t].wper => cur[t].active
  /\ nxt[t].wcom /\ ~cur[t].wcom => cur[t].active
  /\ cur[t].consumption /\ ~nxt[t].consumption => cur[t].active
  /\ cur[t].active /\ cur[t].wcom => nxt[t].wcom
  /\ cur[t].wcom => ~cur[t].wper
  /\ cur[t].active /\ cur[t].wper => ~nxt[t].wcom

\* finished_flag is true only between two calls, and is when consumption falls.
FinishedFlag(t) ==
  /\ finished[t] => userPc[t] \in {"call", "done", "guard"}
  /\ cur[t].consumption /\ ~nxt[t].consumption /\ userPc[t] \in {"call", "done", "guard"}
       => finished[t]

\* A task that yields while it holds the processor is about to lose it.
YieldSeen(t) ==
  userPc[t] = "yielded" /\ cur[t].active /\ nxt[t].active =>
    Notify("yield") \in pending \/ (runSched /\ schedPc = "idle") \/ t \in runUser

\* A task released while it holds the processor keeps it for this phase.
ReleaseKeepsProcessor(t) ==
  cur[t].active /\ ((t \in runUser /\ userPc[t] = "wait_release") \/ (cur[t].wper /\ ~nxt[t].wper))
    => nxt[t].active /\ ~(runSched /\ schedPc = "idle")

\* The state a machine has written, or keeps, is the one its lines call for.
Settled(t) ==
  LET s == nxt[t].state
      c == cur[t]
  IN  /\ s = "EXECUTING" => c.active /\ ~c.wper /\ ~c.wcom
      /\ s = "READY" => /\ ~c.wper /\ ~c.wcom
                        /\ c.active => userPc[t] = "yielded" /\ t \notin runUser
      /\ s = "WAIT_PERIOD" => c.active /\ c.wper
      /\ s = "WAIT_COMM_SYNC" => c.active /\ c.wcom
      /\ s = "INACTIVE_WAIT_PERIOD" => ~c.active /\ c.wper
      /\ s = "INACTIVE_WAIT_COMM_SYNC" => ~c.active /\ c.wcom
      /\ s = "FINISHED" => userPc[t] = "done"

\* What a machine that has still to run will find.
Woken(t) ==
  LET s == cur[t].state
      c == cur[t]
  IN  /\ nxt[t].state = s /\ s # "FINISHED"
      /\ s = "READY" => c.active /\ ~c.wper /\ ~c.wcom
      /\ s = "WAIT_PERIOD" /\ ~c.wper => c.active /\ ~c.wcom
      /\ s = "WAIT_COMM_SYNC" => ~c.active /\ c.wcom
      /\ s = "INACTIVE_WAIT_PERIOD" /\ ~c.wper => ~c.wcom
      /\ s = "INACTIVE_WAIT_COMM_SYNC" /\ ~c.wcom => ~c.wper
      /\ s = "EXECUTING" /\ ~c.wper /\ ~c.wcom =>
           /\ userPc[t] # "guard"
           /\ c.active => /\ ~c.consumption /\ t \notin runUser
                          /\ userPc[t] = "yielded" \/ (userPc[t] = "done" /\ finished[t])

StateInv(t) == IF t \in runFsm THEN Woken(t) ELSE Settled(t)

\* The call a thread waits in, and the one it makes after a release.
InScript(t) ==
  /\ userPc[t] = "wait_release" => ip[t] \in 1..Len(Script[t]) /\ "wait_period" \in Ops(t, ip[t])
  /\ userPc[t] = "event_wait" => Uses(t, "event_wait")
  /\ thread = t /\ cur[t].wper /\ ip[t] <= Len(Script[t]) =>
       (\A op \in CommWaits : ~Uses(t, op)) \/ Ops(t, ip[t]) \subseteq {"consume", "yield"}

TaskInv(t) ==
  /\ LinesWritten(t) /\ Executes(t) /\ WokenThread(t) /\ SeesActive(t) /\ LinesChange(t)
  /\ FinishedFlag(t) /\ YieldSeen(t) /\ ReleaseKeepsProcessor(t) /\ StateInv(t) /\ InScript(t)

\* Who has notified what is pending.  A release is notified in the phase in which
\* time has passed, when no state machine runs.
PendingInv ==
  /\ Notify("yield") \in pending =>
       \E s \in Task : cur[s].active /\ userPc[s] = "yielded" /\ s \notin runUser
  /\ Notify("user_event") \in pending => \E s \in Task : cur[s].active /\ Uses(s, "event_set")
  /\ (\E t \in Task : Release(t) \in pending) =>
       runFsm = {} /\ pending \cap TriggerList \subseteq {Notify("yield"), Notify("tick_timer")}
  /\ TickDelay = 0 => tick = 0 /\ Notify("tick_timer") \notin pending

HoldsProcessor == {"EXECUTING", "WAIT_PERIOD", "WAIT_COMM_SYNC"}

\* The processor from the trigger to the dispatch, and after it.
SchedInv ==
  /\ schedPc = "start" => current = NoTask
  /\ schedPc = "idle" => current \in Task /\ nxt[current].active
  /\ schedPc = "last_delta" => \A t \in Task : ~cur[t].active
  /\ DispatchSeesPreemption

PhaseInv == PenaltyRunning /\ PendingInv /\ SchedInv /\ \A t \in Task : TaskInv(t)

-----------------------------------------------------------------------------
(***************************************************************************)
(* A step of a user thread, by where the thread waits before and after.    *)
(***************************************************************************)
Waits == {"consuming", "wait_release", "sem_wait", "event_wait", "yielded"}

\* The thread of an active task starts, or goes on after a guard or a yield.
Starts(t) ==
  /\ t \in runUser /\ userPc[t] \in {"dormant", "guard", "yielded"} /\ userPc'[t] = "call"
  /\ finished[t] => finished'[t]

\* The wait for a release or for another task is over.
Returns(t) ==
  /\ t \in runUser /\ userPc[t] \in {"wait_release"} \cup CommWaits
  /\ userPc'[t] = IF cur[t].active THEN "call" ELSE "guard"
  /\ finished'[t]

\* A waiter that finds no token waits again.
Retries(t) ==
  /\ t \in runUser /\ userPc[t] = "sem_wait" /\ userPc'[t] = "sem_wait" /\ finished'[t] = finished[t]

\* consume: the processor is back, is lost, or the time is over.
ConsumeMoves(t) ==
  /\ t \in runUser
  /\ \/ userPc[t] = "consume_guard" /\ userPc'[t] = "consuming" /\ finished'[t] = finished[t]
     \/ /\ userPc[t] = "consuming" /\ userPc'[t] = "consume_guard"
        /\ finished'[t] = finished[t] /\ burst[t] > 0
     \/ userPc[t] = "consuming" /\ userPc'[t] = "call" /\ finished'[t] /\ burst[t] = 0

\* A call returns at once, starts a wait, or is past the end of the code.
CallMoves(t) ==
  /\ thread = t
  /\ \/ userPc'[t] = "call" /\ (finished[t] => finished'[t])
     \/ userPc'[t] \in Waits /\ ~finished'[t]
     \/ userPc'[t] = "done" /\ finished'[t] = finished[t]

Moves(t) == Starts(t) \/ Returns(t) \/ Retries(t) \/ ConsumeMoves(t) \/ CallMoves(t)

\* What a step of thread t leaves of another task.
LeavesTask(t, u) ==
  /\ nxt'[u] = nxt[u] /\ userPc'[u] = userPc[u] /\ finished'[u] = finished[u]
  /\ ip'[u] = ip[u] /\ burst'[u] = burst[u]
  /\ u \in runUser => u \in runUser'
  /\ u \in runUser' => u \in runUser \/ (userPc[u] = "sem_wait" /\ thread = t)

\* What the kernel and the other processes see of the step.
ThreadFrame(t) ==
  /\ thread \in {t, NoTask} /\ (thread = NoTask => t \in runUser)
  /\ thread' = (IF userPc'[t] = "call" THEN t ELSE NoTask)
  /\ t \notin runUser'
  /\ nxt'[t].active = nxt[t].active /\ nxt'[t].state = nxt[t].state

ThreadStep(t) ==
  /\ ThreadFrame(t) /\ LinesWritten(t)' /\ Moves(t)
  /\ \A u \in Task \ {t} : LeavesTask(t, u)

\* A line written: the others, and active and state_signal, stay.
LEMMA LineWritten ==
  ASSUME nxt \in [Task -> Signals], NEW t \in Task, NEW b \in BOOLEAN
  PROVE  /\ Write(t, "wper", b) =>
              /\ \A u \in Task \ {t} : nxt'[u] = nxt[u]
              /\ nxt'[t].active = nxt[t].active /\ nxt'[t].state = nxt[t].state
              /\ nxt'[t].wper = b /\ nxt'[t].wcom = nxt[t].wcom
              /\ nxt'[t].consumption = nxt[t].consumption
         /\ Write(t, "wcom", b) =>
              /\ \A u \in Task \ {t} : nxt'[u] = nxt[u]
              /\ nxt'[t].active = nxt[t].active /\ nxt'[t].state = nxt[t].state
              /\ nxt'[t].wper = nxt[t].wper /\ nxt'[t].wcom = b
              /\ nxt'[t].consumption = nxt[t].consumption
         /\ Write(t, "consumption", b) =>
              /\ \A u \in Task \ {t} : nxt'[u] = nxt[u]
              /\ nxt'[t].active = nxt[t].active /\ nxt'[t].state = nxt[t].state
              /\ nxt'[t].wper = nxt[t].wper /\ nxt'[t].wcom = nxt[t].wcom
              /\ nxt'[t].consumption = b
BY DEF Write, Signals

\* Where a thread is after its step; the others are where they were.
LEMMA ThreadGoes ==
  ASSUME TypeOK, NEW t \in Task
  PROVE  /\ \A pc \in UserPcs : WaitAt(t, pc) =>
              /\ thread' = NoTask /\ userPc'[t] = pc
              /\ \A u \in Task \ {t} : userPc'[u] = userPc[u] /\ ip'[u] = ip[u]
         /\ NextCall(t) =>
              /\ thread' = t /\ userPc'[t] = "call"
              /\ \A u \in Task \ {t} : userPc'[u] = userPc[u] /\ ip'[u] = ip[u]
BY DEF TypeOK, WaitAt, NextCall

\* A flag or a timeout of one task.
LEMMA OthersFlags ==
  ASSUME TypeOK, NEW t \in Task
  PROVE  /\ \A b \in BOOLEAN : SetFinished(t, b) =>
              finished'[t] = b /\ \A u \in Task \ {t} : finished'[u] = finished[u]
         /\ \A x : burst' = [burst EXCEPT ![t] = x] => \A u \in Task \ {t} : burst'[u] = burst[u]
BY DEF TypeOK, SetFinished

LEMMA UserStep ==
  ASSUME Preemptive, TypeOK, NEW t \in Task, LinesWritten(t), Executes(t), WokenThread(t),
         thread = t => t \notin runUser, User(t)
  PROVE  ThreadStep(t)
<1>0. /\ {"call", "consume_guard", "consuming", "wait_release", "sem_wait", "event_wait",
          "yielded", "guard", "done"} \subseteq UserPcs
      /\ nxt \in [Task -> Signals] /\ NoTask \notin Task /\ burst[t] \in Nat
      /\ TRUE \in BOOLEAN /\ FALSE \in BOOLEAN
  BY ConstantTypes DEF UserPcs, TypeOK
<1> USE DEF ThreadStep, ThreadFrame, LeavesTask, Resumed, Calls, Moves, LinesWritten, CommWaits
<1>1. CASE UserStart(t)
  BY <1>0, <1>1 DEF UserStart, Starts, TypeOK
<1>2. CASE GuardPassed(t)
  BY <1>0, <1>2, ThreadGoes, LineWritten, OthersFlags DEF GuardPassed, Starts
<1>3. CASE UserEnds(t)
  BY <1>0, <1>3, ThreadGoes, LineWritten, OthersFlags DEF UserEnds, CallMoves, Executes, Waits
<1>4. CASE ConsumeCall(t)
  <2>1. /\ thread = t /\ UNCHANGED runUser /\ SetFinished(t, FALSE) /\ Write(t, "consumption", TRUE)
        /\ WaitAt(t, "consuming") /\ \E x : burst' = [burst EXCEPT ![t] = x]
    BY <1>4 DEF ConsumeCall, Executes
  <2>2. /\ thread' = NoTask /\ userPc'[t] = "consuming"
        /\ \A u \in Task \ {t} : userPc'[u] = userPc[u] /\ ip'[u] = ip[u] /\ burst'[u] = burst[u]
    BY <1>0, <2>1, ThreadGoes, OthersFlags
  <2>3. /\ \A u \in Task \ {t} : nxt'[u] = nxt[u]
        /\ nxt'[t].active = nxt[t].active /\ nxt'[t].state = nxt[t].state
        /\ nxt'[t].consumption = TRUE /\ nxt'[t].wper = nxt[t].wper /\ nxt'[t].wcom = nxt[t].wcom
    BY <1>0, <2>1, LineWritten
  <2>4. finished'[t] = FALSE /\ \A u \in Task \ {t} : finished'[u] = finished[u]
    BY <1>0, <2>1, OthersFlags
  <2> QED  BY <1>0, <2>1, <2>2, <2>3, <2>4 DEF CallMoves, Executes, Waits
<1>5. CASE ConsumeActivated(t)
  BY <1>0, <1>5, ThreadGoes, LineWritten, OthersFlags DEF ConsumeActivated, ConsumeMoves
<1>6. CASE ConsumePreempted(t)
  <2>1. /\ t \in runUser /\ thread = NoTask /\ userPc[t] = "consuming" /\ runUser' = runUser \ {t} /\ burst[t] > 0
        /\ WaitAt(t, "consume_guard") /\ Write(t, "consumption", TRUE)
        /\ UNCHANGED finished /\ burst' = [burst EXCEPT ![t] = 0]
    BY <1>6 DEF ConsumePreempted
  <2>2. /\ \A u \in Task \ {t} : nxt'[u] = nxt[u]
        /\ nxt'[t].active = nxt[t].active /\ nxt'[t].state = nxt[t].state
        /\ nxt'[t].consumption = TRUE /\ nxt'[t].wper = nxt[t].wper /\ nxt'[t].wcom = nxt[t].wcom
    BY <1>0, <2>1, LineWritten
  <2>3. /\ thread' = NoTask /\ userPc'[t] = "consume_guard"
        /\ \A u \in Task \ {t} : userPc'[u] = userPc[u] /\ ip'[u] = ip[u]
    BY <1>0, <2>1, ThreadGoes
  <2>4. /\ finished' = finished
        /\ \A u \in Task \ {t} : finished'[u] = finished[u] /\ burst'[u] = burst[u]
    BY <1>0, <2>1, OthersFlags
  <2> QED  BY <1>0, <2>1, <2>2, <2>3, <2>4 DEF ConsumeMoves
<1>7. CASE ConsumeEnds(t)
  <2>1. /\ t \in runUser /\ thread = NoTask /\ userPc[t] = "consuming" /\ runUser' = runUser \ {t} /\ burst[t] = 0
        /\ NextCall(t) /\ Write(t, "consumption", FALSE)
        /\ SetFinished(t, TRUE) /\ UNCHANGED burst
    BY <1>7 DEF ConsumeEnds
  <2>2. /\ \A u \in Task \ {t} : nxt'[u] = nxt[u]
        /\ nxt'[t].active = nxt[t].active /\ nxt'[t].state = nxt[t].state
        /\ nxt'[t].consumption = FALSE /\ nxt'[t].wper = nxt[t].wper /\ nxt'[t].wcom = nxt[t].wcom
    BY <1>0, <2>1, LineWritten
  <2>3. /\ thread' = t /\ userPc'[t] = "call"
        /\ \A u \in Task \ {t} : userPc'[u] = userPc[u] /\ ip'[u] = ip[u]
    BY <1>0, <2>1, ThreadGoes
  <2>4. /\ finished'[t] = TRUE
        /\ \A u \in Task \ {t} : finished'[u] = finished[u] /\ burst'[u] = burst[u]
    BY <1>0, <2>1, OthersFlags
  <2> QED  BY <1>0, <2>1, <2>2, <2>3, <2>4 DEF ConsumeMoves
<1>8. CASE WaitPeriodCall(t)
  <2>1. /\ thread = t /\ runUser' = runUser /\ cur[t].active
        /\ WaitAt(t, "wait_release") /\ Write(t, "wper", TRUE)
        /\ SetFinished(t, FALSE) /\ UNCHANGED burst
    BY <1>8 DEF WaitPeriodCall, Executes
  <2>2. /\ \A u \in Task \ {t} : nxt'[u] = nxt[u]
        /\ nxt'[t].active = nxt[t].active /\ nxt'[t].state = nxt[t].state
        /\ nxt'[t].wper = TRUE /\ nxt'[t].wcom = nxt[t].wcom /\ nxt'[t].consumption = nxt[t].consumption
    BY <1>0, <2>1, LineWritten
  <2>3. /\ thread' = NoTask /\ userPc'[t] = "wait_release"
        /\ \A u \in Task \ {t} : userPc'[u] = userPc[u] /\ ip'[u] = ip[u]
    BY <1>0, <2>1, ThreadGoes
  <2>4. /\ finished'[t] = FALSE
        /\ \A u \in Task \ {t} : finished'[u] = finished[u] /\ burst'[u] = burst[u]
    BY <1>0, <2>1, OthersFlags
  <2> QED  BY <1>0, <2>1, <2>2, <2>3, <2>4 DEF CallMoves, Waits, Executes
<1>9. CASE WaitPeriodMissed(t)
  <2>1. /\ thread = t /\ runUser' = runUser /\ cur[t].active
        /\ NextCall(t) /\ Write(t, "wper", FALSE)
        /\ SetFinished(t, TRUE) /\ UNCHANGED burst
    BY <1>9 DEF WaitPeriodMissed, Executes, NextCallIfActive
  <2>2. /\ \A u \in Task \ {t} : nxt'[u] = nxt[u]
        /\ nxt'[t].active = nxt[t].active /\ nxt'[t].state = nxt[t].state
        /\ nxt'[t].wper = FALSE /\ nxt'[t].wcom = nxt[t].wcom /\ nxt'[t].consumption = nxt[t].consumption
    BY <1>0, <2>1, LineWritten
  <2>3. /\ thread' = t /\ userPc'[t] = "call"
        /\ \A u \in Task \ {t} : userPc'[u] = userPc[u] /\ ip'[u] = ip[u]
    BY <1>0, <2>1, ThreadGoes
  <2>4. /\ finished'[t] = TRUE
        /\ \A u \in Task \ {t} : finished'[u] = finished[u] /\ burst'[u] = burst[u]
    BY <1>0, <2>1, OthersFlags
  <2> QED  BY <1>0, <2>1, <2>2, <2>3, <2>4 DEF CallMoves, Waits, Executes
<1>10. CASE WaitPeriodReleased(t)
  <2>1. /\ t \in runUser /\ thread = NoTask /\ userPc[t] = "wait_release" /\ runUser' = runUser \ {t}
        /\ NextCallIfActive(t) /\ Write(t, "wper", FALSE)
        /\ SetFinished(t, TRUE) /\ UNCHANGED burst
    BY <1>10 DEF WaitPeriodReleased
  <2>2. /\ \A u \in Task \ {t} : nxt'[u] = nxt[u]
        /\ nxt'[t].active = nxt[t].active /\ nxt'[t].state = nxt[t].state
        /\ nxt'[t].wper = FALSE /\ nxt'[t].wcom = nxt[t].wcom /\ nxt'[t].consumption = nxt[t].consumption
    BY <1>0, <2>1, LineWritten
  <2>3. /\ thread' = (IF cur[t].active THEN t ELSE NoTask) /\ userPc'[t] = (IF cur[t].active THEN "call" ELSE "guard")
        /\ \A u \in Task \ {t} : userPc'[u] = userPc[u] /\ ip'[u] = ip[u]
    BY <1>0, <2>1, ThreadGoes DEF NextCallIfActive
  <2>4. /\ finished'[t] = TRUE
        /\ \A u \in Task \ {t} : finished'[u] = finished[u] /\ burst'[u] = burst[u]
    BY <1>0, <2>1, OthersFlags
  <2>5. Returns(t)
    BY <2>1, <2>3, <2>4 DEF Returns
  <2>6. LinesWritten(t)'
    BY <1>0, <2>1, <2>2, <2>3
  <2> QED  BY <1>0, <2>1, <2>2, <2>3, <2>4, <2>5, <2>6
<1>11. CASE YieldCall(t)
  <2>1. /\ thread = t /\ SetFinished(t, FALSE) /\ WaitAt(t, "yielded")
        /\ UNCHANGED <<nxt, runUser, burst>>
    BY <1>11 DEF YieldCall
  <2>2. /\ thread' = NoTask /\ userPc'[t] = "yielded"
        /\ \A u \in Task \ {t} : userPc'[u] = userPc[u] /\ ip'[u] = ip[u]
    BY <1>0, <2>1, ThreadGoes
  <2>3. finished'[t] = FALSE /\ \A u \in Task \ {t} : finished'[u] = finished[u]
    BY <1>0, <2>1, OthersFlags
  <2> QED  BY <1>0, <2>1, <2>2, <2>3 DEF CallMoves, Executes, Waits
<1>12. CASE YieldResumed(t)
  BY <1>0, <1>12, ThreadGoes, LineWritten, OthersFlags DEF YieldResumed, Starts
<1>13. CASE SemTaken(t)
  <2>1. /\ thread = t /\ runUser' = runUser /\ cur[t].active
        /\ NextCall(t) /\ Write(t, "wcom", FALSE)
        /\ SetFinished(t, TRUE) /\ UNCHANGED burst
    BY <1>13 DEF SemTaken, Executes, NextCallIfActive
  <2>2. /\ \A u \in Task \ {t} : nxt'[u] = nxt[u]
        /\ nxt'[t].active = nxt[t].active /\ nxt'[t].state = nxt[t].state
        /\ nxt'[t].wcom = FALSE /\ nxt'[t].wper = nxt[t].wper /\ nxt'[t].consumption = nxt[t].consumption
    BY <1>0, <2>1, LineWritten
  <2>3. /\ thread' = t /\ userPc'[t] = "call"
        /\ \A u \in Task \ {t} : userPc'[u] = userPc[u] /\ ip'[u] = ip[u]
    BY <1>0, <2>1, ThreadGoes
  <2>4. /\ finished'[t] = TRUE
        /\ \A u \in Task \ {t} : finished'[u] = finished[u] /\ burst'[u] = burst[u]
    BY <1>0, <2>1, OthersFlags
  <2> QED  BY <1>0, <2>1, <2>2, <2>3, <2>4 DEF CallMoves, Waits, Executes
<1>14. CASE SemBlocks(t)
  <2>1. /\ thread = t /\ runUser' = runUser /\ cur[t].active
        /\ WaitAt(t, "sem_wait") /\ Write(t, "wcom", TRUE)
        /\ SetFinished(t, FALSE) /\ UNCHANGED burst
    BY <1>14 DEF SemBlocks, Executes
  <2>2. /\ \A u \in Task \ {t} : nxt'[u] = nxt[u]
        /\ nxt'[t].active = nxt[t].active /\ nxt'[t].state = nxt[t].state
        /\ nxt'[t].wcom = TRUE /\ nxt'[t].wper = nxt[t].wper /\ nxt'[t].consumption = nxt[t].consumption
    BY <1>0, <2>1, LineWritten
  <2>3. /\ thread' = NoTask /\ userPc'[t] = "sem_wait"
        /\ \A u \in Task \ {t} : userPc'[u] = userPc[u] /\ ip'[u] = ip[u]
    BY <1>0, <2>1, ThreadGoes
  <2>4. /\ finished'[t] = FALSE
        /\ \A u \in Task \ {t} : finished'[u] = finished[u] /\ burst'[u] = burst[u]
    BY <1>0, <2>1, OthersFlags
  <2> QED  BY <1>0, <2>1, <2>2, <2>3, <2>4 DEF CallMoves, Waits, Executes
<1>15. CASE SemWoken(t)
  <2>1. CASE sem = 0
    BY <1>0, <1>15, <2>1, ThreadGoes DEF SemWoken, Retries
  <2>2. CASE sem # 0
    <3>1. /\ t \in runUser /\ thread = NoTask /\ userPc[t] = "sem_wait" /\ runUser' = runUser \ {t}
          /\ NextCallIfActive(t) /\ Write(t, "wcom", FALSE)
          /\ SetFinished(t, TRUE) /\ UNCHANGED burst
      BY <1>15, <2>2 DEF SemWoken
    <3>2. /\ \A u \in Task \ {t} : nxt'[u] = nxt[u]
          /\ nxt'[t].active = nxt[t].active /\ nxt'[t].state = nxt[t].state
          /\ nxt'[t].wcom = FALSE /\ nxt'[t].wper = nxt[t].wper /\ nxt'[t].consumption = nxt[t].consumption
      BY <1>0, <3>1, LineWritten
    <3>3. /\ thread' = (IF cur[t].active THEN t ELSE NoTask) /\ userPc'[t] = (IF cur[t].active THEN "call" ELSE "guard")
          /\ \A u \in Task \ {t} : userPc'[u] = userPc[u] /\ ip'[u] = ip[u]
      BY <1>0, <3>1, ThreadGoes DEF NextCallIfActive
    <3>4. /\ finished'[t] = TRUE
          /\ \A u \in Task \ {t} : finished'[u] = finished[u] /\ burst'[u] = burst[u]
      BY <1>0, <3>1, OthersFlags
    <3> QED  BY <1>0, <3>1, <3>2, <3>3, <3>4 DEF Returns
  <2> QED  BY <2>1, <2>2
<1>16. CASE SemPosts(t)
  BY <1>0, <1>16, ThreadGoes, LineWritten, OthersFlags DEF SemPosts, CallMoves, Executes, Waits
<1>17. CASE EventSets(t)
  BY <1>0, <1>17, ThreadGoes, LineWritten, OthersFlags DEF EventSets, CallMoves, Executes, Waits
<1>18. CASE EventTaken(t)
  <2>1. /\ thread = t /\ runUser' = runUser /\ cur[t].active
        /\ NextCall(t) /\ Write(t, "wcom", FALSE)
        /\ SetFinished(t, TRUE) /\ UNCHANGED burst
    BY <1>18 DEF EventTaken, Executes, NextCallIfActive
  <2>2. /\ \A u \in Task \ {t} : nxt'[u] = nxt[u]
        /\ nxt'[t].active = nxt[t].active /\ nxt'[t].state = nxt[t].state
        /\ nxt'[t].wcom = FALSE /\ nxt'[t].wper = nxt[t].wper /\ nxt'[t].consumption = nxt[t].consumption
    BY <1>0, <2>1, LineWritten
  <2>3. /\ thread' = t /\ userPc'[t] = "call"
        /\ \A u \in Task \ {t} : userPc'[u] = userPc[u] /\ ip'[u] = ip[u]
    BY <1>0, <2>1, ThreadGoes
  <2>4. /\ finished'[t] = TRUE
        /\ \A u \in Task \ {t} : finished'[u] = finished[u] /\ burst'[u] = burst[u]
    BY <1>0, <2>1, OthersFlags
  <2> QED  BY <1>0, <2>1, <2>2, <2>3, <2>4 DEF CallMoves, Waits, Executes
<1>19. CASE EventBlocks(t)
  <2>1. /\ thread = t /\ runUser' = runUser /\ cur[t].active
        /\ WaitAt(t, "event_wait") /\ Write(t, "wcom", TRUE)
        /\ SetFinished(t, FALSE) /\ UNCHANGED burst
    BY <1>19 DEF EventBlocks, Executes
  <2>2. /\ \A u \in Task \ {t} : nxt'[u] = nxt[u]
        /\ nxt'[t].active = nxt[t].active /\ nxt'[t].state = nxt[t].state
        /\ nxt'[t].wcom = TRUE /\ nxt'[t].wper = nxt[t].wper /\ nxt'[t].consumption = nxt[t].consumption
    BY <1>0, <2>1, LineWritten
  <2>3. /\ thread' = NoTask /\ userPc'[t] = "event_wait"
        /\ \A u \in Task \ {t} : userPc'[u] = userPc[u] /\ ip'[u] = ip[u]
    BY <1>0, <2>1, ThreadGoes
  <2>4. /\ finished'[t] = FALSE
        /\ \A u \in Task \ {t} : finished'[u] = finished[u] /\ burst'[u] = burst[u]
    BY <1>0, <2>1, OthersFlags
  <2> QED  BY <1>0, <2>1, <2>2, <2>3, <2>4 DEF CallMoves, Waits, Executes
<1>20. CASE EventWoken(t)
  <2>1. /\ t \in runUser /\ thread = NoTask /\ userPc[t] = "event_wait" /\ runUser' = runUser \ {t}
        /\ NextCallIfActive(t) /\ Write(t, "wcom", FALSE)
        /\ SetFinished(t, TRUE) /\ UNCHANGED burst
    BY <1>20 DEF EventWoken
  <2>2. /\ \A u \in Task \ {t} : nxt'[u] = nxt[u]
        /\ nxt'[t].active = nxt[t].active /\ nxt'[t].state = nxt[t].state
        /\ nxt'[t].wcom = FALSE /\ nxt'[t].wper = nxt[t].wper /\ nxt'[t].consumption = nxt[t].consumption
    BY <1>0, <2>1, LineWritten
  <2>3. /\ thread' = (IF cur[t].active THEN t ELSE NoTask) /\ userPc'[t] = (IF cur[t].active THEN "call" ELSE "guard")
        /\ \A u \in Task \ {t} : userPc'[u] = userPc[u] /\ ip'[u] = ip[u]
    BY <1>0, <2>1, ThreadGoes DEF NextCallIfActive
  <2>4. /\ finished'[t] = TRUE
        /\ \A u \in Task \ {t} : finished'[u] = finished[u] /\ burst'[u] = burst[u]
    BY <1>0, <2>1, OthersFlags
  <2> QED  BY <1>0, <2>1, <2>2, <2>3, <2>4 DEF Returns
<1>21. CASE EventUnsets(t)
  BY <1>0, <1>21, ThreadGoes, LineWritten, OthersFlags DEF EventUnsets, CallMoves, Executes, Waits
<1> QED  BY <1>1, <1>2, <1>3, <1>4, <1>5, <1>6, <1>7, <1>8, <1>9, <1>10, <1>11, <1>12,
            <1>13, <1>14, <1>15, <1>16, <1>17, <1>18, <1>19, <1>20, <1>21
         DEF User

\* What a step of a user thread leaves, and what it notifies.
Undisturbed ==
  /\ UNCHANGED <<cur, runFsm, runSched, schedPc, current>>
  /\ pending \subseteq pending'

YieldNotified(t) ==
  userPc'[t] = "yielded" => userPc[t] = "yielded" \/ Notify("yield") \in pending'

\* A thread released while it holds the processor does not block at once.
BlocksNoWait(t) == thread = t /\ userPc'[t] \in CommWaits => ~cur[t].wper

\* The invariant of a task, but for the part about its script.
LocalInv(t) ==
  /\ LinesWritten(t) /\ Executes(t) /\ WokenThread(t) /\ SeesActive(t) /\ LinesChange(t)
  /\ FinishedFlag(t) /\ YieldSeen(t) /\ ReleaseKeepsProcessor(t) /\ StateInv(t)

\* The step of a thread keeps the invariant of its task.
LEMMA ActorKept ==
  ASSUME TypeOK, NEW t \in Task, LocalInv(t), ConsumeInv(t), ThreadStep(t), Undisturbed,
         YieldNotified(t), BlocksNoWait(t)
  PROVE  LocalInv(t)'
<1>0. /\ t # NoTask /\ burst[t] \in Nat
      /\ t \notin runUser' /\ cur' = cur /\ runFsm' = runFsm
      /\ UNCHANGED <<runSched, schedPc>>
      /\ thread' = (IF userPc'[t] = "call" THEN t ELSE NoTask)
      /\ nxt'[t].active = nxt[t].active /\ nxt'[t].state = nxt[t].state
      /\ LinesWritten(t)'
  BY ConstantTypes DEF TypeOK, ThreadStep, ThreadFrame, Undisturbed
<1>1. ThreadFrame(t) /\ Moves(t)
  BY DEF ThreadStep
<1>2. thread = t => t \notin runUser
  BY DEF ConsumeInv
<1>3. Executes(t)'
  <2>1. userPc'[t] = "call" => cur[t].active /\ ~cur[t].wcom
    BY <1>0, <1>1 DEF LocalInv, Moves, Starts, Returns, Retries, ConsumeMoves, CallMoves, Executes,
                      WokenThread, LinesWritten, CommWaits, Waits
  <2> QED  BY <1>0, <2>1 DEF Executes
<1>4. WokenThread(t)'
  BY <1>0 DEF WokenThread
<1>5. SeesActive(t)'
  BY <1>0, <1>1 DEF LocalInv, Moves, Starts, Returns, Retries, ConsumeMoves, CallMoves, Executes,
                    WokenThread, CommWaits, Waits, SeesActive
<1>6. LinesChange(t)'
  BY <1>0, <1>1 DEF LocalInv, Moves, Starts, Returns, Retries, ConsumeMoves, CallMoves, Executes,
                    WokenThread, LinesWritten, CommWaits, LinesChange, BlocksNoWait
<1>7. FinishedFlag(t)'
  BY <1>0, <1>1 DEF LocalInv, Moves, Starts, Returns, Retries, ConsumeMoves, CallMoves, Executes,
                    WokenThread, LinesWritten, CommWaits, Waits, FinishedFlag
<1>8. YieldSeen(t)'
  BY <1>0, <1>1 DEF LocalInv, Moves, Starts, Returns, Retries, ConsumeMoves, CallMoves,
                    CommWaits, YieldSeen, YieldNotified, Executes, Undisturbed
<1>9. ReleaseKeepsProcessor(t)'
  BY <1>0, <1>1 DEF LocalInv, Moves, Starts, Returns, Retries, ConsumeMoves, CallMoves,
                    CommWaits, ReleaseKeepsProcessor, Executes, LinesWritten, WokenThread
<1>10. StateInv(t)'
  <2>1. CASE t \in runFsm
    <3>1. Woken(t)
      BY <2>1 DEF LocalInv, StateInv
    <3>2. userPc[t] # "guard" /\ userPc'[t] = "guard" => cur[t].wper \/ cur[t].wcom
      BY <1>0, <1>1 DEF LocalInv, Moves, Starts, Returns, Retries, ConsumeMoves, CallMoves,
                        CommWaits, LinesWritten, WokenThread, Waits
    <3>3. userPc[t] \in {"yielded", "done"} /\ t \notin runUser =>
            userPc'[t] = userPc[t] /\ finished'[t] = finished[t]
      BY <1>0, <1>1 DEF LocalInv, Moves, Starts, Returns, Retries, ConsumeMoves, CallMoves,
                        CommWaits, Executes
    <3>4. Woken(t)'
      BY <1>0, <3>1, <3>2, <3>3 DEF Woken
    <3> QED  BY <1>0, <2>1, <3>4 DEF StateInv
  <2>2. CASE t \notin runFsm
    <3>1. Settled(t)
      BY <2>2 DEF LocalInv, StateInv
    <3>2. userPc[t] = "yielded" /\ t \notin runUser => userPc'[t] = "yielded"
      BY <1>0, <1>1 DEF LocalInv, Moves, Starts, Returns, Retries, ConsumeMoves, CallMoves,
                        CommWaits, Executes
    <3>3. userPc[t] = "done" => userPc'[t] = "done"
      BY <1>0, <1>1 DEF LocalInv, Moves, Starts, Returns, Retries, ConsumeMoves, CallMoves,
                        CommWaits, Executes
    <3>4. Settled(t)'
      BY <1>0, <3>1, <3>2, <3>3 DEF Settled
    <3> QED  BY <1>0, <2>2, <3>4 DEF StateInv
  <2> QED  BY <2>1, <2>2
<1> QED  BY <1>0, <1>3, <1>4, <1>5, <1>6, <1>7, <1>8, <1>9, <1>10 DEF LocalInv

\* The step of a thread keeps the invariant of another task: it is not active,
\* so a token that wakes it finds its wait visible.
LEMMA OtherKept ==
  ASSUME TypeOK, ActiveIsCurrent, NEW t \in Task, NEW u \in Task \ {t}, LocalInv(t), LocalInv(u),
         ThreadStep(t), Undisturbed
  PROVE  LocalInv(u)'
<1>1. /\ LeavesTask(t, u) /\ UNCHANGED <<cur, runFsm, runSched, schedPc>> /\ pending \subseteq pending'
      /\ thread # u /\ thread' # u /\ thread \in {t, NoTask}
  BY ConstantTypes DEF ThreadStep, ThreadFrame, Undisturbed
<1>2. thread = t => ~cur[u].active
  BY DEF LocalInv, Executes, ActiveIsCurrent
<1>3. WokenThread(u)'
  <2>1. CASE u \in runUser
    BY <1>1, <2>1 DEF LocalInv, WokenThread, LeavesTask
  <2>2. CASE u \notin runUser
    <3>1. u \in runUser' => userPc[u] = "sem_wait" /\ thread = t
      BY <1>1, <2>2 DEF LeavesTask
    <3>2. userPc[u] = "sem_wait" /\ ~cur[u].active =>
            /\ nxt[u].wper = cur[u].wper /\ nxt[u].wcom = cur[u].wcom
            /\ nxt[u].consumption = cur[u].consumption
      <4>1. cur[u] \in Signals /\ nxt[u] \in Signals
        BY DEF TypeOK
      <4> QED  BY <4>1 DEF LocalInv, LinesWritten, LinesChange, CommWaits, Signals
    <3> QED  BY <1>1, <1>2, <3>1, <3>2 DEF WokenThread, LeavesTask
  <2> QED  BY <2>1, <2>2
<1>4. LinesWritten(u)' /\ Executes(u)' /\ SeesActive(u)' /\ LinesChange(u)' /\ FinishedFlag(u)'
  BY <1>1 DEF LocalInv, LinesWritten, Executes, SeesActive, LinesChange, FinishedFlag, LeavesTask
<1>5. YieldSeen(u)' /\ ReleaseKeepsProcessor(u)'
  BY <1>1 DEF LocalInv, YieldSeen, ReleaseKeepsProcessor, LeavesTask
<1>6. StateInv(u)'
  <2>1. userPc[u] \in {"yielded", "done"} /\ u \notin runUser => u \notin runUser'
    BY <1>1 DEF LeavesTask
  <2>2. CASE u \in runFsm
    <3>1. Woken(u)
      BY <2>2 DEF LocalInv, StateInv
    <3>2. Woken(u)'
      BY <1>1, <2>1, <3>1 DEF Woken, LeavesTask
    <3> QED  BY <1>1, <2>2, <3>2 DEF StateInv
  <2>3. CASE u \notin runFsm
    <3>1. Settled(u)
      BY <2>3 DEF LocalInv, StateInv
    <3>2. Settled(u)'
      BY <1>1, <2>1, <3>1 DEF Settled, LeavesTask
    <3> QED  BY <1>1, <2>3, <3>2 DEF StateInv
  <2> QED  BY <2>2, <2>3
<1> QED  BY <1>3, <1>4, <1>5, <1>6 DEF LocalInv

-----------------------------------------------------------------------------
\* Three ways to leave a call: to a wait that is not tied to the script, to the
\* next call with no release behind, and to the next call from a call that may
\* follow a release.
LEMMA ScriptAway ==
  ASSUME NEW t \in Task, thread' # t, userPc'[t] \notin {"wait_release", "event_wait"}
  PROVE  InScript(t)'
BY DEF InScript

LEMMA ScriptNoRelease ==
  ASSUME NEW t \in Task, cur' = cur, ~cur[t].wper, userPc'[t] \in {"call", "guard"}
  PROVE  InScript(t)'
BY DEF InScript

LEMMA ScriptNext ==
  ASSUME TypeOK, NEW t \in Task, InScript(t), cur' = cur, userPc'[t] = "call",
         NEW op, op \notin {"consume", "yield"}, Calls(t, op)
  PROVE  InScript(t)'
<1>1. op \in Ops(t, ip[t])
  BY DEF Calls, Ops
<1>2. cur[t].wper => \A o \in CommWaits : ~Uses(t, o)
  BY <1>1 DEF InScript, Calls
<1> QED  BY <1>2 DEF InScript

LEMMA ScriptUser ==
  ASSUME Regular, TypeOK, NEW t \in Task, LocalInv(t), InScript(t), User(t)
  PROVE  InScript(t)' /\ BlocksNoWait(t)
<1>0. /\ {"call", "consume_guard", "consuming", "wait_release", "sem_wait", "event_wait",
          "yielded", "guard", "done"} \subseteq UserPcs
      /\ NoTask # t /\ ip[t] \in Nat \ {0} /\ Len(Script[t]) \in Nat
  <2>1. Script[t] \in Seq(SUBSET Call)
    BY SchedulingAssumption
  <2>2. Len(Script[t]) \in Nat
    BY <2>1
  <2>3. NoTask # t
    BY ConstantTypes
  <2>4. ip[t] \in Nat \ {0}
    BY DEF TypeOK
  <2> QED  BY <2>2, <2>3, <2>4 DEF UserPcs
<1>00. t \in runUser /\ userPc[t] # "wait_release" => ~cur[t].wper
  BY DEF LocalInv, WokenThread, LinesWritten
<1>01. thread = t => cur[t].active
  BY DEF LocalInv, Executes
<1> USE DEF Resumed, userFrame, BlocksNoWait, CommWaits
<1>1. CASE UserStart(t)
  <2>1. userPc'[t] = "call" /\ thread = NoTask /\ t \in runUser /\ userPc[t] # "wait_release" /\ cur' = cur
    BY <1>0, <1>1, ThreadGoes DEF UserStart, TypeOK
  <2> QED  BY <1>0, <1>00, <2>1, ScriptNoRelease
<1>2. CASE GuardPassed(t)
  <2>1. userPc'[t] = "call" /\ thread = NoTask /\ t \in runUser /\ userPc[t] # "wait_release" /\ cur' = cur
    BY <1>0, <1>2, ThreadGoes DEF GuardPassed
  <2> QED  BY <1>0, <1>00, <2>1, ScriptNoRelease
<1>3. CASE UserEnds(t)
  BY <1>0, <1>3, ThreadGoes, ScriptAway DEF UserEnds
<1>4. CASE ConsumeCall(t)
  <2>1. WaitAt(t, "consume_guard") \/ WaitAt(t, "consuming")
    BY <1>4 DEF ConsumeCall
  <2> QED  BY <1>0, <2>1, ThreadGoes, ScriptAway
<1>5. CASE ConsumeActivated(t)
  BY <1>0, <1>5, ThreadGoes, ScriptAway DEF ConsumeActivated
<1>6. CASE ConsumePreempted(t)
  BY <1>0, <1>6, ThreadGoes, ScriptAway DEF ConsumePreempted
<1>7. CASE ConsumeEnds(t)
  <2>1. userPc'[t] = "call" /\ thread = NoTask /\ t \in runUser /\ userPc[t] # "wait_release" /\ cur' = cur
    BY <1>0, <1>7, ThreadGoes DEF ConsumeEnds
  <2> QED  BY <1>0, <1>00, <2>1, ScriptNoRelease
<1>8. CASE WaitPeriodCall(t)
  <2>1. WaitAt(t, "wait_release") /\ Calls(t, "wait_period")
    BY <1>8 DEF WaitPeriodCall
  <2>2. ip[t] \in 1..Len(Script[t]) /\ "wait_period" \in Ops(t, ip[t])
    BY <1>0, <2>1 DEF Calls, Ops
  <2>3. thread' = NoTask /\ userPc'[t] = "wait_release" /\ ip' = ip
    BY <1>0, <2>1, ThreadGoes DEF WaitAt
  <2> QED  BY <1>0, <2>2, <2>3 DEF InScript
<1>9. CASE WaitPeriodMissed(t)
  <2>1. NextCall(t) /\ Calls(t, "wait_period") /\ cur' = cur
    BY <1>01, <1>9 DEF WaitPeriodMissed, NextCallIfActive, Calls
  <2> QED  BY <1>0, <2>1, ThreadGoes, ScriptNext
<1>10. CASE WaitPeriodReleased(t)
  <2>1. NextCallIfActive(t) /\ thread = NoTask /\ userPc[t] = "wait_release" /\ cur' = cur
    BY <1>10 DEF WaitPeriodReleased
  <2>2. CASE cur[t].active
    <3>1. NextCall(t)
      BY <2>1, <2>2 DEF NextCallIfActive
    <3>2. userPc'[t] = "call" /\ ip'[t] = Following(t, ip[t])
      BY <1>0, <3>1, ThreadGoes DEF NextCall, Following, TypeOK
    <3>3. \/ \A o \in CommWaits : ~Uses(t, o)
          \/ Following(t, ip[t]) <= Len(Script[t]) => Ops(t, Following(t, ip[t])) \subseteq {"consume", "yield"}
      BY <2>1 DEF InScript, Regular, FollowedByWork
    <3> QED  BY <1>0, <2>1, <3>2, <3>3 DEF InScript
  <2>3. CASE ~cur[t].active
    BY <1>0, <2>1, <2>3, ThreadGoes, ScriptAway DEF NextCallIfActive
  <2> QED  BY <2>2, <2>3
<1>11. CASE YieldCall(t)
  BY <1>0, <1>11, ThreadGoes, ScriptAway DEF YieldCall
<1>12. CASE YieldResumed(t)
  <2>1. userPc'[t] = "call" /\ thread = NoTask /\ t \in runUser /\ userPc[t] # "wait_release" /\ cur' = cur
    BY <1>0, <1>12, ThreadGoes DEF YieldResumed
  <2> QED  BY <1>0, <1>00, <2>1, ScriptNoRelease
<1>13. CASE SemTaken(t)
  <2>1. NextCall(t) /\ Calls(t, "sem_wait") /\ cur' = cur
    BY <1>01, <1>13 DEF SemTaken, NextCallIfActive, Calls
  <2> QED  BY <1>0, <2>1, ThreadGoes, ScriptNext
<1>14. CASE SemBlocks(t)
  <2>1. thread = t /\ ip[t] \in 1..Len(Script[t]) /\ "sem_wait" \in Ops(t, ip[t])
    BY <1>0, <1>14 DEF SemBlocks, Calls, Ops
  <2>2. ~cur[t].wper
    BY <2>1 DEF InScript, Uses
  <2> QED  BY <1>0, <1>14, <2>2, ThreadGoes, ScriptAway DEF SemBlocks
<1>15. CASE SemWoken(t)
  <2>1. thread = NoTask /\ t \in runUser /\ userPc[t] # "wait_release" /\ cur' = cur
    BY <1>15 DEF SemWoken
  <2>2. CASE sem = 0
    BY <1>0, <1>15, <2>2, ThreadGoes, ScriptAway DEF SemWoken
  <2>3. CASE sem # 0
    <3>1. userPc'[t] \in {"call", "guard"}
      BY <1>0, <1>15, <2>3, ThreadGoes DEF SemWoken, NextCallIfActive
    <3> QED  BY <1>0, <1>00, <2>1, <3>1, ScriptNoRelease
  <2> QED  BY <2>2, <2>3
<1>16. CASE SemPosts(t)
  <2>1. NextCall(t) /\ Calls(t, "sem_post") /\ cur' = cur
    BY <1>01, <1>16 DEF SemPosts, Calls
  <2> QED  BY <1>0, <2>1, ThreadGoes, ScriptNext
<1>17. CASE EventSets(t)
  <2>1. NextCall(t) /\ Calls(t, "event_set") /\ cur' = cur
    BY <1>01, <1>17 DEF EventSets, Calls
  <2> QED  BY <1>0, <2>1, ThreadGoes, ScriptNext
<1>18. CASE EventTaken(t)
  <2>1. NextCall(t) /\ Calls(t, "event_wait") /\ cur' = cur
    BY <1>01, <1>18 DEF EventTaken, NextCallIfActive, Calls
  <2> QED  BY <1>0, <2>1, ThreadGoes, ScriptNext
<1>19. CASE EventBlocks(t)
  <2>1. thread = t /\ ip[t] \in 1..Len(Script[t]) /\ "event_wait" \in Ops(t, ip[t])
    BY <1>0, <1>19 DEF EventBlocks, Calls, Ops
  <2>2. ~cur[t].wper /\ Uses(t, "event_wait")
    BY <2>1 DEF InScript, Uses
  <2>3. userPc'[t] = "event_wait" /\ thread' = NoTask
    BY <1>0, <1>19, ThreadGoes DEF EventBlocks
  <2> QED  BY <1>0, <2>2, <2>3 DEF InScript
<1>20. CASE EventWoken(t)
  <2>1. userPc'[t] \in {"call", "guard"} /\ thread = NoTask /\ t \in runUser /\ userPc[t] # "wait_release" /\ cur' = cur
    BY <1>0, <1>20, ThreadGoes DEF EventWoken, NextCallIfActive
  <2> QED  BY <1>0, <1>00, <2>1, ScriptNoRelease
<1>21. CASE EventUnsets(t)
  <2>1. NextCall(t) /\ Calls(t, "event_unset") /\ cur' = cur
    BY <1>01, <1>21 DEF EventUnsets, Calls
  <2> QED  BY <1>0, <2>1, ThreadGoes, ScriptNext
<1> QED  BY <1>1, <1>2, <1>3, <1>4, <1>5, <1>6, <1>7, <1>8, <1>9, <1>10, <1>11, <1>12,
            <1>13, <1>14, <1>15, <1>16, <1>17, <1>18, <1>19, <1>20, <1>21
         DEF User

-----------------------------------------------------------------------------
\* Of the steps of a thread only yield and the set of an event notify something
\* that a scheduler or another thread waits for.
LEMMA UserQuiet ==
  ASSUME TypeOK, NEW t \in Task, User(t), ~YieldCall(t), ~EventSets(t)
  PROVE  pending' \in {pending, pending \cup {EndResponse(t)}} /\ userPc'[t] # "yielded"
<1>0. /\ {"call", "consume_guard", "consuming", "wait_release", "sem_wait", "event_wait",
          "yielded", "guard", "done"} \subseteq UserPcs
      /\ userPc \in [Task -> UserPcs]
  BY DEF UserPcs, TypeOK
<1> USE DEF Resumed
<1>1. CASE UserStart(t)
  BY <1>0, <1>1 DEF UserStart
<1>2. CASE GuardPassed(t)
  BY <1>0, <1>2, ThreadSteps DEF GuardPassed
<1>3. CASE UserEnds(t)
  BY <1>0, <1>3, ThreadSteps DEF UserEnds
<1>4. CASE ConsumeCall(t)
  <2>1. (WaitAt(t, "consume_guard") \/ WaitAt(t, "consuming")) /\ UNCHANGED pending
    BY <1>4 DEF ConsumeCall
  <2> QED  BY <1>0, <2>1, ThreadSteps
<1>5. CASE ConsumeActivated(t)
  BY <1>0, <1>5, ThreadSteps DEF ConsumeActivated
<1>6. CASE ConsumePreempted(t)
  BY <1>0, <1>6, ThreadSteps DEF ConsumePreempted
<1>7. CASE ConsumeEnds(t)
  BY <1>0, <1>7, ThreadSteps DEF ConsumeEnds
<1>8. CASE WaitPeriodCall(t)
  BY <1>0, <1>8, ThreadSteps DEF WaitPeriodCall
<1>9. CASE WaitPeriodMissed(t)
  BY <1>0, <1>9, ThreadSteps DEF WaitPeriodMissed
<1>10. CASE WaitPeriodReleased(t)
  BY <1>0, <1>10, ThreadSteps DEF WaitPeriodReleased
<1>12. CASE YieldResumed(t)
  BY <1>0, <1>12, ThreadSteps DEF YieldResumed
<1>13. CASE SemTaken(t)
  BY <1>0, <1>13, ThreadSteps DEF SemTaken
<1>14. CASE SemBlocks(t)
  BY <1>0, <1>14, ThreadSteps DEF SemBlocks
<1>15. CASE SemWoken(t)
  BY <1>0, <1>15, ThreadSteps DEF SemWoken
<1>16. CASE SemPosts(t)
  BY <1>0, <1>16, ThreadSteps DEF SemPosts
<1>18. CASE EventTaken(t)
  BY <1>0, <1>18, ThreadSteps DEF EventTaken
<1>19. CASE EventBlocks(t)
  BY <1>0, <1>19, ThreadSteps DEF EventBlocks
<1>20. CASE EventWoken(t)
  BY <1>0, <1>20, ThreadSteps DEF EventWoken
<1>21. CASE EventUnsets(t)
  BY <1>0, <1>21, ThreadSteps DEF EventUnsets
<1> QED  BY <1>1, <1>2, <1>3, <1>4, <1>5, <1>6, <1>7, <1>8, <1>9, <1>10, <1>12,
            <1>13, <1>14, <1>15, <1>16, <1>18, <1>19, <1>20, <1>21
         DEF User

LEMMA UserNotifies ==
  ASSUME TypeOK, NEW t \in Task, User(t)
  PROVE  /\ Undisturbed /\ YieldNotified(t)
         /\ \A e \in pending' \ pending :
              \/ e = EndResponse(t)
              \/ e = Notify("yield") /\ userPc'[t] = "yielded" /\ thread = t
              \/ e = Notify("user_event") /\ thread = t /\ Uses(t, "event_set")
<1>1. Undisturbed
  BY UserWritesLines DEF UserWrites, Undisturbed, schedVars
<1>2. CASE YieldCall(t)
  <2>1. /\ "yielded" \in UserPcs /\ WaitAt(t, "yielded")
        /\ pending' = pending \cup {Notify("yield")} /\ thread = t
    BY <1>2 DEF YieldCall, Calls, UserPcs
  <2>2. userPc'[t] = "yielded"
    BY <2>1, ThreadGoes
  <2> QED  BY <1>1, <2>1, <2>2 DEF YieldNotified
<1>3. CASE EventSets(t)
  <2>1. NextCall(t) /\ pending' = pending \cup {Notify("user_event")} /\ Calls(t, "event_set")
    BY <1>3 DEF EventSets
  <2>2. userPc'[t] = "call"
    BY <2>1, ThreadGoes
  <2>3. Script[t] \in Seq(SUBSET Call)
    BY SchedulingAssumption
  <2>4. Len(Script[t]) \in Nat
    BY <2>3
  <2>5. ip[t] \in Nat \ {0}
    BY DEF TypeOK
  <2>6. thread = t /\ Uses(t, "event_set")
    BY <2>1, <2>4, <2>5 DEF Calls, Uses, Ops
  <2> QED  BY <1>1, <2>1, <2>2, <2>6 DEF YieldNotified
<1>4. CASE ~YieldCall(t) /\ ~EventSets(t)
  BY <1>1, <1>4, UserQuiet DEF YieldNotified
<1> QED  BY <1>2, <1>3, <1>4

\* The state machines read and write nothing of a thread, and a thread that goes
\* on keeps the processor for its task.
LEMMA PhaseUser ==
  ASSUME Regular, TypeOK, ExclusiveInv, \A u \in Task : ConsumeInv(u), PhaseInv, PenaltyRunning',
         NEW t \in Task, User(t)
  PROVE  PhaseInv'
<1>0. NoTask # t /\ \A u \in Task : LocalInv(u) /\ InScript(u)
  BY ConstantTypes DEF PhaseInv, TaskInv, LocalInv
<1>1. /\ Undisturbed /\ YieldNotified(t)
      /\ \A e \in pending' \ pending :
           \/ e = EndResponse(t)
           \/ e = Notify("yield") /\ userPc'[t] = "yielded" /\ thread = t
           \/ e = Notify("user_event") /\ thread = t /\ Uses(t, "event_set")
  BY UserNotifies
<1>2. ThreadStep(t)
  <2>1. thread = t => t \notin runUser
    BY DEF ConsumeInv
  <2> QED  BY <1>0, <2>1, UserStep DEF LocalInv, Regular
<1>3. InScript(t)' /\ BlocksNoWait(t)
  BY <1>0, ScriptUser
<1>4. TaskInv(t)'
  <2>1. LocalInv(t)'
    BY <1>0, <1>1, <1>2, <1>3, ActorKept
  <2> QED  BY <1>3, <2>1 DEF TaskInv, LocalInv
<1>5. ASSUME NEW u \in Task \ {t}  PROVE TaskInv(u)'
  <2>1. LocalInv(u)'
    BY <1>0, <1>1, <1>2, OtherKept DEF ExclusiveInv
  <2>2. InScript(u)'
    <3>1. /\ LeavesTask(t, u) /\ cur' = cur /\ thread' # u
      BY <1>2, <1>0, <1>1, ConstantTypes DEF ThreadStep, ThreadFrame, Undisturbed
    <3> QED  BY <1>0, <3>1 DEF InScript, LeavesTask
  <2> QED  BY <2>1, <2>2 DEF TaskInv, LocalInv
<1>6. PendingInv'
  <2>0. PendingInv
    BY DEF PhaseInv
  <2>1. /\ thread = t => cur[t].active /\ userPc[t] # "yielded"
        /\ cur' = cur /\ runFsm' = runFsm /\ TriggerList' = TriggerList
        /\ t \notin runUser' /\ (thread # t => t \in runUser)
    BY <1>0, <1>1, <1>2 DEF LocalInv, Executes, Undisturbed, ThreadStep, ThreadFrame, TriggerList
  <2>2. Notify("yield") \in pending' =>
          \E s \in Task : cur'[s].active /\ userPc'[s] = "yielded" /\ s \notin runUser'
    <3>1. CASE Notify("yield") \in pending
      <4>1. PICK s \in Task : cur[s].active /\ userPc[s] = "yielded" /\ s \notin runUser
        BY <2>0, <3>1 DEF PendingInv
      <4>2. s # t
        BY <2>1, <4>1
      <4>3. userPc'[s] = "yielded" /\ s \notin runUser'
        BY <1>2, <4>1, <4>2 DEF ThreadStep, LeavesTask
      <4> QED  BY <2>1, <4>1, <4>3
    <3>2. CASE Notify("yield") \in pending' \ pending
      <4>1. Notify("yield") # EndResponse(t) /\ Notify("yield") # Notify("user_event")
        BY DEF Notify, EndResponse
      <4>2. userPc'[t] = "yielded" /\ thread = t
        BY <1>1, <3>2, <4>1
      <4> QED  BY <2>1, <4>2
    <3> QED  BY <3>1, <3>2
  <2>3. Notify("user_event") \in pending' => \E s \in Task : cur'[s].active /\ Uses(s, "event_set")
    <3>1. CASE Notify("user_event") \in pending
      BY <2>0, <2>1, <3>1 DEF PendingInv
    <3>2. CASE Notify("user_event") \in pending' \ pending
      BY <1>1, <2>1, <3>2 DEF Notify, EndResponse
    <3> QED  BY <3>1, <3>2
  <2>4. (\E u \in Task : Release(u) \in pending') =>
          runFsm' = {} /\ pending' \cap TriggerList' \subseteq {Notify("yield"), Notify("tick_timer")}
    <3>1. \A u \in Task : Release(u) \in pending' => Release(u) \in pending
      BY <1>1 DEF Notify, Release, EndResponse
    <3>2. \A e \in pending' : e \in TriggerList => e \in pending \/ e = Notify("yield")
      <4>1. EndResponse(t) \notin TriggerList /\ Notify("user_event") \notin TriggerList
        BY DEF Regular, TriggerList, Notify, EndResponse
      <4> QED  BY <1>1, <4>1
    <3> QED  BY <2>0, <2>1, <3>1, <3>2 DEF PendingInv
  <2>5. TickDelay = 0 => tick' = 0 /\ Notify("tick_timer") \notin pending'
    <3>1. tick' = tick
      BY UserWritesLines DEF UserWrites, schedVars
    <3> QED  BY <1>1, <2>0, <3>1 DEF PendingInv, Notify, EndResponse
  <2> QED  BY <2>2, <2>3, <2>4, <2>5 DEF PendingInv
<1>7. SchedInv'
  <2>1. \A u \in Task : nxt'[u].active = nxt[u].active
    BY <1>2 DEF ThreadStep, ThreadFrame, LeavesTask
  <2>2. UNCHANGED <<cur, runSched, schedPc, current>>
    BY <1>1 DEF Undisturbed
  <2> QED  BY <2>1, <2>2 DEF PhaseInv, SchedInv, DispatchSeesPreemption
<1> QED  BY <1>4, <1>5, <1>6, <1>7 DEF PhaseInv

-----------------------------------------------------------------------------
\* A state machine that has run has written the state its lines call for.
LEMMA FsmSettles ==
  ASSUME TypeOK, NEW t \in Task, Woken(t), Executes(t), FinishedFlag(t), Fsm(t)
  PROVE  Settled(t)'
<1>1. nxt \in [Task -> Signals] /\ t # NoTask
  BY ConstantTypes DEF TypeOK
<1>2. \A s, E : FsmMove(t, s, E) =>
        nxt'[t].state = s /\ UNCHANGED <<cur, runUser, userPc>>
  BY <1>1 DEF FsmMove, taskVars, Signals
<1>3. \A s : FsmResumed(t, s) => cur[t].state = s /\ thread = NoTask
  BY DEF FsmResumed
<1>4. CASE ExecutingWaits(t)
  <2>1. PICK s : /\ s = CASE cur[t].wper /\ cur[t].active  -> "WAIT_PERIOD"
                          [] cur[t].wper /\ ~cur[t].active -> "INACTIVE_WAIT_PERIOD"
                          [] ~cur[t].wper /\ cur[t].active -> "WAIT_COMM_SYNC"
                          [] OTHER                         -> "INACTIVE_WAIT_COMM_SYNC"
                 /\ FsmMove(t, s, {"running_task_to_wait_state"})
    BY <1>4 DEF ExecutingWaits
  <2>2. nxt'[t].state = s /\ cur' = cur
    BY <1>2, <2>1
  <2>3. cur[t].wper \/ cur[t].wcom
    BY <1>4 DEF ExecutingWaits
  <2> QED  BY <2>1, <2>2, <2>3 DEF Settled
<1>5. CASE ExecutingCompletes(t)
  <2>1. nxt'[t].state = "FINISHED" /\ UNCHANGED <<cur, userPc>>
    BY <1>2, <1>5 DEF ExecutingCompletes
  <2>2. userPc[t] = "done"
    BY <1>1, <1>3, <1>5 DEF ExecutingCompletes, FinishedFlag, Executes, Woken
  <2> QED  BY <2>1, <2>2 DEF Settled
<1>6. CASE ExecutingStops(t)
  <2>1. nxt'[t].state = "READY" /\ UNCHANGED <<cur, runUser, userPc>>
    BY <1>2, <1>6 DEF ExecutingStops
  <2>2. /\ ~cur[t].wper /\ ~cur[t].wcom
        /\ cur[t].active => userPc[t] = "yielded" /\ t \notin runUser
    BY <1>3, <1>6 DEF ExecutingStops, Woken
  <2> QED  BY <2>1, <2>2 DEF Settled
<1>7. CASE ReadyActivated(t)
  <2>1. nxt'[t].state = "EXECUTING" /\ cur' = cur
    BY <1>2, <1>7 DEF ReadyActivated
  <2> QED  BY <1>3, <1>7, <2>1 DEF ReadyActivated, Woken, Settled
<1>8. CASE ActiveWaitEnds(t)
  <2>1. nxt'[t].state = "EXECUTING" /\ cur' = cur
    BY <1>2, <1>8 DEF ActiveWaitEnds
  <2>2. \/ cur[t].state = "WAIT_PERIOD" /\ ~cur[t].wper
        \/ cur[t].state = "WAIT_COMM_SYNC" /\ ~cur[t].wcom
    BY <1>3, <1>8 DEF ActiveWaitEnds, WaitKinds
  <2> QED  BY <2>1, <2>2 DEF Woken, Settled
<1>9. CASE ActiveWaitLosesProcessor(t)
  <2>1. /\ ~cur[t].active /\ cur' = cur
        /\ \/ nxt'[t].state = "INACTIVE_WAIT_PERIOD" /\ cur[t].wper
           \/ nxt'[t].state = "INACTIVE_WAIT_COMM_SYNC" /\ cur[t].wcom
    BY <1>2, <1>9 DEF ActiveWaitLosesProcessor, WaitKinds
  <2> QED  BY <2>1 DEF Settled
<1>10. CASE InactiveWaitEnds(t)
  <2>1. /\ cur' = cur
        /\ nxt'[t].state = IF cur[t].active THEN "EXECUTING" ELSE "READY"
    BY <1>2, <1>10 DEF InactiveWaitEnds
  <2>2. \/ cur[t].state = "INACTIVE_WAIT_PERIOD" /\ ~cur[t].wper
        \/ cur[t].state = "INACTIVE_WAIT_COMM_SYNC" /\ ~cur[t].wcom
    BY <1>3, <1>10 DEF InactiveWaitEnds, WaitKinds
  <2> QED  BY <2>1, <2>2 DEF Woken, Settled
<1>11. CASE InactiveWaitActivated(t)
  <2>1. /\ cur[t].active /\ cur' = cur
        /\ \/ nxt'[t].state = "WAIT_PERIOD" /\ cur[t].wper
           \/ nxt'[t].state = "WAIT_COMM_SYNC" /\ cur[t].wcom
    BY <1>2, <1>11 DEF InactiveWaitActivated, WaitKinds
  <2> QED  BY <2>1 DEF Settled
<1> QED  BY <1>4, <1>5, <1>6, <1>7, <1>8, <1>9, <1>10, <1>11 DEF Fsm

\* A step of a state machine is a step of its own task.
LEMMA FsmStep ==
  ASSUME TypeOK, NEW t \in Task, Fsm(t)
  PROVE  /\ t \in runFsm /\ runFsm' = runFsm \ {t}
         /\ UNCHANGED <<cur, runUser, runSched, thread, schedVars, taskVars>>
         /\ \A u \in Task \ {t} : nxt'[u] = nxt[u]
         /\ \A l \in {"active", "consumption", "wper", "wcom"} : nxt'[t][l] = nxt[t][l]
         /\ \E E \in SUBSET FsmEvents : pending' = pending \cup {Notify(e) : e \in E}
<1>1. nxt \in [Task -> Signals] /\ SignalsTyped
  BY DEF TypeOK, SignalsTyped
<1>2. t \in runFsm /\ UNCHANGED <<runUser, taskVars>>
  BY DEF Fsm, ExecutingWaits, ExecutingCompletes, ExecutingStops, ReadyActivated, ActiveWaitEnds,
         ActiveWaitLosesProcessor, InactiveWaitEnds, InactiveWaitActivated, FsmMove, FsmResumed
<1>3. /\ \E s \in States : nxt' = [nxt EXCEPT ![t].state = s]
      /\ runFsm' = runFsm \ {t}
      /\ UNCHANGED <<cur, thread, schedVars, runSched>>
      /\ \E E \in SUBSET FsmEvents : pending' = pending \cup {Notify(e) : e \in E}
  BY <1>1, FsmWrites
<1>4. PICK s \in States : nxt' = [nxt EXCEPT ![t].state = s]
  BY <1>3
<1>5. /\ \A u \in Task \ {t} : nxt'[u] = nxt[u]
      /\ \A l \in {"active", "consumption", "wper", "wcom"} : nxt'[t][l] = nxt[t][l]
  BY <1>1, <1>4 DEF Signals
<1> QED  BY <1>2, <1>3, <1>5

LEMMA PhaseFsm ==
  ASSUME TypeOK, PhaseInv, PenaltyRunning', NEW t \in Task, Fsm(t)
  PROVE  PhaseInv'
<1>1. /\ t \in runFsm /\ runFsm' = runFsm \ {t}
      /\ UNCHANGED <<cur, runUser, runSched, thread, schedPc, current, tick>>
      /\ UNCHANGED <<userPc, ip, burst, finished>>
      /\ \A u \in Task \ {t} : nxt'[u] = nxt[u]
      /\ \A l \in {"active", "consumption", "wper", "wcom"} : nxt'[t][l] = nxt[t][l]
      /\ \E E \in SUBSET FsmEvents : pending' = pending \cup {Notify(e) : e \in E}
  BY FsmStep DEF schedVars, taskVars
<1>2. /\ \A u \in Task : /\ nxt'[u].active = nxt[u].active
                         /\ nxt'[u].consumption = nxt[u].consumption
                         /\ nxt'[u].wper = nxt[u].wper /\ nxt'[u].wcom = nxt[u].wcom
      /\ pending \subseteq pending'
      /\ \A e \in pending' \ pending : \E x \in FsmEvents : e = Notify(x)
  BY <1>1
<1>3. ASSUME NEW u \in Task  PROVE TaskInv(u)'
  <2>0. TaskInv(u)
    BY DEF PhaseInv
  <2>1. LinesWritten(u)' /\ Executes(u)' /\ WokenThread(u)' /\ SeesActive(u)'
    BY <1>1, <1>2, <2>0 DEF TaskInv, LinesWritten, Executes, WokenThread, SeesActive
  <2>2. LinesChange(u)' /\ FinishedFlag(u)' /\ InScript(u)'
    BY <1>1, <1>2, <2>0 DEF TaskInv, LinesChange, FinishedFlag, InScript
  <2>3. YieldSeen(u)' /\ ReleaseKeepsProcessor(u)'
    BY <1>1, <1>2, <2>0 DEF TaskInv, YieldSeen, ReleaseKeepsProcessor
  <2>4. StateInv(u)'
    <3>1. CASE u = t
      <4>1. Settled(t)'
        BY <1>1, <2>0, <3>1, FsmSettles DEF TaskInv, StateInv
      <4> QED  BY <1>1, <3>1, <4>1 DEF StateInv
    <3>2. CASE u # t
      BY <1>1, <2>0, <3>2 DEF TaskInv, StateInv, Settled, Woken
    <3> QED  BY <3>1, <3>2
  <2> QED  BY <2>1, <2>2, <2>3, <2>4 DEF TaskInv
<1>4. PendingInv'
  <2>1. \A u \in Task : Release(u) \notin pending
    BY <1>1 DEF PhaseInv, PendingInv
  <2>2. \A e \in pending' \ pending :
          /\ e # Notify("yield") /\ e # Notify("user_event") /\ e # Notify("tick_timer")
          /\ \A u \in Task : e # Release(u)
    BY <1>2 DEF FsmEvents, Notify, Release
  <2> QED  BY <1>1, <1>2, <2>1, <2>2 DEF PhaseInv, PendingInv
<1>5. SchedInv'
  BY <1>1, <1>2 DEF PhaseInv, SchedInv, DispatchSeesPreemption
<1> QED  BY <1>3, <1>4, <1>5 DEF PhaseInv

-----------------------------------------------------------------------------
\* A step of scheduler_proc leaves the tasks alone, but for their active line.
SchedFrame ==
  /\ UNCHANGED <<cur, runFsm, runUser, thread, tick, userPc, ip, burst, finished>>
  /\ \A u \in Task : /\ nxt'[u].consumption = nxt[u].consumption /\ nxt'[u].wper = nxt[u].wper
                     /\ nxt'[u].wcom = nxt[u].wcom /\ nxt'[u].state = nxt[u].state
  /\ pending' \in {pending, pending \cup {Notify("zero_time")}}

LEMMA SchedFrameKept ==
  ASSUME Regular, SchedFrame, PhaseInv
  PROVE  /\ PendingInv'
         /\ \A u \in Task : YieldSeen(u)' /\ ReleaseKeepsProcessor(u)' => TaskInv(u)'
<1>1. PendingInv'
  <2>1. /\ TriggerList' = TriggerList
        /\ \A e \in {"yield", "user_event", "tick_timer"} : Notify("zero_time") # Notify(e)
        /\ \A u \in Task : Notify("zero_time") # Release(u)
    BY DEF TriggerList, Notify, Release
  <2>2. Notify("zero_time") \notin TriggerList
    BY Triggers DEF Notify
  <2> QED  BY <2>1, <2>2 DEF SchedFrame, PhaseInv, PendingInv
<1>2. ASSUME NEW u \in Task, YieldSeen(u)', ReleaseKeepsProcessor(u)'  PROVE TaskInv(u)'
  <2>1. TaskInv(u)
    BY DEF PhaseInv
  <2>2. LinesWritten(u)' /\ Executes(u)' /\ WokenThread(u)' /\ SeesActive(u)'
    BY <2>1 DEF SchedFrame, TaskInv, LinesWritten, Executes, WokenThread, SeesActive
  <2>3. LinesChange(u)' /\ FinishedFlag(u)' /\ InScript(u)' /\ StateInv(u)'
    BY <2>1 DEF SchedFrame, TaskInv, LinesChange, FinishedFlag, InScript, StateInv, Settled, Woken
  <2> QED  BY <1>2, <2>2, <2>3 DEF TaskInv
<1> QED  BY <1>1, <1>2

\* A trigger finds no task that must keep the processor.
LEMMA PhaseResume ==
  ASSUME Regular, TypeOK, ExclusiveInv, PhaseInv, PenaltyRunning', SchedResume
  PROVE  PhaseInv'
<1>1. /\ runSched /\ schedPc \in {"start", "idle"} /\ ~runSched'
      /\ nxt' = IF current = NoTask THEN nxt ELSE [nxt EXCEPT ![current].active = FALSE]
      /\ UNCHANGED <<cur, runFsm, runUser, thread, current, tick, taskVars>>
      /\ pending' \in {pending, pending \cup {Notify("zero_time")}}
      /\ schedPc' \in {"penalty", "first_delta"}
  BY DEF SchedResume, Regular
<1>2. nxt \in [Task -> Signals] /\ NoTask \notin Task /\ current \in Task \cup {NoTask}
  BY ConstantTypes DEF TypeOK
<1>3. SchedFrame
  BY <1>1, <1>2 DEF SchedFrame, taskVars, Signals
<1>4. ASSUME NEW u \in Task  PROVE ~nxt'[u].active
  <2>1. nxt[u].active => u = current
    BY DEF ExclusiveInv, ActiveIsCurrent
  <2> QED  BY <1>1, <1>2, <2>1 DEF Signals
<1>5. ASSUME NEW u \in Task  PROVE YieldSeen(u)' /\ ReleaseKeepsProcessor(u)'
  <2>1. YieldSeen(u)'
    BY <1>4 DEF YieldSeen
  <2>2. ReleaseKeepsProcessor(u)'
    <3>1. schedPc = "start" => ~cur[u].active
      BY <1>2 DEF PhaseInv, SchedInv, ExclusiveInv, ActiveIsCurrent
    <3>2. TaskInv(u)
      BY DEF PhaseInv
    <3> QED  BY <1>1, <1>3, <3>1, <3>2 DEF TaskInv, ReleaseKeepsProcessor, SchedFrame
  <2> QED  BY <2>1, <2>2
<1>6. SchedInv'
  BY <1>1 DEF SchedInv, DispatchSeesPreemption
<1> QED  BY <1>3, <1>5, <1>6, SchedFrameKept DEF PhaseInv

LEMMA PhaseSecondDelta ==
  ASSUME Regular, TypeOK, ExclusiveInv, PhaseInv, PenaltyRunning', SchedSecondDelta
  PROVE  PhaseInv'
<1>1. /\ runSched /\ schedPc = "first_delta" /\ ~runSched' /\ schedPc' = "last_delta"
      /\ UNCHANGED <<cur, nxt, runFsm, runUser, thread, current, tick, taskVars>>
      /\ pending' = pending \cup {Notify("zero_time")}
  BY DEF SchedSecondDelta
<1>2. \A u \in Task : ~cur[u].active
  BY <1>1 DEF ExclusiveInv, ProcessorWithdrawn, Withdrawing
<1>3. SchedFrame
  BY <1>1 DEF SchedFrame, taskVars
<1>4. ASSUME NEW u \in Task  PROVE YieldSeen(u)' /\ ReleaseKeepsProcessor(u)'
  BY <1>1, <1>2 DEF YieldSeen, ReleaseKeepsProcessor
<1>5. SchedInv'
  BY <1>1, <1>2 DEF SchedInv, DispatchSeesPreemption
<1> QED  BY <1>3, <1>4, <1>5, SchedFrameKept DEF PhaseInv

LEMMA PhaseDispatch ==
  ASSUME Regular, TypeOK, ExclusiveInv, PhaseInv, PenaltyRunning', SchedDispatch
  PROVE  PhaseInv'
<1>1. /\ runSched /\ schedPc \in {"last_delta", "penalty"} /\ ~runSched' /\ schedPc' = "idle"
      /\ nxt' = [nxt EXCEPT ![Dispatched.task].active = TRUE] /\ current' = Dispatched.task
      /\ UNCHANGED <<cur, runFsm, runUser, thread, pending, tick, taskVars>>
  BY DEF SchedDispatch
<1>2. nxt \in [Task -> Signals] /\ Dispatched.task \in Task
  BY PositionsType DEF TypeOK
<1>3. \A u \in Task : ~cur[u].active
  BY <1>1 DEF ExclusiveInv, ProcessorWithdrawn, Withdrawing
<1>4. SchedFrame
  BY <1>1, <1>2 DEF SchedFrame, taskVars, Signals
<1>5. ASSUME NEW u \in Task  PROVE YieldSeen(u)' /\ ReleaseKeepsProcessor(u)'
  BY <1>1, <1>3 DEF YieldSeen, ReleaseKeepsProcessor
<1>6. SchedInv'
  <2>1. current' \in Task /\ nxt'[current'].active
    BY <1>1, <1>2 DEF Signals
  <2> QED  BY <1>1, <2>1 DEF SchedInv, DispatchSeesPreemption
<1> QED  BY <1>4, <1>5, <1>6, SchedFrameKept DEF PhaseInv

-----------------------------------------------------------------------------
Lines == {"active", "consumption", "wper", "wcom"}

\* What fires is an edge of a line, or has been notified.
LEMMA EdgesFired ==
  ASSUME PendingNotified
  PROVE  /\ \A t \in Task : \A l \in Lines :
              /\ Pos(l, t) \in Fired <=> ~cur[t][l] /\ nxt[t][l]
              /\ Neg(l, t) \in Fired <=> cur[t][l] /\ ~nxt[t][l]
         /\ \A e : Notify(e) \in Fired <=> Notify(e) \in pending
         /\ \A t : Release(t) \in Fired <=> Release(t) \in pending
<1>1. ASSUME NEW t \in Task, NEW l \in Lines
      PROVE  /\ Pos(l, t) \in Fired <=> ~cur[t][l] /\ nxt[t][l]
             /\ Neg(l, t) \in Fired <=> cur[t][l] /\ ~nxt[t][l]
  <2>1. Pos(l, t) \notin pending /\ Neg(l, t) \notin pending
    BY DEF PendingNotified, Pos, Neg
  <2>2. <<l, t>> \in {"active", "consumption", "wper", "wcom"} \X Task
    BY DEF Lines
  <2>3. ASSUME ~cur[t][l], nxt[t][l]  PROVE Pos(l, t) \in Fired
    BY <2>2, <2>3 DEF Fired
  <2>4. ASSUME cur[t][l], ~nxt[t][l]  PROVE Neg(l, t) \in Fired
    BY <2>2, <2>4 DEF Fired
  <2>5. ASSUME Pos(l, t) \in Fired  PROVE ~cur[t][l] /\ nxt[t][l]
    BY <2>1, <2>5 DEF Fired, Pos, Neg
  <2>6. ASSUME Neg(l, t) \in Fired  PROVE cur[t][l] /\ ~nxt[t][l]
    BY <2>1, <2>6 DEF Fired, Pos, Neg
  <2> QED  BY <2>3, <2>4, <2>5, <2>6
<1>2. ASSUME NEW e  PROVE Notify(e) \in Fired <=> Notify(e) \in pending
  BY DEF Fired, Pos, Neg, Notify
<1>3. ASSUME NEW t  PROVE Release(t) \in Fired <=> Release(t) \in pending
  BY DEF Fired, Pos, Neg, Release
<1> QED  BY <1>1, <1>2, <1>3

Rises(l, t) == ~cur[t][l] /\ nxt[t][l]
Falls(l, t) == cur[t][l] /\ ~nxt[t][l]

\* What the delta cycle wakes.
LEMMA DeltaWakes ==
  ASSUME Regular, TypeOK, PendingNotified, DeltaCycle
  PROVE  /\ \A t \in Task :
              /\ t \in runUser' <=>
                   \/ userPc[t] \in {"dormant", "consume_guard", "yielded", "guard"} /\ Rises("active", t)
                   \/ userPc[t] = "consuming" /\ Falls("active", t)
                   \/ userPc[t] = "wait_release" /\ Release(t) \in pending
                   \/ userPc[t] = "event_wait" /\ Notify("user_event") \in pending
              /\ t \in runFsm' <=>
                   LET s == nxt[t].state
                   IN  \/ s \in {"READY", "INACTIVE_WAIT_PERIOD", "INACTIVE_WAIT_COMM_SYNC"} /\ Rises("active", t)
                       \/ s \in {"EXECUTING", "WAIT_PERIOD", "WAIT_COMM_SYNC"} /\ Falls("active", t)
                       \/ s = "EXECUTING" /\ (Falls("consumption", t) \/ Rises("wper", t) \/ Rises("wcom", t))
                       \/ s \in {"WAIT_PERIOD", "INACTIVE_WAIT_PERIOD"} /\ Falls("wper", t)
                       \/ s \in {"WAIT_COMM_SYNC", "INACTIVE_WAIT_COMM_SYNC"} /\ Falls("wcom", t)
         /\ schedPc = "idle" => (runSched' <=> pending \cap TriggerList # {})
         /\ schedPc = "penalty" => ~runSched'
<1>1. /\ runSched' = (SchedSensitivity \cap Fired # {})
      /\ runFsm' = {t \in Task : FsmSensitivity(t, nxt[t].state) \cap Fired # {}}
      /\ runUser' = {t \in Task : UserSensitivity(t) \cap Fired # {}}
  BY DEF DeltaCycle
<1>2. ASSUME NEW t \in Task
      PROVE  /\ Pos("active", t) \in Fired <=> Rises("active", t)
             /\ Pos("wper", t) \in Fired <=> Rises("wper", t)
             /\ Pos("wcom", t) \in Fired <=> Rises("wcom", t)
             /\ Neg("active", t) \in Fired <=> Falls("active", t)
             /\ Neg("consumption", t) \in Fired <=> Falls("consumption", t)
             /\ Neg("wper", t) \in Fired <=> Falls("wper", t)
             /\ Neg("wcom", t) \in Fired <=> Falls("wcom", t)
  BY EdgesFired DEF Lines, Rises, Falls
<1>3. /\ Notify("user_event") \in Fired <=> Notify("user_event") \in pending
      /\ \A t : Release(t) \in Fired <=> Release(t) \in pending
  BY EdgesFired
<1>4. ASSUME NEW t \in Task
      PROVE  t \in runUser' <=>
               \/ userPc[t] \in {"dormant", "consume_guard", "yielded", "guard"} /\ Rises("active", t)
               \/ userPc[t] = "consuming" /\ Falls("active", t)
               \/ userPc[t] = "wait_release" /\ Release(t) \in pending
               \/ userPc[t] = "event_wait" /\ Notify("user_event") \in pending
  <2>1. userPc[t] \in UserPcs
    BY DEF TypeOK
  <2> QED  BY <1>1, <1>2, <1>3, <2>1 DEF UserSensitivity, UserPcs, Regular
<1>5. ASSUME NEW t \in Task
      PROVE  t \in runFsm' <=>
               LET s == nxt[t].state
               IN  \/ s \in {"READY", "INACTIVE_WAIT_PERIOD", "INACTIVE_WAIT_COMM_SYNC"} /\ Rises("active", t)
                   \/ s \in {"EXECUTING", "WAIT_PERIOD", "WAIT_COMM_SYNC"} /\ Falls("active", t)
                   \/ s = "EXECUTING" /\ (Falls("consumption", t) \/ Rises("wper", t) \/ Rises("wcom", t))
                   \/ s \in {"WAIT_PERIOD", "INACTIVE_WAIT_PERIOD"} /\ Falls("wper", t)
                   \/ s \in {"WAIT_COMM_SYNC", "INACTIVE_WAIT_COMM_SYNC"} /\ Falls("wcom", t)
  <2>1. nxt[t].state \in States
    BY DEF TypeOK, Signals
  <2> QED  BY <1>1, <1>2, <2>1 DEF FsmSensitivity, States
<1>6. schedPc = "idle" => (runSched' <=> pending \cap TriggerList # {})
  <2>1. SUFFICES ASSUME schedPc = "idle"  PROVE runSched' <=> pending \cap TriggerList # {}
    OBVIOUS
  <2>3. \A e \in TriggerList : e \in Fired <=> e \in pending
    BY Triggers, EdgesFired
  <2> QED  BY <1>1, <2>1, <2>3 DEF SchedSensitivity
<1>7. schedPc = "penalty" => ~runSched'
  BY <1>1 DEF SchedSensitivity
<1> QED  BY <1>4, <1>5, <1>6, <1>7

\* The hypotheses of the lemmas on the delta cycle: the evaluate phase is over.
PhaseOver ==
  /\ Regular /\ TypeOK /\ ExclusiveInv /\ PendingNotified /\ PhaseInv
  /\ \A t \in Task : ConsumeInv(t)
  /\ DeltaCycle

LEMMA DeltaFrame ==
  ASSUME PhaseOver
  PROVE  /\ thread = NoTask /\ ~runSched /\ runFsm = {} /\ runUser = {} /\ NoTask \notin Task
         /\ cur' = nxt /\ nxt' = nxt /\ pending' = {}
         /\ UNCHANGED <<thread, schedPc, current, tick, userPc, ip, burst, finished>>
         /\ \A t \in Task : TaskInv(t) /\ Settled(t)
BY ConstantTypes
   DEF PhaseOver, DeltaCycle, EvaluationOver, schedVars, taskVars, PhaseInv, TaskInv, StateInv

\* A task that is to be active is the current one, and the scheduler waits.
LEMMA HolderIsCurrent ==
  ASSUME PhaseOver, NEW t \in Task, nxt[t].active \/ cur[t].active
  PROVE  t = current /\ (nxt[t].active => schedPc = "idle")
<1>1. t = current
  BY DEF PhaseOver, ExclusiveInv, ActiveIsCurrent
<1>2. nxt[t].active => schedPc \notin {"first_delta", "last_delta", "penalty"}
  BY DEF PhaseOver, ExclusiveInv, ProcessorWithdrawn, Withdrawing
<1>3. schedPc # "start"
  BY <1>1, DeltaFrame DEF PhaseOver, PhaseInv, SchedInv
<1> QED  BY <1>1, <1>2, <1>3 DEF PhaseOver, TypeOK, SchedPcs

LEMMA DeltaThread ==
  ASSUME PhaseOver, NEW t \in Task
  PROVE  /\ LinesWritten(t)' /\ Executes(t)' /\ WokenThread(t)' /\ SeesActive(t)'
         /\ LinesChange(t)' /\ FinishedFlag(t)' /\ InScript(t)'
<1>0. /\ thread = NoTask /\ runUser = {} /\ t # NoTask
      /\ cur' = nxt /\ nxt' = nxt
      /\ UNCHANGED <<thread, userPc, ip, burst, finished>>
      /\ TaskInv(t)
  BY DeltaFrame
<1>1. t \in runUser' <=>
        \/ userPc[t] \in {"dormant", "consume_guard", "yielded", "guard"} /\ Rises("active", t)
        \/ userPc[t] = "consuming" /\ Falls("active", t)
        \/ userPc[t] = "wait_release" /\ Release(t) \in pending
        \/ userPc[t] = "event_wait" /\ Notify("user_event") \in pending
  BY DeltaWakes DEF PhaseOver
<1>2. LinesWritten(t)' /\ Executes(t)' /\ FinishedFlag(t)' /\ InScript(t)'
  BY <1>0 DEF TaskInv, LinesWritten, Executes, FinishedFlag, InScript
<1>3. SeesActive(t)'
  BY <1>0, <1>1 DEF TaskInv, SeesActive, Rises
<1>4. LinesChange(t)'
  BY <1>0 DEF TaskInv, LinesWritten, LinesChange, CommWaits
<1>5. WokenThread(t)'
  <2>1. userPc[t] = "event_wait" /\ t \in runUser' => ~nxt[t].active
    <3>1. SUFFICES ASSUME userPc[t] = "event_wait", Notify("user_event") \in pending, nxt[t].active
                   PROVE  FALSE
      BY <1>1
    <3>2. PICK s \in Task : cur[s].active /\ Uses(s, "event_set")
      BY <3>1 DEF PhaseOver, PhaseInv, PendingInv
    <3>3. s = t
      BY <3>1, <3>2, HolderIsCurrent
    <3>4. Uses(t, "event_wait")
      BY <1>0, <3>1 DEF TaskInv, InScript
    <3> QED  BY <3>2, <3>3, <3>4 DEF PhaseOver, Regular
  <2>2. userPc[t] = "consuming" => burst[t] # 0
    BY <1>0 DEF PhaseOver, ConsumeInv
  <2> QED  BY <1>0, <1>1, <2>1, <2>2 DEF WokenThread, Rises, Falls, CommWaits
<1> QED  BY <1>2, <1>3, <1>4, <1>5

LEMMA DeltaTrigger ==
  ASSUME PhaseOver, NEW t \in Task
  PROVE  YieldSeen(t)' /\ ReleaseKeepsProcessor(t)'
<1>0. /\ thread = NoTask /\ runUser = {} /\ ~runSched
      /\ cur' = nxt /\ nxt' = nxt /\ pending' = {}
      /\ UNCHANGED <<schedPc, userPc>>
      /\ TaskInv(t)
  BY DeltaFrame
<1>1. t \in runUser' <=>
        \/ userPc[t] \in {"dormant", "consume_guard", "yielded", "guard"} /\ Rises("active", t)
        \/ userPc[t] = "consuming" /\ Falls("active", t)
        \/ userPc[t] = "wait_release" /\ Release(t) \in pending
        \/ userPc[t] = "event_wait" /\ Notify("user_event") \in pending
  BY DeltaWakes DEF PhaseOver
<1>2. schedPc = "idle" => (runSched' <=> pending \cap TriggerList # {})
  BY DeltaWakes DEF PhaseOver
<1>3. YieldSeen(t)'
  <2>1. SUFFICES ASSUME userPc[t] = "yielded", nxt[t].active, t \notin runUser'
                 PROVE  runSched' /\ schedPc = "idle"
    BY <1>0 DEF YieldSeen
  <2>2. cur[t].active
    BY <1>1, <2>1 DEF Rises
  <2>3. Notify("yield") \in pending
    BY <1>0, <2>1, <2>2 DEF TaskInv, YieldSeen
  <2>4. Notify("yield") \in TriggerList
    BY Triggers DEF PhaseOver
  <2>5. schedPc = "idle"
    BY <2>1, HolderIsCurrent
  <2> QED  BY <1>2, <2>3, <2>4, <2>5
<1>4. ReleaseKeepsProcessor(t)'
  <2>1. SUFFICES ASSUME nxt[t].active, userPc[t] = "wait_release", Release(t) \in pending,
                        runSched', schedPc = "idle"
                 PROVE  FALSE
    BY <1>0, <1>1 DEF ReleaseKeepsProcessor
  <2>2. pending \cap TriggerList \subseteq {Notify("yield"), Notify("tick_timer")}
    BY <2>1 DEF PhaseOver, PhaseInv, PendingInv
  <2>3. CASE Notify("yield") \in pending
    <3>1. PICK s \in Task : cur[s].active /\ userPc[s] = "yielded"
      BY <2>3 DEF PhaseOver, PhaseInv, PendingInv
    <3>2. s = t
      BY <2>1, <3>1, HolderIsCurrent
    <3> QED  BY <2>1, <3>1, <3>2
  <2>4. CASE Notify("tick_timer") \in pending
    <3>1. TickDelay > 0
      BY <2>4, ConstantTypes DEF PhaseOver, PhaseInv, PendingInv
    <3>2. Uses(t, "wait_period")
      BY <1>0, <2>1 DEF TaskInv, InScript, Uses
    <3> QED  BY <3>1, <3>2 DEF PhaseOver, Regular
  <2> QED  BY <1>2, <2>1, <2>2, <2>3, <2>4
<1> QED  BY <1>3, <1>4

\* A machine that the delta cycle wakes finds what its state calls for, and one
\* that it does not wake keeps a state its lines still call for.
LEMMA DeltaState ==
  ASSUME PhaseOver, NEW t \in Task
  PROVE  StateInv(t)'
<1> DEFINE s == nxt[t].state
<1>0. /\ thread = NoTask /\ runUser = {} /\ t # NoTask
      /\ cur' = nxt /\ nxt' = nxt
      /\ UNCHANGED <<userPc, finished>>
      /\ TaskInv(t) /\ Settled(t)
      /\ userPc[t] \in UserPcs /\ s \in States
  BY DeltaFrame DEF PhaseOver, TypeOK, Signals
<1>1. t \in runUser' <=>
        \/ userPc[t] \in {"dormant", "consume_guard", "yielded", "guard"} /\ Rises("active", t)
        \/ userPc[t] = "consuming" /\ Falls("active", t)
        \/ userPc[t] = "wait_release" /\ Release(t) \in pending
        \/ userPc[t] = "event_wait" /\ Notify("user_event") \in pending
  BY DeltaWakes DEF PhaseOver
<1>2. t \in runFsm' <=>
        \/ s \in {"READY", "INACTIVE_WAIT_PERIOD", "INACTIVE_WAIT_COMM_SYNC"} /\ Rises("active", t)
        \/ s \in {"EXECUTING", "WAIT_PERIOD", "WAIT_COMM_SYNC"} /\ Falls("active", t)
        \/ s = "EXECUTING" /\ (Falls("consumption", t) \/ Rises("wper", t) \/ Rises("wcom", t))
        \/ s \in {"WAIT_PERIOD", "INACTIVE_WAIT_PERIOD"} /\ Falls("wper", t)
        \/ s \in {"WAIT_COMM_SYNC", "INACTIVE_WAIT_COMM_SYNC"} /\ Falls("wcom", t)
  BY DeltaWakes DEF PhaseOver
<1>3. LinesChange(t) /\ LinesWritten(t) /\ SeesActive(t) /\ FinishedFlag(t)
      /\ ReleaseKeepsProcessor(t) /\ Executes(t)
  BY <1>0 DEF TaskInv
<1> USE DEF Rises, Falls
<1>4. ASSUME t \in runFsm'  PROVE Woken(t)'
  <2>1. s # "FINISHED"
    BY <1>2, <1>4
  <2>2. s = "READY" => nxt[t].active /\ ~nxt[t].wper /\ ~nxt[t].wcom
    BY <1>0, <1>2, <1>3, <1>4 DEF Settled, LinesChange
  <2>3. s = "WAIT_PERIOD" /\ ~nxt[t].wper => nxt[t].active /\ ~nxt[t].wcom
    BY <1>0, <1>3 DEF Settled, LinesChange, ReleaseKeepsProcessor
  <2>4. s = "WAIT_COMM_SYNC" => ~nxt[t].active /\ nxt[t].wcom
    BY <1>0, <1>2, <1>3, <1>4 DEF Settled, LinesChange
  <2>5. s = "INACTIVE_WAIT_PERIOD" /\ ~nxt[t].wper => ~nxt[t].wcom
    BY <1>0, <1>3 DEF Settled, LinesChange
  <2>6. s = "INACTIVE_WAIT_COMM_SYNC" /\ ~nxt[t].wcom => ~nxt[t].wper
    BY <1>0, <1>3 DEF Settled, LinesChange
  <2>7. s = "EXECUTING" /\ ~nxt[t].wper /\ ~nxt[t].wcom =>
          /\ userPc[t] # "guard"
          /\ nxt[t].active => /\ ~nxt[t].consumption /\ t \notin runUser'
                              /\ userPc[t] = "yielded" \/ (userPc[t] = "done" /\ finished[t])
    <3>1. SUFFICES ASSUME s = "EXECUTING", ~nxt[t].wper, ~nxt[t].wcom
                   PROVE  /\ userPc[t] # "guard"
                          /\ nxt[t].active => /\ ~nxt[t].consumption /\ t \notin runUser'
                                              /\ userPc[t] = "yielded" \/ (userPc[t] = "done" /\ finished[t])
      OBVIOUS
    <3>2. cur[t].active /\ ~cur[t].wper /\ ~cur[t].wcom
      BY <1>0, <3>1 DEF Settled
    <3>3. userPc[t] \notin {"dormant", "guard", "consume_guard"}
      BY <1>0, <1>3, <3>2 DEF SeesActive
    <3>4. ASSUME nxt[t].active
          PROVE  /\ ~nxt[t].consumption /\ t \notin runUser'
                 /\ userPc[t] = "yielded" \/ (userPc[t] = "done" /\ finished[t])
      <4>1. cur[t].consumption /\ ~nxt[t].consumption
        BY <1>2, <1>4, <3>1, <3>2, <3>4
      <4>2. userPc[t] \in {"yielded", "done"}
        BY <1>0, <1>3, <3>1, <3>3, <4>1 DEF LinesWritten, Executes, CommWaits, UserPcs
      <4>3. userPc[t] = "done" => finished[t]
        BY <1>3, <4>1 DEF FinishedFlag
      <4> QED  BY <1>1, <3>2, <4>1, <4>2, <4>3
    <3> QED  BY <3>3, <3>4
  <2> QED  BY <1>0, <2>1, <2>2, <2>3, <2>4, <2>5, <2>6, <2>7 DEF Woken
<1>5. ASSUME t \notin runFsm'  PROVE Settled(t)'
  <2>1. s = "EXECUTING" => nxt[t].active /\ ~nxt[t].wper /\ ~nxt[t].wcom
    BY <1>0, <1>2, <1>5 DEF Settled
  <2>2. s = "READY" => /\ ~nxt[t].wper /\ ~nxt[t].wcom
                       /\ nxt[t].active => userPc[t] = "yielded" /\ t \notin runUser'
    <3>1. SUFFICES ASSUME s = "READY"
                   PROVE  /\ ~nxt[t].wper /\ ~nxt[t].wcom
                          /\ nxt[t].active => userPc[t] = "yielded" /\ t \notin runUser'
      OBVIOUS
    <3>2. ~cur[t].wper /\ ~cur[t].wcom /\ (cur[t].active => userPc[t] = "yielded")
      BY <1>0, <3>1 DEF Settled
    <3>3. nxt[t].active => cur[t].active
      BY <1>2, <1>5, <3>1
    <3>4. ~nxt[t].wper /\ ~nxt[t].wcom
      BY <1>3, <3>2 DEF LinesChange, LinesWritten, CommWaits
    <3> QED  BY <1>1, <3>2, <3>3, <3>4
  <2>3. /\ s = "WAIT_PERIOD" => nxt[t].active /\ nxt[t].wper
        /\ s = "WAIT_COMM_SYNC" => nxt[t].active /\ nxt[t].wcom
        /\ s = "INACTIVE_WAIT_PERIOD" => ~nxt[t].active /\ nxt[t].wper
        /\ s = "INACTIVE_WAIT_COMM_SYNC" => ~nxt[t].active /\ nxt[t].wcom
        /\ s = "FINISHED" => userPc[t] = "done"
    BY <1>0, <1>2, <1>5 DEF Settled
  <2> QED  BY <1>0, <2>1, <2>2, <2>3 DEF Settled
<1> QED  BY <1>4, <1>5 DEF StateInv

LEMMA PhaseDelta ==
  ASSUME PhaseOver, PenaltyRunning'
  PROVE  PhaseInv'
<1>0. /\ cur' = nxt /\ nxt' = nxt /\ pending' = {}
      /\ UNCHANGED <<schedPc, current, tick>>
      /\ \A t \in Task : Settled(t)
  BY DeltaFrame
<1>1. \A t \in Task : TaskInv(t)'
  BY DeltaThread, DeltaTrigger, DeltaState DEF TaskInv
<1>2. PendingInv'
  BY <1>0 DEF PhaseOver, PhaseInv, PendingInv
<1>3. SchedInv'
  <2>1. SchedInv
    BY DEF PhaseOver, PhaseInv
  <2>2. schedPc = "last_delta" => \A t \in Task : ~nxt[t].active
    BY DEF PhaseOver, ExclusiveInv, ProcessorWithdrawn, Withdrawing
  <2>3. schedPc = "last_delta" => \A t \in Task : nxt[t].state \notin HoldsProcessor
    BY <1>0, <2>1 DEF SchedInv, Settled, HoldsProcessor
  <2>4. schedPc = "penalty" => ~runSched'
    BY DeltaWakes DEF PhaseOver
  <2> QED  BY <1>0, <2>1, <2>2, <2>3, <2>4 DEF SchedInv, DispatchSeesPreemption, HoldsProcessor
<1> QED  BY <1>1, <1>2, <1>3 DEF PhaseInv

\* Time passes only when every thread and every machine waits for what its task
\* will be told: what the timeouts wake are threads that consume, and the
\* scheduler at the end of its scheduling time.
LEMMA PhaseTime ==
  ASSUME TypeOK, ExclusiveInv, \A u \in Task : ConsumeInv(u), PhaseInv, PenaltyRunning', AdvanceTime
  PROVE  PhaseInv'
<1> DEFINE d == Least(Timeouts)
<1>1. /\ thread = NoTask /\ ~runSched /\ runFsm = {} /\ runUser = {} /\ pending = {} /\ nxt = cur
      /\ UNCHANGED <<cur, nxt, runFsm, thread, schedPc, current, userPc, ip, finished>>
  BY DEF AdvanceTime, Quiescent, EvaluationOver
<1>2. d \in Nat /\ d > 0
  BY TimePasses DEF AdvanceTime
<1>3. /\ burst' = [t \in Task |-> IF burst[t] = 0 THEN 0 ELSE burst[t] - d]
      /\ runUser' = {t \in Task : burst[t] = d}
      /\ runSched' = (penalty = d)
      /\ tick' = IF tick = d THEN TickDelay ELSE IF tick = 0 THEN 0 ELSE tick - d
      /\ pending' = {Release(t) : t \in {u \in Task : release[u] = d}}
                      \cup IF tick = d THEN {Notify("tick_timer")} ELSE {}
  BY DEF AdvanceTime
<1> HIDE DEF d
<1>4. ASSUME NEW t \in Task, t \in runUser'
      PROVE  userPc[t] = "consuming" /\ cur[t].active /\ burst'[t] = 0
  <2>1. burst[t] \in Nat /\ burst[t] = d
    BY <1>3, <1>4 DEF TypeOK
  <2>2. userPc[t] = "consuming" /\ cur[t].active
    BY <1>1, <1>2, <2>1 DEF ConsumeInv
  <2> QED  BY <1>2, <1>3, <2>1, <2>2
<1>5. runSched' => schedPc = "penalty"
  <2>1. PICK p \in Nat : p = penalty
    BY DEF TypeOK
  <2> QED  BY <1>2, <1>3, <2>1 DEF PhaseInv, PenaltyRunning
<1>6. ASSUME NEW t \in Task  PROVE TaskInv(t)'
  <2>0. TaskInv(t) /\ Settled(t)
    BY <1>1 DEF PhaseInv, TaskInv, StateInv
  <2>1. LinesWritten(t)' /\ Executes(t)' /\ LinesChange(t)' /\ FinishedFlag(t)' /\ InScript(t)'
    BY <1>1, <2>0 DEF TaskInv, LinesWritten, Executes, LinesChange, FinishedFlag, InScript
  <2>2. WokenThread(t)'
    BY <1>1, <1>4 DEF WokenThread, CommWaits
  <2>3. SeesActive(t)' /\ YieldSeen(t)' /\ ReleaseKeepsProcessor(t)'
    BY <1>1, <1>4, <2>0 DEF TaskInv, SeesActive, YieldSeen, ReleaseKeepsProcessor
  <2>4. StateInv(t)'
    BY <1>1, <1>4, <2>0 DEF StateInv, Settled
  <2> QED  BY <2>1, <2>2, <2>3, <2>4 DEF TaskInv
<1>7. PendingInv'
  <2>1. TickDelay = 0 => tick = 0 /\ tick # d
    BY <1>2 DEF PhaseInv, PendingInv
  <2>2. /\ Notify("yield") \notin pending' /\ Notify("user_event") \notin pending'
        /\ pending' \cap TriggerList' \subseteq {Notify("tick_timer")}
    <3>1. \A t \in Task : Release(t) \notin TriggerList
      BY SchedulingAssumption DEF TriggerList, Notify, Release, Preemptive
    <3>2. TriggerList' = TriggerList
      BY DEF TriggerList
    <3> QED  BY <1>3, <3>1, <3>2 DEF Notify, Release
  <2>3. TickDelay = 0 => tick' = 0 /\ Notify("tick_timer") \notin pending'
    BY <1>3, <2>1 DEF Notify, Release
  <2> QED  BY <1>1, <2>2, <2>3 DEF PendingInv
<1>8. SchedInv'
  <2>1. ASSUME schedPc = "penalty", NEW t \in Task  PROVE cur[t].state \notin HoldsProcessor
    <3>1. ~cur[t].active
      BY <1>1, <2>1 DEF ExclusiveInv, ProcessorWithdrawn, Withdrawing
    <3>2. Settled(t)
      BY <1>1 DEF PhaseInv, TaskInv, StateInv
    <3> QED  BY <1>1, <3>1, <3>2 DEF Settled, HoldsProcessor
  <2> QED  BY <1>1, <1>5, <2>1 DEF PhaseInv, SchedInv, DispatchSeesPreemption, HoldsProcessor
<1> QED  BY <1>6, <1>7, <1>8 DEF PhaseInv

-----------------------------------------------------------------------------
LEMMA PhaseInit == Init => PhaseInv
<1> SUFFICES ASSUME Init  PROVE PhaseInv
  OBVIOUS
<1>1. /\ cur = [t \in Task |-> [active |-> FALSE, consumption |-> FALSE, wper |-> FALSE,
                                wcom |-> FALSE, state |-> "READY"]]
      /\ nxt = cur /\ runFsm = {} /\ runUser = {} /\ thread = NoTask /\ NoTask \notin Task
      /\ schedPc = "start" /\ current = NoTask /\ penalty = 0 /\ tick = TickDelay
      /\ userPc = [t \in Task |-> "dormant"] /\ finished = [t \in Task |-> FALSE]
      /\ pending = IF TickDelay > 0 THEN {Notify("tick_timer")} ELSE {}
  BY ConstantTypes DEF Init
<1>2. ASSUME NEW t \in Task  PROVE TaskInv(t)
  BY <1>1 DEF TaskInv, LinesWritten, Executes, WokenThread, SeesActive, LinesChange, FinishedFlag,
              YieldSeen, ReleaseKeepsProcessor, StateInv, Settled, InScript, CommWaits
<1>3. PendingInv
  BY <1>1, ConstantTypes DEF PendingInv, Notify, Release
<1>4. SchedInv /\ PenaltyRunning
  BY <1>1 DEF SchedInv, DispatchSeesPreemption, PenaltyRunning
<1> QED  BY <1>2, <1>3, <1>4 DEF PhaseInv

LEMMA PhaseNext ==
  ASSUME Regular, TypeOK, ExclusiveInv, PendingNotified, \A u \in Task : ConsumeInv(u), PhaseInv, Next
  PROVE  PhaseInv'
<1>1. PenaltyRunning'
  BY PenaltyNext DEF PhaseInv
<1>2. DeltaCycle => PhaseInv'
  BY <1>1, PhaseDelta DEF PhaseOver
<1>3. AdvanceTime => PhaseInv'
  BY <1>1, PhaseTime
<1>4. SchedResume \/ SchedSecondDelta \/ SchedDispatch => PhaseInv'
  BY <1>1, PhaseResume, PhaseSecondDelta, PhaseDispatch
<1>5. \A t \in Task : Fsm(t) \/ User(t) => PhaseInv'
  BY <1>1, PhaseFsm, PhaseUser
<1> QED  BY <1>2, <1>3, <1>4, <1>5 DEF Next

LEMMA PhaseAlways == Regular /\ Spec => []PhaseInv
<1> DEFINE Inv == Regular /\ PhaseInv
           Known == TypeOK /\ ExclusiveInv /\ WokenInv /\ EachConsume
<1>1. Regular /\ Init => Inv
  BY PhaseInit
<1>2. Known /\ Inv /\ Next => Inv'
  <2> SUFFICES ASSUME Known, Inv, Next  PROVE Inv'
    OBVIOUS
  <2>1. PhaseInv'
    BY PhaseNext DEF WokenInv, EachConsume
  <2>2. Regular'
    BY DEF Regular, Preemptive, Uses, Ops, FollowedByWork, Following
  <2> QED  BY <2>1, <2>2
<1>3. Inv /\ UNCHANGED vars => Inv'
  <2> SUFFICES ASSUME Inv, UNCHANGED vars  PROVE Inv'
    OBVIOUS
  <2>1. Regular'
    BY DEF Regular, Preemptive, Uses, Ops, FollowedByWork, Following
  <2>2. UNCHANGED <<cur, nxt, pending, runFsm, runUser, runSched, thread, schedPc, current, penalty,
                    tick, userPc, ip, burst, finished>>
    BY DEF vars, kernelVars, schedVars, taskVars
  <2>3. \A t \in Task : TaskInv(t)'
    BY <2>2 DEF PhaseInv, TaskInv, LinesWritten, Executes, WokenThread, SeesActive, LinesChange,
                FinishedFlag, YieldSeen, ReleaseKeepsProcessor, StateInv, Settled, Woken, InScript
  <2>4. PendingInv' /\ SchedInv' /\ PenaltyRunning'
    BY <2>2 DEF PhaseInv, PendingInv, SchedInv, DispatchSeesPreemption, PenaltyRunning, TriggerList
  <2> QED  BY <2>1, <2>3, <2>4 DEF PhaseInv
<1>4. Inv => PhaseInv
  OBVIOUS
<1>5. Regular => Preemptive
  BY DEF Regular
<1>6. Regular /\ Spec => []Known
  BY <1>5, TypeCorrect, ExclusiveAlways, WokenAlways, ConsumeAlways, PTL
<1> HIDE DEF Inv, Known
<1> QED  BY <1>1, <1>2, <1>3, <1>4, <1>6, PTL DEF Spec

\* When dispatch() chooses, every state machine has left the states of a task
\* that holds the processor: two delta cycles, or a scheduling time, are enough
\* whatever the tasks were doing when the processor was taken from them.
THEOREM DispatchSeesPreemptionAlways == Regular /\ Spec => []DispatchSeesPreemption
<1>1. PhaseInv => DispatchSeesPreemption
  BY DEF PhaseInv, SchedInv
<1> QED  BY <1>1, PhaseAlways, PTL

\* No edge of a signal is lost: when time passes the state of a task is the one
\* its thread and the processor call for.
THEOREM StateTracksThreadAlways == Regular /\ Spec => []StateTracksThread
<1>1. TypeOK /\ PhaseInv /\ EachConsume => StateTracksThread
  <2> SUFFICES ASSUME TypeOK, PhaseInv, EachConsume, Quiescent, NEW t \in Task
               PROVE  LET s == cur[t].state
                          a == cur[t].active
                          pc == userPc[t]
                      IN  /\ pc = "wait_release" => s = IF a THEN "WAIT_PERIOD" ELSE "INACTIVE_WAIT_PERIOD"
                          /\ pc \in {"sem_wait", "event_wait"} =>
                               s = IF a THEN "WAIT_COMM_SYNC" ELSE "INACTIVE_WAIT_COMM_SYNC"
                          /\ pc = "consuming" => s = "EXECUTING" /\ a
                          /\ pc \in {"dormant", "consume_guard", "yielded", "guard"} => s = "READY" /\ ~a
                          /\ pc = "done" => s \in {"READY", "EXECUTING", "FINISHED"}
    BY DEF StateTracksThread
  <2>1. /\ thread = NoTask /\ ~runSched /\ runFsm = {} /\ runUser = {} /\ pending = {} /\ nxt = cur
    BY DEF Quiescent, EvaluationOver
  <2>2. TaskInv(t) /\ Settled(t) /\ ConsumeInv(t) /\ cur[t].state \in States
    BY <2>1 DEF PhaseInv, TaskInv, StateInv, TypeOK, Signals, EachConsume
  <2>3. /\ cur[t].wper <=> userPc[t] = "wait_release"
        /\ cur[t].wcom <=> userPc[t] \in {"sem_wait", "event_wait"}
    BY <2>1, <2>2 DEF TaskInv, LinesWritten, CommWaits
  <2>4. userPc[t] \in {"dormant", "consume_guard", "yielded", "guard"} => ~cur[t].active
    BY <2>1, <2>2 DEF TaskInv, SeesActive, YieldSeen
  <2>5. userPc[t] = "consuming" => cur[t].active
    BY <2>1, <2>2 DEF ConsumeInv
  <2>6. /\ cur[t].state = "EXECUTING" => cur[t].active /\ ~cur[t].wper /\ ~cur[t].wcom
        /\ cur[t].state = "READY" => /\ ~cur[t].wper /\ ~cur[t].wcom
                                     /\ cur[t].active => userPc[t] = "yielded"
        /\ cur[t].state = "WAIT_PERIOD" => cur[t].active /\ cur[t].wper
        /\ cur[t].state = "WAIT_COMM_SYNC" => cur[t].active /\ cur[t].wcom
        /\ cur[t].state = "INACTIVE_WAIT_PERIOD" => ~cur[t].active /\ cur[t].wper
        /\ cur[t].state = "INACTIVE_WAIT_COMM_SYNC" => ~cur[t].active /\ cur[t].wcom
        /\ cur[t].state = "FINISHED" => userPc[t] = "done"
    BY <2>1, <2>2 DEF Settled
  <2> QED  BY <2>2, <2>3, <2>4, <2>5, <2>6 DEF States
<1>2. Regular => Preemptive
  BY DEF Regular
<1> QED  BY <1>1, <1>2, PhaseAlways, TypeCorrect, ConsumeAlways, PTL

-----------------------------------------------------------------------------
(***************************************************************************)
(* Static priorities.  Between a dispatch and the next trigger the READY   *)
(* tasks are at most those dispatch() chose from.                          *)
(***************************************************************************)
OnlyCurrentHolds ==
  \A t \in Task : cur[t].state \in HoldsProcessor \/ nxt[t].state \in HoldsProcessor => t = current

\* A task leaves READY only to execute, and enters it from EXECUTING or by the
\* end of a wait, which triggers the scheduler.
ReadyWritten ==
  \A t \in Task :
    /\ cur[t].state = "READY" /\ nxt[t].state # "READY" => nxt[t].state = "EXECUTING"
    /\ nxt[t].state = "READY" /\ cur[t].state # "READY" =>
         cur[t].state = "EXECUTING" \/ Notify("innactive_task_ends_wait") \in pending

\* The scheduler waits and nothing has triggered it.
Calm == schedPc = "idle" /\ ~runSched /\ pending \cap TriggerList = {}

FirstServed ==
  Calm => \A t \in Task \ {current} :
    nxt[t].state = "READY" =>
      Outranks(current, t) /\ nxt[current].state \in {"READY", "EXECUTING"}

PriorityInv == OnlyCurrentHolds /\ ReadyWritten /\ FirstServed

\* Which states a machine writes READY from, and which it leaves READY and
\* EXECUTING for; only an active task comes to hold the processor.
LEMMA FsmOutcome ==
  ASSUME TypeOK, NEW t \in Task, Fsm(t)
  PROVE  /\ cur[t].state = "READY" => nxt'[t].state = "EXECUTING"
         /\ nxt'[t].state = "READY" =>
              cur[t].state = "EXECUTING" \/ Notify("innactive_task_ends_wait") \in pending'
         /\ cur[t].state = "EXECUTING" =>
              \/ nxt'[t].state = "READY"
              \/ Notify("running_task_to_wait_state") \in pending'
              \/ Notify("completion") \in pending'
<1>1. \A s, E : FsmMove(t, s, E) =>
        nxt'[t].state = s /\ pending' = pending \cup {Notify(e) : e \in E}
  BY DEF FsmMove, TypeOK, Signals
<1>2. \A s : FsmResumed(t, s) => cur[t].state = s
  BY DEF FsmResumed
<1>3. CASE ExecutingWaits(t)
  <2>1. PICK s \in {"WAIT_PERIOD", "INACTIVE_WAIT_PERIOD", "WAIT_COMM_SYNC", "INACTIVE_WAIT_COMM_SYNC"} :
          FsmMove(t, s, {"running_task_to_wait_state"})
    BY <1>3 DEF ExecutingWaits
  <2>2. nxt'[t].state = s /\ Notify("running_task_to_wait_state") \in pending'
    BY <1>1, <2>1
  <2> QED  BY <1>2, <1>3, <2>2 DEF ExecutingWaits
<1>4. CASE ExecutingCompletes(t)
  <2>1. nxt'[t].state = "FINISHED" /\ Notify("completion") \in pending'
    BY <1>1, <1>4 DEF ExecutingCompletes
  <2> QED  BY <1>2, <1>4, <2>1 DEF ExecutingCompletes
<1>5. CASE ExecutingStops(t)
  BY <1>1, <1>2, <1>5 DEF ExecutingStops
<1>6. CASE ReadyActivated(t)
  BY <1>1, <1>2, <1>6 DEF ReadyActivated
<1>7. CASE ActiveWaitEnds(t)
  BY <1>1, <1>2, <1>7 DEF ActiveWaitEnds, WaitKinds
<1>8. CASE ActiveWaitLosesProcessor(t)
  BY <1>1, <1>2, <1>8 DEF ActiveWaitLosesProcessor, WaitKinds
<1>9. CASE InactiveWaitEnds(t)
  <2>1. /\ cur[t].state \notin {"READY", "EXECUTING"}
        /\ \/ FsmMove(t, "EXECUTING", {}) \/ FsmMove(t, "READY", {"innactive_task_ends_wait"})
    BY <1>2, <1>9 DEF InactiveWaitEnds, WaitKinds
  <2>2. nxt'[t].state = "EXECUTING" \/ Notify("innactive_task_ends_wait") \in pending'
    BY <1>1, <2>1
  <2> QED  BY <2>1, <2>2
<1>10. CASE InactiveWaitActivated(t)
  BY <1>1, <1>2, <1>10 DEF InactiveWaitActivated, WaitKinds
<1> QED  BY <1>3, <1>4, <1>5, <1>6, <1>7, <1>8, <1>9, <1>10 DEF Fsm

LEMMA PriorityFsm ==
  ASSUME Regular, TypeOK, ExclusiveInv, PhaseInv, PriorityInv, NEW t \in Task, Fsm(t)
  PROVE  PriorityInv'
<1>1. /\ t \in runFsm
      /\ UNCHANGED <<cur, runSched, schedPc, current>>
      /\ \A u \in Task \ {t} : nxt'[u] = nxt[u]
      /\ \E E \in SUBSET FsmEvents : pending' = pending \cup {Notify(e) : e \in E}
  BY FsmStep DEF schedVars
<1>2. Woken(t) /\ Settled(t)' /\ nxt[t].state = cur[t].state
  <2>1. Woken(t) /\ Executes(t) /\ FinishedFlag(t)
    BY <1>1 DEF PhaseInv, TaskInv, StateInv
  <2> QED  BY <2>1, FsmSettles DEF Woken
<1>3. /\ cur[t].state = "READY" => nxt'[t].state = "EXECUTING"
      /\ nxt'[t].state = "READY" =>
           cur[t].state = "EXECUTING" \/ Notify("innactive_task_ends_wait") \in pending'
      /\ cur[t].state = "EXECUTING" =>
           \/ nxt'[t].state = "READY"
           \/ Notify("running_task_to_wait_state") \in pending'
           \/ Notify("completion") \in pending'
  BY FsmOutcome
<1>4. pending \subseteq pending'
  BY <1>1
<1>5. OnlyCurrentHolds'
  <2>1. nxt'[t].state \in HoldsProcessor => cur[t].active
    BY <1>1, <1>2 DEF Settled, HoldsProcessor
  <2>2. cur[t].active => t = current
    BY DEF ExclusiveInv, ActiveIsCurrent
  <2> QED  BY <1>1, <2>1, <2>2 DEF PriorityInv, OnlyCurrentHolds
<1>6. ReadyWritten'
  BY <1>1, <1>3, <1>4 DEF PriorityInv, ReadyWritten
<1>7. FirstServed'
  <2>1. SUFFICES ASSUME Calm', NEW u \in Task \ {current'}, nxt'[u].state = "READY"
                 PROVE  Outranks(current, u) /\ nxt'[current].state \in {"READY", "EXECUTING"}
    BY <1>1 DEF FirstServed, Outranks
  <2>2. Calm /\ pending' \cap TriggerList = {}
    BY <1>1, <1>4, <2>1 DEF Calm, TriggerList
  <2>3. /\ Notify("innactive_task_ends_wait") \notin pending'
        /\ Notify("running_task_to_wait_state") \notin pending' /\ Notify("completion") \notin pending'
    BY <2>2, Triggers
  <2>4. u # t
    BY <1>1, <1>3, <2>1, <2>3 DEF PriorityInv, OnlyCurrentHolds, HoldsProcessor
  <2>5. Outranks(current, u) /\ nxt[current].state \in {"READY", "EXECUTING"}
    BY <1>1, <2>1, <2>2, <2>4 DEF PriorityInv, FirstServed
  <2>6. current \in Task
    BY <2>2 DEF Calm, PhaseInv, SchedInv
  <2>7. nxt'[current].state \in {"READY", "EXECUTING"}
    BY <1>1, <1>2, <1>3, <2>3, <2>5, <2>6
  <2> QED  BY <2>5, <2>7
<1> QED  BY <1>5, <1>6, <1>7 DEF PriorityInv

\* dispatch() finds no task in a state that holds the processor, so a task that
\* is about to be READY and was not has triggered the scheduler again.
LEMMA PriorityDispatch ==
  ASSUME Regular, Policy = "STATIC_PRIORITIES", TypeOK, ExclusiveInv, PhaseInv, PriorityInv, SchedDispatch
  PROVE  PriorityInv'
<1>1. /\ runSched /\ schedPc \in {"last_delta", "penalty"}
      /\ nxt' = [nxt EXCEPT ![Dispatched.task].active = TRUE] /\ current' = Dispatched.task
      /\ UNCHANGED <<cur, pending>>
  BY DEF SchedDispatch
<1>2. \A u \in Task : nxt'[u].state = nxt[u].state
  BY <1>1 DEF TypeOK, Signals
<1>3. \A u \in Task : cur[u].state \notin HoldsProcessor /\ ~cur[u].active
  BY <1>1 DEF PhaseInv, SchedInv, DispatchSeesPreemption, HoldsProcessor,
              ExclusiveInv, ProcessorWithdrawn, Withdrawing
<1>4. \A u \in Task : nxt[u].state \notin HoldsProcessor
  <2>1. \A u \in Task : StateInv(u)
    BY DEF PhaseInv, TaskInv
  <2> QED  BY <1>3, <2>1 DEF StateInv, Settled, Woken, HoldsProcessor
<1>5. OnlyCurrentHolds' /\ ReadyWritten'
  BY <1>1, <1>2, <1>3, <1>4 DEF PriorityInv, OnlyCurrentHolds, ReadyWritten
<1>6. FirstServed'
  <2>1. SUFFICES ASSUME Calm', NEW u \in Task \ {current'}, nxt'[u].state = "READY"
                 PROVE  Outranks(current', u) /\ nxt'[current'].state \in {"READY", "EXECUTING"}
    BY DEF FirstServed, Outranks
  <2>2. Notify("innactive_task_ends_wait") \notin pending
    BY <1>1, <2>1, Triggers DEF Calm, TriggerList
  <2>3. cur[u].state = "READY"
    BY <1>2, <1>3, <2>1, <2>2 DEF PriorityInv, ReadyWritten, HoldsProcessor
  <2>4. u \in ReadyTasks /\ ReadyTasks \in SUBSET Task
    BY <2>3 DEF ReadyTasks
  <2>5. /\ ByPriority \in Seq(Task) /\ \A x \in Task : \E i \in 1..Len(ByPriority) : ByPriority[i] = x
        /\ Len(ByPriority) \in Nat
    BY ListsCoverTasks
  <2>6. Dispatched = PriorityChoice(ByPriority, it, ReadyTasks)
    BY DEF Dispatched
  <2>7. PICK i \in 1..Len(ByPriority) :
          /\ current' = ByPriority[i] /\ ByPriority[i] \in ReadyTasks
          /\ \A j \in 1..i-1 : ByPriority[j] \notin ReadyTasks
    <3> DEFINE ready == ReadyTasks
    <3>1. ready \in SUBSET Task /\ ready # {}
      BY <2>4
    <3> HIDE DEF ready
    <3>2. \E i \in 1..Len(ByPriority) :
            /\ PriorityChoice(ByPriority, it, ready).task = ByPriority[i]
            /\ ByPriority[i] \in ready
            /\ \A j \in 1..i-1 : ByPriority[j] \notin ready
      BY <3>1, PriorityPick
    <3> QED  BY <1>1, <2>6, <3>2 DEF ready
  <2>8. PICK j \in 1..Len(ByPriority) : ByPriority[j] = u
    BY <2>5
  <2>9. i < j
    <3>1. j # i
      BY <2>1, <2>7, <2>8
    <3>2. j \notin 1..i-1
      BY <2>4, <2>7, <2>8
    <3> QED  BY <2>5, <3>1, <3>2
  <2>10. Outranks(current', u)
    BY <2>7, <2>8, <2>9 DEF Outranks
  <2>11. current' \in Task /\ cur[current'].state = "READY"
    BY <2>7 DEF ReadyTasks
  <2>12. nxt[current'].state \in {"READY", "EXECUTING"}
    BY <2>11 DEF PriorityInv, ReadyWritten
  <2> QED  BY <1>2, <2>10, <2>11, <2>12
<1> QED  BY <1>5, <1>6 DEF PriorityInv

LEMMA PriorityNext ==
  ASSUME Regular, Policy = "STATIC_PRIORITIES", TypeOK, ExclusiveInv, PendingNotified, PhaseInv,
         PriorityInv, Next
  PROVE  PriorityInv'
<1>1. ASSUME UNCHANGED <<cur, runSched, schedPc, current>>, pending \subseteq pending',
             \A u \in Task : nxt'[u].state = nxt[u].state
      PROVE  PriorityInv'
  <2>1. OnlyCurrentHolds' /\ ReadyWritten'
    BY <1>1 DEF PriorityInv, OnlyCurrentHolds, ReadyWritten
  <2>2. Calm' => Calm
    BY <1>1 DEF Calm, TriggerList
  <2>3. FirstServed'
    <3>1. SUFFICES ASSUME Calm', NEW u \in Task \ {current}, nxt[u].state = "READY"
                   PROVE  Outranks(current, u) /\ nxt'[current].state \in {"READY", "EXECUTING"}
      BY <1>1 DEF FirstServed, Outranks
    <3>2. current \in Task
      BY <2>2, <3>1 DEF Calm, PhaseInv, SchedInv
    <3> QED  BY <1>1, <2>2, <3>1, <3>2 DEF PriorityInv, FirstServed
  <2> QED  BY <2>1, <2>3 DEF PriorityInv
<1>2. CASE DeltaCycle
  <2>1. /\ cur' = nxt /\ UNCHANGED <<nxt, schedPc, current>> /\ ~runSched
    BY <1>2 DEF DeltaCycle, EvaluationOver, schedVars
  <2>2. Calm' => Calm
    BY <1>2, <2>1, DeltaWakes DEF Calm
  <2> QED  BY <2>1, <2>2 DEF PriorityInv, OnlyCurrentHolds, ReadyWritten, FirstServed, Outranks
<1>3. CASE AdvanceTime
  <2>1. /\ UNCHANGED <<cur, nxt, schedPc, current>> /\ nxt = cur /\ ~runSched /\ pending = {}
    BY <1>3 DEF AdvanceTime, Quiescent, EvaluationOver
  <2>2. Calm' => Calm
    BY <2>1 DEF Calm
  <2> QED  BY <2>1, <2>2 DEF PriorityInv, OnlyCurrentHolds, ReadyWritten, FirstServed, Outranks
<1>4. CASE SchedResume \/ SchedSecondDelta
  <2>1. /\ UNCHANGED <<cur, current>> /\ schedPc' # "idle" /\ pending \subseteq pending'
    BY <1>4 DEF SchedResume, SchedSecondDelta
  <2>2. \A u \in Task : nxt'[u].state = nxt[u].state
    BY <1>4 DEF SchedResume, SchedSecondDelta, TypeOK, Signals
  <2> QED  BY <2>1, <2>2 DEF PriorityInv, OnlyCurrentHolds, ReadyWritten, FirstServed, Calm
<1>5. ASSUME NEW t \in Task, User(t)  PROVE PriorityInv'
  <2>1. UserWrites(t)
    BY <1>5, UserWritesLines
  <2>2. \A u \in Task : nxt'[u].state = nxt[u].state
    <3>1. nxt' = nxt \/ \E s \in UserLines, b \in BOOLEAN : Write(t, s, b)
      BY <2>1 DEF UserWrites
    <3>2. ASSUME NEW s \in UserLines, NEW b \in BOOLEAN, Write(t, s, b)
          PROVE  \A u \in Task : nxt'[u].state = nxt[u].state
      BY <3>2 DEF UserLines, Write, TypeOK, Signals
    <3> QED  BY <3>1, <3>2
  <2>3. UNCHANGED <<cur, runSched, schedPc, current>> /\ pending \subseteq pending'
    BY <2>1 DEF UserWrites, schedVars
  <2> QED  BY <1>1, <2>2, <2>3
<1> QED  BY <1>2, <1>3, <1>4, <1>5, PriorityFsm, PriorityDispatch DEF Next

\* Under static priorities with preemption no READY task is passed over: when
\* time passes and no schedule is being computed, the current task executes and
\* outranks every READY task.
THEOREM PriorityRespectedAlways ==
  Regular /\ Policy = "STATIC_PRIORITIES" /\ Spec => []PriorityRespected
<1> DEFINE Setting == Regular /\ Policy = "STATIC_PRIORITIES"
           Known == TypeOK /\ ExclusiveInv /\ WokenInv /\ PhaseInv
<1>1. Setting /\ Init => PriorityInv
  BY DEF Init, PriorityInv, OnlyCurrentHolds, ReadyWritten, FirstServed, Calm, HoldsProcessor
<1>2. Setting /\ Known /\ PriorityInv /\ Next => PriorityInv'
  BY PriorityNext DEF WokenInv
<1>3. PriorityInv /\ UNCHANGED vars => PriorityInv'
  <2>1. SUFFICES ASSUME PriorityInv, UNCHANGED vars  PROVE PriorityInv'
    OBVIOUS
  <2>2. UNCHANGED <<cur, nxt, pending, runSched, schedPc, current>>
    BY <2>1 DEF vars, kernelVars, schedVars
  <2>3. OnlyCurrentHolds' /\ ReadyWritten'
    BY <2>1, <2>2 DEF PriorityInv, OnlyCurrentHolds, ReadyWritten
  <2>4. Calm' => Calm
    BY <2>2 DEF Calm, TriggerList
  <2>5. FirstServed'
    BY <2>1, <2>2, <2>4 DEF PriorityInv, FirstServed, Outranks
  <2> QED  BY <2>3, <2>5 DEF PriorityInv
<1>4. Setting => Setting'
  BY DEF Regular, Preemptive, Uses, Ops, FollowedByWork, Following
<1>5. Setting /\ UNCHANGED vars => Setting'
  BY <1>4
<1>6. Setting /\ Spec => []Known
  BY TypeCorrect, ExclusiveAlways, WokenAlways, PhaseAlways, PTL
<1>7. Known /\ PriorityInv => PriorityRespected
  <2> SUFFICES ASSUME Known, PriorityInv, Quiescent, schedPc = "idle", NEW t \in ReadyTasks
               PROVE  cur[current].state = "EXECUTING" /\ Outranks(current, t)
    BY DEF PriorityRespected
  <2>1. Calm /\ nxt = cur /\ runFsm = {} /\ runUser = {} /\ pending = {} /\ ~runSched
    BY DEF Quiescent, EvaluationOver, Calm
  <2>2. current \in Task /\ nxt[current].active /\ t \in Task /\ cur[t].state = "READY"
    BY DEF PhaseInv, SchedInv, ReadyTasks
  <2>3. cur[current].state # "READY"
    <3>1. TaskInv(current) /\ Settled(current)
      BY <2>1, <2>2 DEF PhaseInv, TaskInv, StateInv
    <3> QED  BY <2>1, <2>2, <3>1 DEF TaskInv, YieldSeen, Settled
  <2> QED  BY <2>1, <2>2, <2>3 DEF PriorityInv, FirstServed
<1> HIDE DEF Setting, Known
<1>8. Setting /\ Spec => []PriorityRespected
  BY <1>1, <1>2, <1>3, <1>4, <1>6, <1>7, PTL DEF Spec
<1> QED  BY <1>8 DEF Setting

-----------------------------------------------------------------------------
(***************************************************************************)
(* The code of a task.                                                     *)
(***************************************************************************)
\* The thread starts, ends, waits in the call it makes, or goes on to the next.
Advances(t) ==
  \/ userPc[t] = "dormant" /\ ip'[t] = ip[t] /\ userPc'[t] = "call"
  \/ thread = t /\ ip[t] > Len(Script[t]) /\ ip'[t] = ip[t] /\ userPc'[t] = "done"
  \/ ip'[t] = ip[t] /\ userPc'[t] \notin {"call", "done"}
  \/ ip'[t] = Following(t, ip[t]) /\ userPc'[t] = "call"

LEMMA CallsInOrder ==
  ASSUME TypeOK, NEW t \in Task, User(t)
  PROVE  Advances(t) /\ \A u \in Task \ {t} : ip'[u] = ip[u] /\ userPc'[u] = userPc[u]
<1> DEFINE Result == Advances(t) /\ \A u \in Task \ {t} : ip'[u] = ip[u] /\ userPc'[u] = userPc[u]
<1>0. userPc \in [Task -> UserPcs] /\ ip \in [Task -> Nat \ {0}]
  BY DEF TypeOK
<1>1. ASSUME NEW pc \in UserPcs \ {"call", "done"}, WaitAt(t, pc)  PROVE Result
  BY <1>0, <1>1 DEF WaitAt, Advances
<1>2. NextCall(t) => Result
  BY <1>0 DEF NextCall, Advances, Following
<1>3. {"consume_guard", "consuming", "wait_release", "sem_wait", "event_wait", "yielded", "guard"}
        \subseteq UserPcs \ {"call", "done"}
  BY DEF UserPcs
<1>4. NextCallIfActive(t) => Result
  BY <1>1, <1>2, <1>3 DEF NextCallIfActive
<1>5. CASE UserStart(t)
  BY <1>0, <1>5 DEF UserStart, Resumed, Advances
<1>6. CASE UserEnds(t)
  BY <1>0, <1>6 DEF UserEnds, WaitAt, Advances
<1> HIDE DEF Result
<1>7. ASSUME \/ GuardPassed(t) \/ ConsumeCall(t) \/ ConsumeActivated(t) \/ ConsumePreempted(t)
             \/ ConsumeEnds(t) \/ WaitPeriodCall(t) \/ WaitPeriodMissed(t) \/ WaitPeriodReleased(t)
             \/ YieldCall(t) \/ YieldResumed(t)
      PROVE  Result
  <2>1. NextCall(t) \/ NextCallIfActive(t) \/ \E pc \in UserPcs \ {"call", "done"} : WaitAt(t, pc)
    BY <1>3, <1>7 DEF GuardPassed, ConsumeCall, ConsumeActivated, ConsumePreempted, ConsumeEnds,
         WaitPeriodCall, WaitPeriodMissed, WaitPeriodReleased, YieldCall, YieldResumed
  <2> QED  BY <1>1, <1>2, <1>4, <2>1
<1>8. ASSUME \/ SemTaken(t) \/ SemBlocks(t) \/ SemWoken(t) \/ SemPosts(t)
             \/ EventSets(t) \/ EventUnsets(t) \/ EventTaken(t) \/ EventBlocks(t) \/ EventWoken(t)
      PROVE  Result
  <2>1. NextCall(t) \/ NextCallIfActive(t) \/ \E pc \in UserPcs \ {"call", "done"} : WaitAt(t, pc)
    BY <1>3, <1>8 DEF SemTaken, SemBlocks, SemWoken, SemPosts, EventSets, EventUnsets, EventTaken,
         EventBlocks, EventWoken
  <2> QED  BY <1>1, <1>2, <1>4, <2>1
<1> QED  BY <1>5, <1>6, <1>7, <1>8 DEF User, Result

\* A thread whose code starts again at its end is always at one of its calls.
InCode(t) == ip[t] \in 1..Len(Script[t]) /\ userPc[t] # "done"

EachInCode == \A t \in Task : InCode(t)

\* The steps of the kernel, of the scheduler and of the state machines.
LEMMA CodeStays ==
  ASSUME Next
  PROVE  (\E t \in Task : User(t)) \/ UNCHANGED <<userPc, ip, thread>>
<1>1. DeltaCycle \/ AdvanceTime => UNCHANGED <<userPc, ip, thread>>
  BY DEF DeltaCycle, AdvanceTime, taskVars
<1>2. SchedResume \/ SchedSecondDelta \/ SchedDispatch => UNCHANGED <<userPc, ip, thread>>
  BY DEF SchedResume, SchedSecondDelta, SchedDispatch, taskVars
<1>3. \A t \in Task : Fsm(t) => UNCHANGED <<userPc, ip, thread>>
  BY DEF Fsm, ExecutingWaits, ExecutingCompletes, ExecutingStops, ReadyActivated, ActiveWaitEnds,
         ActiveWaitLosesProcessor, InactiveWaitEnds, InactiveWaitActivated, FsmMove, taskVars
<1> QED  BY <1>1, <1>2, <1>3 DEF Next

LEMMA InCodeNext ==
  ASSUME TypeOK, \A t \in Task : Endless[t], EachInCode, Next
  PROVE  EachInCode'
<1>1. CASE UNCHANGED <<userPc, ip>>
  BY <1>1 DEF EachInCode, InCode
<1>2. ASSUME NEW t \in Task, User(t)  PROVE EachInCode'
  <2>1. Script[t] \in Seq(SUBSET Call)
    BY SchedulingAssumption
  <2>2. Len(Script[t]) \in Nat
    BY <2>1
  <2>3. ip[t] \in 1..Len(Script[t]) /\ userPc[t] # "done"
    BY DEF EachInCode, InCode
  <2>4. Advances(t) /\ \A u \in Task \ {t} : ip'[u] = ip[u] /\ userPc'[u] = userPc[u]
    BY <1>2, CallsInOrder
  <2>5. InCode(t)'
    BY <2>2, <2>3, <2>4 DEF Advances, Following, InCode
  <2> QED  BY <2>4, <2>5 DEF EachInCode, InCode
<1> QED  BY <1>1, <1>2, CodeStays

LEMMA InCodeAlways == (\A t \in Task : Endless[t]) /\ Spec => []EachInCode
<1> DEFINE Again == \A t \in Task : Endless[t]
           Inv   == Again /\ EachInCode
<1>1. Again /\ Init => Inv
  <2> SUFFICES ASSUME Again, Init, NEW t \in Task  PROVE InCode(t)
    BY DEF EachInCode
  <2>1. Script[t] \in Seq(SUBSET Call) /\ Len(Script[t]) > 0
    BY SchedulingAssumption
  <2>2. Len(Script[t]) \in Nat
    BY <2>1
  <2> QED  BY <2>1, <2>2 DEF Init, InCode
<1>2. TypeOK /\ Inv /\ Next => Inv'
  BY InCodeNext
<1>3. Inv /\ UNCHANGED vars => Inv'
  <2>1. UNCHANGED vars => UNCHANGED <<userPc, ip>>
    BY DEF vars, taskVars
  <2> QED  BY <2>1 DEF EachInCode, InCode
<1>4. Inv => EachInCode
  OBVIOUS
<1> HIDE DEF Inv
<1>5. Again /\ Spec => []EachInCode
  BY <1>1, <1>2, <1>3, <1>4, TypeCorrect, PTL DEF Spec
<1> QED  BY <1>5

-----------------------------------------------------------------------------
(***************************************************************************)
(* The occupation time.  The method sensitive to state_signal counts while *)
(* the state is EXECUTING, and when time passes the tasks in that state    *)
(* are those that consume.                                                 *)
(***************************************************************************)
LEMMA AccountSteps == AccountSpec => Spec
<1>1. AccountInit => Init
  BY DEF AccountInit
<1>2. AccountNext => Next
  BY DEF AccountNext, AccountingDelta, AccountingTime, AccountingIdle, Next
<1>3. UNCHANGED allVars => UNCHANGED vars
  BY DEF allVars
<1> QED  BY <1>1, <1>2, <1>3, PTL DEF AccountSpec, Spec

\* When time passes a task of endless code executes just when it consumes.
LEMMA ExecutingConsumes ==
  ASSUME TypeOK, PhaseInv, StateTracksThread, EachInCode, Quiescent, NEW t \in Task
  PROVE  cur[t].state = "EXECUTING" <=> cur[t].active /\ userPc[t] = "consuming"
<1>1. thread = NoTask /\ runUser = {} /\ runFsm = {} /\ nxt = cur /\ thread # t
  BY ConstantTypes DEF Quiescent, EvaluationOver
<1>2. Settled(t) /\ Executes(t) /\ LinesWritten(t) /\ InCode(t) /\ userPc[t] \in UserPcs
  BY <1>1 DEF PhaseInv, TaskInv, StateInv, EachInCode, TypeOK
<1>3. /\ userPc[t] = "consuming" => cur[t].state = "EXECUTING" /\ cur[t].active
      /\ userPc[t] \in {"dormant", "consume_guard", "yielded", "guard"} => cur[t].state = "READY"
  BY DEF StateTracksThread
<1>4. userPc[t] # "call" /\ userPc[t] # "done"
  BY <1>1, <1>2 DEF Executes, InCode
<1>5. cur[t].state = "EXECUTING" => userPc[t] \notin {"wait_release", "sem_wait", "event_wait"}
  BY <1>1, <1>2 DEF Settled, LinesWritten, CommWaits
<1> QED  BY <1>2, <1>3, <1>4, <1>5 DEF UserPcs

\* The open interval makes up for what the time spent in consume is ahead of
\* occupation_time; nothing is behind the first run of the method.
OccupationInv(t) ==
  /\ interval[t] \in Int /\ excess[t] \in Int
  /\ excess[t] + (IF counting[t] THEN interval[t] ELSE 0) = 0
  /\ IF schedPc = "start" THEN runSched /\ interval[t] = 0 /\ excess[t] = 0
                          ELSE counting[t] <=> cur[t].state = "EXECUTING"

EachOccupation == \A t \in Task : OccupationInv(t)

LEMMA OccupationDelta ==
  ASSUME EachOccupation, AccountingDelta
  PROVE  EachOccupation'
<1> SUFFICES ASSUME NEW t \in Task  PROVE OccupationInv(t)'
  BY DEF EachOccupation
<1> DEFINE runs == {u \in Task : nxt[u].state # cur[u].state}
<1>1. cur' = nxt /\ schedPc' = schedPc /\ ~runSched
  BY DEF AccountingDelta, DeltaCycle, EvaluationOver, schedVars
<1>2. OccupationAccounted(runs, nxt)
  BY DEF AccountingDelta
<1>3. OccupationInv(t)
  BY DEF EachOccupation
<1>4. CASE t \in runs /\ nxt[t].state = "EXECUTING"
  <2>1. interval'[t] = 0 /\ excess'[t] = excess[t] /\ counting'[t]
    BY <1>2, <1>4 DEF OccupationAccounted
  <2> QED  BY <1>1, <1>3, <1>4, <2>1 DEF OccupationInv
<1>5. CASE t \in runs /\ nxt[t].state # "EXECUTING"
  <2>1. /\ interval'[t] = 0 /\ ~counting'[t]
        /\ excess'[t] = IF counting[t] THEN excess[t] + interval[t] ELSE excess[t]
    BY <1>2, <1>5 DEF OccupationAccounted
  <2> QED  BY <1>1, <1>3, <1>5, <2>1 DEF OccupationInv
<1>6. CASE t \notin runs
  <2>1. interval'[t] = interval[t] /\ excess'[t] = excess[t] /\ counting'[t] = counting[t]
    BY <1>2, <1>6 DEF OccupationAccounted
  <2> QED  BY <1>1, <1>3, <1>6, <2>1 DEF OccupationInv
<1> QED  BY <1>4, <1>5, <1>6

LEMMA OccupationTime ==
  ASSUME TypeOK, PhaseInv, StateTracksThread, EachInCode, EachOccupation, AccountingTime
  PROVE  EachOccupation'
<1> SUFFICES ASSUME NEW t \in Task  PROVE OccupationInv(t)'
  BY DEF EachOccupation
<1> DEFINE d == Least(Timeouts)
<1>1. /\ Quiescent /\ Timeouts # {} /\ ~runSched
      /\ cur' = cur /\ schedPc' = schedPc /\ counting' = counting
  BY DEF AccountingTime, AdvanceTime, Quiescent, EvaluationOver
<1>2. d \in Nat
  BY <1>1, TimePasses
<1>3. /\ interval'[t] = IF counting[t] THEN interval[t] + d ELSE interval[t]
      /\ excess'[t] = IF cur[t].active /\ userPc[t] = "consuming" THEN excess[t] - d ELSE excess[t]
  BY DEF AccountingTime
<1>4. OccupationInv(t)
  BY DEF EachOccupation
<1>5. cur[t].state = "EXECUTING" <=> cur[t].active /\ userPc[t] = "consuming"
  BY <1>1, ExecutingConsumes
<1> HIDE DEF d
<1> QED  BY <1>1, <1>2, <1>3, <1>4, <1>5 DEF OccupationInv

LEMMA OccupationIdle ==
  ASSUME EachOccupation, AccountingIdle
  PROVE  EachOccupation'
<1> SUFFICES ASSUME NEW t \in Task  PROVE OccupationInv(t)'
  BY DEF EachOccupation
<1>1. OccupationInv(t)
  BY DEF EachOccupation
<1>2. /\ \A u \in Task : Fsm(u) => UNCHANGED <<cur, runSched, schedPc>>
      /\ \A u \in Task : User(u) => UNCHANGED <<cur, runSched, schedPc>>
  <2>1. \A u \in Task : Fsm(u) => UNCHANGED <<cur, runSched, schedPc>>
    BY DEF Fsm, FsmMove, ExecutingWaits, ExecutingCompletes, ExecutingStops, ReadyActivated,
           ActiveWaitEnds, ActiveWaitLosesProcessor, InactiveWaitEnds, InactiveWaitActivated, schedVars
  <2> QED  BY <2>1, UserWritesLines DEF UserWrites, schedVars
<1>3. /\ cur' = cur
      /\ IF schedPc = "start" THEN runSched => runSched' \/ schedPc' # "start" ELSE schedPc' # "start"
  <2>1. CASE SchedResume \/ SchedSecondDelta \/ SchedDispatch
    BY <2>1 DEF SchedResume, SchedSecondDelta, SchedDispatch
  <2> QED  BY <1>2, <2>1 DEF AccountingIdle
<1>4. CASE schedPc = "start"
  <2>1. OccupationAccounted(Task, cur) /\ interval[t] = 0 /\ excess[t] = 0 /\ runSched
    BY <1>1, <1>4 DEF AccountingIdle, OccupationInv
  <2>2. /\ interval'[t] = 0 /\ excess'[t] = 0
        /\ counting'[t] <=> cur[t].state = "EXECUTING"
    <3>1. CASE cur[t].state = "EXECUTING"
      BY <2>1, <3>1 DEF OccupationAccounted
    <3>2. CASE cur[t].state # "EXECUTING"
      <4>1. /\ interval'[t] = 0 /\ ~counting'[t]
            /\ excess'[t] = IF counting[t] THEN excess[t] + interval[t] ELSE excess[t]
        BY <2>1, <3>2 DEF OccupationAccounted
      <4> QED  BY <2>1, <3>2, <4>1
    <3> QED  BY <3>1, <3>2
  <2> QED  BY <1>3, <1>4, <2>1, <2>2 DEF OccupationInv
<1>5. CASE schedPc # "start"
  <2>1. UNCHANGED <<counting, interval, excess>>
    BY <1>5 DEF AccountingIdle
  <2> QED  BY <1>3, <1>1, <1>5, <2>1 DEF OccupationInv
<1> QED  BY <1>4, <1>5

\* The occupation time reported for a task of endless code is the time it has
\* spent in consume, whatever the interleaving of preemptions, waits and delta
\* cycles in which its state changes.
THEOREM OccupationExactAlways ==
  Regular /\ (\A t \in Task : Endless[t]) /\ AccountSpec => []OccupationExact
<1> DEFINE Again == \A t \in Task : Endless[t]
           Known == TypeOK /\ PhaseInv /\ StateTracksThread /\ EachInCode
<1>1. AccountInit => EachOccupation
  BY DEF AccountInit, Init, EachOccupation, OccupationInv
<1>2. Known /\ EachOccupation /\ AccountNext => EachOccupation'
  BY OccupationDelta, OccupationTime, OccupationIdle DEF AccountNext
<1>3. EachOccupation /\ UNCHANGED allVars => EachOccupation'
  BY DEF EachOccupation, OccupationInv, allVars, accountVars, vars, kernelVars, schedVars
<1>4. EachOccupation => OccupationExact
  BY DEF EachOccupation, OccupationInv, OccupationExact
<1>5. Regular /\ Again /\ AccountSpec => []Known
  BY AccountSteps, TypeCorrect, PhaseAlways, StateTracksThreadAlways, InCodeAlways, PTL
<1> HIDE DEF Known
<1>6. Regular /\ Again /\ AccountSpec => []OccupationExact
  BY <1>1, <1>2, <1>3, <1>4, <1>5, PTL DEF AccountSpec
<1> QED  BY <1>6

-----------------------------------------------------------------------------
(***************************************************************************)
(* Periodic tasks that meet their deadlines.                               *)
(***************************************************************************)
ImplicitDeadlines == \A t \in Task : Deadline[t] \in {0, Period[t]}

\* The calls that return at once and wait for nobody.
InstantCalls == {"sem_post", "event_set", "event_unset"}

ShortCalls == InstantCalls \cup {"consume"}

\* The call at position i is made when a consumption has just ended.
AfterWork(t, i) ==
  \E j \in 1..i-1 : /\ Ops(t, j) \subseteq {"consume"}
                    /\ \A k \in j+1..i-1 : Ops(t, k) \subseteq InstantCalls

\* A job consumes before it ends, and waits for nobody in between.
JobsEndWithWork ==
  \A t \in Task : \A i \in 1..Len(Script[t]) :
    "wait_period" \in Ops(t, i) => AfterWork(t, i)

LEMMA AfterWorkBack ==
  ASSUME NEW t \in Task, NEW i \in Nat \ {0}, AfterWork(t, Following(t, i))
  PROVE  Ops(t, i) \subseteq {"consume"} \/ (Ops(t, i) \subseteq InstantCalls /\ AfterWork(t, i))
<1>1. Following(t, i) \in {1, i + 1}
  BY DEF Following
<1>2. PICK j \in 1..Following(t, i) - 1 :
        /\ Ops(t, j) \subseteq {"consume"}
        /\ \A k \in j+1..Following(t, i) - 1 : Ops(t, k) \subseteq InstantCalls
  BY DEF AfterWork
<1>3. Following(t, i) = i + 1 /\ j \in 1..i
  BY <1>1, <1>2
<1>4. CASE j = i
  BY <1>2, <1>4
<1>5. CASE j # i
  <2>1. j \in 1..i-1 /\ i \in j+1..Following(t, i) - 1
    BY <1>3, <1>5
  <2>2. \A k \in j+1..i-1 : Ops(t, k) \subseteq InstantCalls
    BY <1>2, <1>3
  <2> QED  BY <1>2, <2>1, <2>2 DEF AfterWork
<1> QED  BY <1>4, <1>5

\* A step of thread t, as the tasks other than t see it.
LEMMA UserLeaves ==
  ASSUME TypeOK, NEW t \in Task, User(t)
  PROVE  /\ thread \in {t, NoTask} /\ (userPc'[t] = "call" => thread' = t)
         /\ release' = release /\ cur' = cur /\ pending \subseteq pending'
         /\ \A u \in Task : Release(u) \in pending' => Release(u) \in pending
         /\ \A u \in Task \ {t} :
              /\ slack'[u] = slack[u] /\ burst'[u] = burst[u]
              /\ u \in runUser => u \in runUser'
              /\ u \in runUser' => u \in runUser \/ userPc[u] = "sem_wait"
<1> DEFINE Others == \A u \in Task \ {t} :
                       /\ slack'[u] = slack[u] /\ burst'[u] = burst[u]
                       /\ u \in runUser => u \in runUser'
                       /\ u \in runUser' => u \in runUser \/ userPc[u] = "sem_wait"
           Runs   == thread \in {t, NoTask} /\ (userPc'[t] = "call" => thread' = t)
           Result == Runs /\ Others /\ release' = release
<1>0. /\ userPc \in [Task -> UserPcs] /\ slack \in [Task -> Int] /\ burst \in [Task -> Nat]
      /\ "call" \notin {"consume_guard", "consuming", "wait_release", "sem_wait", "event_wait",
                        "yielded", "guard", "done"}
  BY DEF TypeOK
<1>1. Result
  <2> USE <1>0 DEF Resumed, Calls, userFrame, WaitAt, NextCall, NextCallIfActive
  <2>1. CASE UserStart(t) \/ GuardPassed(t) \/ UserEnds(t)
    BY <2>1 DEF UserStart, GuardPassed, UserEnds
  <2>2. CASE ConsumeCall(t)
    BY <2>2 DEF ConsumeCall
  <2>3. CASE ConsumeActivated(t) \/ ConsumePreempted(t) \/ ConsumeEnds(t)
    BY <2>3 DEF ConsumeActivated, ConsumePreempted, ConsumeEnds
  <2>4. CASE WaitPeriodCall(t) \/ WaitPeriodMissed(t) \/ WaitPeriodReleased(t)
    BY <2>4 DEF WaitPeriodCall, WaitPeriodMissed, WaitPeriodReleased
  <2>5. CASE YieldCall(t) \/ YieldResumed(t)
    BY <2>5 DEF YieldCall, YieldResumed
  <2>6. CASE SemTaken(t) \/ SemBlocks(t) \/ SemWoken(t)
    BY <2>6 DEF SemTaken, SemBlocks, SemWoken
  <2>7. CASE SemPosts(t)
    BY <2>7 DEF SemPosts
  <2>8. CASE EventSets(t) \/ EventUnsets(t) \/ EventTaken(t) \/ EventBlocks(t) \/ EventWoken(t)
    BY <2>8 DEF EventSets, EventUnsets, EventTaken, EventBlocks, EventWoken
  <2> QED  BY <2>1, <2>2, <2>3, <2>4, <2>5, <2>6, <2>7, <2>8 DEF User
<1>2. UserWrites(t)
  BY UserWritesLines
<1>3. cur' = cur /\ pending \subseteq pending'
  BY <1>2 DEF UserWrites
<1>4. \A u \in Task : Release(u) \notin UserEvents(t)
  BY DEF UserEvents, Release, Notify, EndResponse
<1>5. \A u \in Task : Release(u) \in pending' => Release(u) \in pending
  BY <1>2, <1>4 DEF UserWrites
<1> QED  BY <1>1, <1>3, <1>5

-----------------------------------------------------------------------------
\* The places of a thread that is in a call which may last.
InLongCall == {"wait_release", "sem_wait", "event_wait", "yielded", "guard"}

\* The call a thread has reached.
AtCall(t) ==
  /\ userPc[t] = "call" => thread = t
  /\ userPc[t] = "dormant" => ip[t] = 1
  /\ userPc[t] \in InLongCall => ip[t] <= Len(Script[t]) /\ ~(Ops(t, ip[t]) \subseteq ShortCalls)
  /\ userPc[t] = "wait_release" => Period[t] > 0

EachAtCall == \A t \in Task : AtCall(t)

LEMMA AtCallUser ==
  ASSUME TypeOK, EachAtCall, NEW t \in Task, ConsumeInv(t), User(t)
  PROVE  EachAtCall'
<1>0. /\ userPc \in [Task -> UserPcs] /\ ip \in [Task -> Nat \ {0}] /\ AtCall(t)
      /\ t # NoTask /\ (thread = t => userPc[t] = "call")
  BY ConstantTypes DEF TypeOK, EachAtCall, ConsumeInv
<1>1. ASSUME NEW u \in Task \ {t}  PROVE AtCall(u)'
  <2>1. thread \in {t, NoTask} /\ ip'[u] = ip[u] /\ userPc'[u] = userPc[u]
    BY CallsInOrder, UserLeaves
  <2>2. userPc[u] # "call"
    BY <2>1, ConstantTypes DEF EachAtCall, AtCall
  <2> QED  BY <2>1, <2>2 DEF EachAtCall, AtCall
<1>2. userPc'[t] = "call" => thread' = t
  BY UserLeaves
<1>3. ASSUME NEW pc \in UserPcs \ (InLongCall \cup {"call", "dormant"}), WaitAt(t, pc)  PROVE AtCall(t)'
  <2>1. userPc'[t] = pc /\ pc # "wait_release"
    BY <1>0, <1>3 DEF WaitAt, InLongCall
  <2> QED  BY <1>3, <2>1 DEF AtCall
<1>4. NextCall(t) => AtCall(t)'
  BY <1>0, <1>2 DEF AtCall, NextCall, InLongCall
<1>5. ASSUME NEW op, op \notin ShortCalls, Calls(t, op), NEW pc \in UserPcs \ {"call", "dormant"},
             WaitAt(t, pc), pc = "wait_release" => op = "wait_period"
      PROVE  AtCall(t)'
  <2>1. op \in Ops(t, ip[t]) /\ ip[t] <= Len(Script[t])
    BY <1>5 DEF Calls, Ops
  <2>2. op = "wait_period" => Period[t] > 0
    <3>1. Script[t] \in Seq(SUBSET Call)
      BY SchedulingAssumption
    <3>2. Len(Script[t]) \in Nat
      BY <3>1
    <3>3. ip[t] \in 1..Len(Script[t])
      BY <1>0, <2>1, <3>2
    <3> QED  BY <1>5, <3>3, SchedulingAssumption DEF Calls
  <2> QED  BY <1>0, <1>5, <2>1, <2>2 DEF AtCall, WaitAt
<1>6. ASSUME userPc[t] \in InLongCall, NEW pc \in UserPcs \ {"call", "dormant", "wait_release"}, WaitAt(t, pc)
      PROVE  AtCall(t)'
  BY <1>0, <1>6 DEF AtCall, WaitAt
<1>7. /\ {"consume_guard", "consuming", "done"} \subseteq UserPcs \ (InLongCall \cup {"call", "dormant"})
      /\ {"wait_release", "sem_wait", "event_wait", "yielded", "guard"} \subseteq UserPcs \ {"call", "dormant"}
      /\ {"sem_wait", "guard"} \subseteq UserPcs \ {"call", "dormant", "wait_release"}
      /\ {"wait_period", "yield", "sem_wait", "event_wait"} \cap ShortCalls = {}
      /\ {"wait_release", "sem_wait", "event_wait", "yielded"} \subseteq InLongCall
  BY DEF UserPcs, InLongCall, ShortCalls, InstantCalls
<1>8. AtCall(t)'
  <2>1. CASE UserStart(t)
    BY <1>0, <1>2, <2>1 DEF UserStart, Resumed, AtCall, InLongCall
  <2>2. CASE GuardPassed(t) \/ ConsumeEnds(t) \/ YieldResumed(t) \/ SemPosts(t) \/ EventSets(t) \/ EventUnsets(t)
    BY <1>4, <2>2 DEF GuardPassed, ConsumeEnds, YieldResumed, SemPosts, EventSets, EventUnsets
  <2>3. CASE UserEnds(t) \/ ConsumeCall(t) \/ ConsumeActivated(t) \/ ConsumePreempted(t)
    <3>1. WaitAt(t, "done") \/ WaitAt(t, "consume_guard") \/ WaitAt(t, "consuming")
      BY <2>3 DEF UserEnds, ConsumeCall, ConsumeActivated, ConsumePreempted
    <3> QED  BY <1>3, <1>7, <3>1
  <2>4. CASE WaitPeriodCall(t) \/ YieldCall(t) \/ SemBlocks(t) \/ EventBlocks(t)
    <3>1. \/ Calls(t, "wait_period") /\ WaitAt(t, "wait_release")
          \/ Calls(t, "yield") /\ WaitAt(t, "yielded")
          \/ Calls(t, "sem_wait") /\ WaitAt(t, "sem_wait")
          \/ Calls(t, "event_wait") /\ WaitAt(t, "event_wait")
      BY <2>4 DEF WaitPeriodCall, YieldCall, SemBlocks, EventBlocks
    <3> QED  BY <1>5, <1>7, <3>1
  <2>5. CASE WaitPeriodMissed(t) \/ SemTaken(t) \/ EventTaken(t)
    <3>1. /\ Calls(t, "wait_period") \/ Calls(t, "sem_wait") \/ Calls(t, "event_wait")
          /\ NextCall(t) \/ WaitAt(t, "guard")
      BY <2>5 DEF WaitPeriodMissed, SemTaken, EventTaken, NextCallIfActive
    <3> QED  BY <1>4, <1>5, <1>7, <3>1
  <2>6. CASE WaitPeriodReleased(t) \/ SemWoken(t) \/ EventWoken(t)
    <3>1. /\ userPc[t] \in {"wait_release", "sem_wait", "event_wait"}
          /\ NextCall(t) \/ WaitAt(t, "guard") \/ WaitAt(t, "sem_wait")
      BY <2>6 DEF WaitPeriodReleased, SemWoken, EventWoken, Resumed, NextCallIfActive
    <3> QED  BY <1>4, <1>6, <1>7, <3>1
  <2> QED  BY <2>1, <2>2, <2>3, <2>4, <2>5, <2>6 DEF User
<1> QED  BY <1>1, <1>8 DEF EachAtCall

LEMMA AtCallAlways == Preemptive /\ Spec => []EachAtCall
<1>1. Init => EachAtCall
  BY DEF Init, EachAtCall, AtCall, InLongCall
<1>2. TypeOK /\ EachConsume /\ EachAtCall /\ Next => EachAtCall'
  <2> SUFFICES ASSUME TypeOK, EachConsume, EachAtCall, Next  PROVE EachAtCall'
    OBVIOUS
  <2>1. ASSUME NEW t \in Task, User(t)  PROVE EachAtCall'
    BY <2>1, AtCallUser DEF EachConsume
  <2>2. UNCHANGED <<userPc, ip, thread>> => EachAtCall'
    BY DEF EachAtCall, AtCall
  <2> QED  BY <2>1, <2>2, CodeStays
<1>3. EachAtCall /\ UNCHANGED vars => EachAtCall'
  BY DEF EachAtCall, AtCall, vars, kernelVars, taskVars
<1> QED  BY <1>1, <1>2, <1>3, TypeCorrect, ConsumeAlways, PTL DEF Spec

-----------------------------------------------------------------------------
\* The release of a job and its deadline are the same instant: the deadline is
\* ahead with the release, or has been reached at the release, which is then on
\* its way to the thread that waits for it and to the one that still may.
DueInv(t) ==
  Period[t] > 0 /\ userPc[t] # "done" =>
    /\ release[t] \in 1..Period[t]
    /\ slack[t] = release[t] \/ (slack[t] = 0 /\ release[t] = Period[t])
    /\ Release(t) \in pending => slack[t] = 0
    /\ userPc[t] = "wait_release" =>
         IF t \in runUser THEN slack[t] = 0 /\ Release(t) \notin pending
                          ELSE slack[t] = 0 => Release(t) \in pending
    /\ userPc[t] = "consuming" /\ burst[t] = 0 /\ slack[t] = 0 => Release(t) \in pending
    /\ userPc[t] = "call" /\ ip[t] <= Len(Script[t]) /\ AfterWork(t, ip[t]) /\ slack[t] = 0 =>
         Release(t) \in pending

EachDue == \A t \in Task : DueInv(t)

Setting == Preemptive /\ ImplicitDeadlines /\ JobsEndWithWork

\* A step that moves neither the deadline nor the release.
LEMMA DueKept ==
  ASSUME NEW t \in Task, DueInv(t), userPc[t] # "done",
         slack'[t] = slack[t], release'[t] = release[t],
         Release(t) \in pending' <=> Release(t) \in pending,
         userPc'[t] # "wait_release", ~(userPc'[t] = "consuming" /\ burst'[t] = 0),
         userPc'[t] = "call" /\ ip'[t] <= Len(Script[t]) /\ AfterWork(t, ip'[t]) /\ slack[t] = 0 =>
           Release(t) \in pending
  PROVE  DueInv(t)'
BY DEF DueInv

LEMMA DueOthers ==
  ASSUME TypeOK, EachDue, EachAtCall, NEW t \in Task, User(t), NEW u \in Task \ {t}
  PROVE  DueInv(u)'
<1>1. /\ ip'[u] = ip[u] /\ userPc'[u] = userPc[u] /\ slack'[u] = slack[u] /\ burst'[u] = burst[u]
      /\ release'[u] = release[u]
      /\ Release(u) \in pending' <=> Release(u) \in pending
      /\ userPc[u] = "wait_release" => (u \in runUser' <=> u \in runUser)
  BY CallsInOrder, UserLeaves
<1>2. DueInv(u)
  BY DEF EachDue
<1> QED  BY <1>1, <1>2 DEF DueInv

LEMMA DueUser ==
  ASSUME Setting, TypeOK, EachConsume, EachAtCall, EachDue, NEW t \in Task, User(t)
  PROVE  EachDue'
<1>0. /\ userPc \in [Task -> UserPcs] /\ ip \in [Task -> Nat \ {0}] /\ slack \in [Task -> Int]
      /\ burst \in [Task -> Nat] /\ left \in [Task -> Nat]
      /\ AtCall(t) /\ ConsumeInv(t) /\ DueInv(t)
      /\ thread = t => userPc[t] = "call" /\ t \notin runUser
      /\ Period[t] \in Nat /\ t # NoTask
  BY ConstantTypes, SchedulingAssumption DEF TypeOK, EachAtCall, EachConsume, EachDue, ConsumeInv
<1>1. /\ release'[t] = release[t]
      /\ Release(t) \in pending' <=> Release(t) \in pending
  BY UserLeaves
<1>2. \A u \in Task \ {t} : DueInv(u)'
  BY DueOthers
<1>3. ASSUME NEW pc \in UserPcs \ {"wait_release", "consuming", "call"}, WaitAt(t, pc),
             userPc[t] # "done", slack' = slack
      PROVE  DueInv(t)'
  <2>1. userPc'[t] = pc
    BY <1>0, <1>3 DEF WaitAt
  <2> QED  BY <1>0, <1>1, <1>3, <2>1, DueKept
\* The next call ends no job, or the one before it was instantaneous.
<1>4. ASSUME NextCall(t), userPc[t] # "done", slack' = slack,
             ~(Ops(t, ip[t]) \subseteq {"consume"}),
             Ops(t, ip[t]) \subseteq InstantCalls => userPc[t] = "call" /\ ip[t] <= Len(Script[t])
      PROVE  DueInv(t)'
  <2>1. userPc'[t] = "call" /\ ip'[t] = Following(t, ip[t])
    BY <1>0, <1>4 DEF NextCall, Following
  <2>2. AfterWork(t, ip'[t]) => userPc[t] = "call" /\ ip[t] <= Len(Script[t]) /\ AfterWork(t, ip[t])
    BY <1>0, <1>4, <2>1, AfterWorkBack
  <2>3. AfterWork(t, ip'[t]) /\ slack[t] = 0 /\ Period[t] > 0 => Release(t) \in pending
    BY <1>0, <1>4, <2>2 DEF DueInv
  <2>4. CASE Period[t] > 0
    BY <1>0, <1>1, <1>4, <2>1, <2>3, <2>4, DueKept
  <2>5. CASE ~(Period[t] > 0)
    BY <2>5 DEF DueInv
  <2> QED  BY <2>4, <2>5
<1>5. ASSUME NEW op, op \notin {"consume"}, Calls(t, op), NextCall(t), slack' = slack
      PROVE  DueInv(t)'
  <2>1. op \in Ops(t, ip[t]) /\ ip[t] <= Len(Script[t]) /\ userPc[t] = "call"
    BY <1>0, <1>5 DEF Calls, Ops
  <2>2. ~(Ops(t, ip[t]) \subseteq {"consume"}) /\ userPc[t] # "done"
    BY <1>5, <2>1
  <2> QED  BY <1>4, <1>5, <2>1, <2>2
<1>6. ASSUME userPc[t] \in InLongCall, NextCall(t), slack' = slack
      PROVE  DueInv(t)'
  <2>1. ~(Ops(t, ip[t]) \subseteq {"consume"}) /\ ~(Ops(t, ip[t]) \subseteq InstantCalls)
    BY <1>0, <1>6 DEF AtCall, ShortCalls
  <2>2. userPc[t] # "done"
    BY <1>6 DEF InLongCall
  <2> QED  BY <1>4, <1>6, <2>1, <2>2
<1>7. /\ {"yielded", "sem_wait", "event_wait", "guard", "done", "consume_guard"}
           \subseteq UserPcs \ {"wait_release", "consuming", "call"}
      /\ {"yielded", "sem_wait", "event_wait", "guard", "wait_release"} \subseteq InLongCall
      /\ "done" \notin InLongCall /\ "done" # "call" /\ "done" # "dormant"
      /\ {"yield", "sem_wait", "event_wait", "sem_post", "event_set", "event_unset"} \cap {"consume"} = {}
  BY DEF UserPcs, InLongCall
<1>8. DueInv(t)'
  <2> USE DEF Resumed, userFrame
  <2>1. CASE UserStart(t)
    <3>1. userPc'[t] = "call" /\ ip'[t] = 1 /\ slack' = slack /\ userPc[t] = "dormant"
      BY <1>0, <2>1 DEF UserStart, AtCall
    <3>2. ~AfterWork(t, 1)
      BY DEF AfterWork
    <3> QED  BY <1>0, <1>1, <3>1, <3>2, DueKept
  <2>2. CASE GuardPassed(t) \/ YieldResumed(t)
    <3>1. NextCall(t) /\ slack' = slack /\ userPc[t] \in {"guard", "yielded"}
      BY <2>2 DEF GuardPassed, YieldResumed
    <3> QED  BY <1>6, <1>7, <3>1
  <2>3. CASE SemWoken(t) \/ EventWoken(t)
    <3>1. /\ NextCall(t) \/ WaitAt(t, "guard") \/ WaitAt(t, "sem_wait")
          /\ slack' = slack /\ userPc[t] \in {"sem_wait", "event_wait"}
      BY <2>3 DEF SemWoken, EventWoken, NextCallIfActive
    <3> QED  BY <1>3, <1>6, <1>7, <3>1
  <2>4. CASE SemPosts(t) \/ EventSets(t) \/ EventUnsets(t)
    <3>1. /\ NextCall(t) /\ slack' = slack
          /\ Calls(t, "sem_post") \/ Calls(t, "event_set") \/ Calls(t, "event_unset")
      BY <2>4 DEF SemPosts, EventSets, EventUnsets
    <3> QED  BY <1>5, <1>7, <3>1
  <2>5. CASE SemTaken(t) \/ EventTaken(t)
    <3>1. /\ NextCall(t) \/ WaitAt(t, "guard")
          /\ slack' = slack /\ userPc[t] = "call"
          /\ Calls(t, "sem_wait") \/ Calls(t, "event_wait")
      BY <1>0, <2>5 DEF SemTaken, EventTaken, NextCallIfActive, Calls
    <3> QED  BY <1>3, <1>5, <1>7, <3>1
  <2>6. CASE YieldCall(t) \/ SemBlocks(t) \/ EventBlocks(t) \/ UserEnds(t)
    <3>1. /\ WaitAt(t, "yielded") \/ WaitAt(t, "sem_wait") \/ WaitAt(t, "event_wait") \/ WaitAt(t, "done")
          /\ slack' = slack /\ userPc[t] = "call"
      BY <1>0, <2>6 DEF YieldCall, SemBlocks, EventBlocks, UserEnds, Calls
    <3> QED  BY <1>3, <1>7, <3>1
  <2>7. CASE ConsumeCall(t) \/ ConsumeActivated(t)
    <3>1. /\ userPc'[t] = "consume_guard" \/ (userPc'[t] = "consuming" /\ burst'[t] # 0)
          /\ slack' = slack /\ userPc[t] \in {"call", "consume_guard"}
      <4>1. CASE ConsumeCall(t)
        <5>1. PICK c \in Script[t][ip[t]] :
                /\ c.op = "consume"
                /\ \/ WaitAt(t, "consume_guard")
                   \/ WaitAt(t, "consuming") /\ burst' = [burst EXCEPT ![t] = c.time]
          BY <4>1 DEF ConsumeCall
        <5>2. c.time \in Nat \ {0}
          <6>1. Script[t] \in Seq(SUBSET Call)
            BY SchedulingAssumption
          <6>2. ip[t] \in 1..Len(Script[t])
            BY <1>0, <4>1, <6>1 DEF ConsumeCall, Calls
          <6>3. c \in Call
            BY <5>1, <6>1, <6>2
          <6> QED  BY <5>1, <6>3 DEF Call
        <5>3. slack' = slack /\ userPc[t] = "call"
          BY <1>0, <4>1 DEF ConsumeCall, Calls
        <5> QED  BY <1>0, <5>1, <5>2, <5>3 DEF WaitAt
      <4>2. CASE ConsumeActivated(t)
        <5>1. /\ userPc[t] = "consume_guard" /\ slack' = slack /\ left[t] > 0
              /\ userPc'[t] = "consuming" /\ burst'[t] = left[t]
          BY <1>0, <4>2 DEF ConsumeActivated, WaitAt, ConsumeInv
        <5> QED  BY <5>1
      <4> QED  BY <2>7, <4>1, <4>2
    <3>2. /\ userPc'[t] # "wait_release" /\ userPc'[t] # "call" /\ userPc[t] # "done"
          /\ ~(userPc'[t] = "consuming" /\ burst'[t] = 0) /\ slack'[t] = slack[t]
      BY <3>1
    <3> QED  BY <1>0, <1>1, <3>2, DueKept
  <2>8. CASE ConsumePreempted(t)
    <3>1. WaitAt(t, "consume_guard") /\ slack' = slack /\ userPc[t] = "consuming"
      BY <2>8 DEF ConsumePreempted
    <3> QED  BY <1>3, <1>7, <3>1
  <2>9. CASE ConsumeEnds(t)
    <3>1. /\ userPc'[t] = "call" /\ slack' = slack
          /\ userPc[t] = "consuming" /\ burst[t] = 0
      BY <1>0, <2>9 DEF ConsumeEnds, NextCall
    <3> QED  BY <1>0, <1>1, <3>1 DEF DueInv
  <2>10. CASE WaitPeriodCall(t)
    <3>1. /\ userPc'[t] = "wait_release" /\ slack' = slack /\ runUser' = runUser /\ thread = t
          /\ Calls(t, "wait_period")
      BY <1>0, <2>10 DEF WaitPeriodCall, WaitAt, Calls
    <3>2. AfterWork(t, ip[t]) /\ ip[t] <= Len(Script[t])
      <4>1. ip[t] \in 1..Len(Script[t]) /\ "wait_period" \in Ops(t, ip[t])
        <5>1. Script[t] \in Seq(SUBSET Call)
          BY SchedulingAssumption
        <5>2. Len(Script[t]) \in Nat
          BY <5>1
        <5> QED  BY <1>0, <3>1, <5>2 DEF Calls, Ops
      <4> QED  BY <4>1 DEF Setting, JobsEndWithWork
    <3> QED  BY <1>0, <1>1, <3>1, <3>2 DEF DueInv
  <2>11. CASE WaitPeriodMissed(t)
    <3>1. slack[t] < 0 /\ userPc[t] = "call" /\ Calls(t, "wait_period")
      BY <1>0, <2>11 DEF WaitPeriodMissed, Calls
    <3>2. CASE Period[t] > 0
      BY <1>0, <3>1, <3>2 DEF DueInv
    <3>3. CASE ~(Period[t] > 0)
      BY <3>3 DEF DueInv
    <3> QED  BY <3>2, <3>3
  <2>12. CASE WaitPeriodReleased(t)
    <3>1. /\ userPc[t] = "wait_release" /\ t \in runUser
          /\ slack'[t] = slack[t] + Period[t]
          /\ userPc'[t] \in {"call", "guard"}
      BY <1>0, <2>12 DEF WaitPeriodReleased, NextCallIfActive, NextCall, WaitAt
    <3> QED  BY <1>0, <1>1, <3>1 DEF DueInv
  <2> QED  BY <2>1, <2>2, <2>3, <2>4, <2>5, <2>6, <2>7, <2>8, <2>9, <2>10, <2>11, <2>12 DEF User
<1> QED  BY <1>2, <1>8 DEF EachDue

\* The release generator notifies the release when the deadline is reached.
LEMMA DueTime ==
  ASSUME ImplicitDeadlines, TypeOK, EachConsume, EachDue, AdvanceTime, DeadlinesMet'
  PROVE  EachDue'
<1> SUFFICES ASSUME NEW t \in Task, Period[t] > 0, userPc[t] # "done"  PROVE DueInv(t)'
  BY DEF EachDue, DueInv, AdvanceTime
<1> DEFINE d == Least(Timeouts)
<1>1. /\ pending = {} /\ runUser = {} /\ thread = NoTask
      /\ UNCHANGED <<thread, userPc, ip>>
      /\ runUser' = {u \in Task : burst[u] = d}
      /\ burst'[t] = IF burst[t] = 0 THEN 0 ELSE burst[t] - d
      /\ slack'[t] = slack[t] - d
      /\ release'[t] = IF release[t] = d THEN Period[t] ELSE IF release[t] = 0 THEN 0 ELSE release[t] - d
      /\ pending' = {Release(u) : u \in {x \in Task : release[x] = d}}
                      \cup IF tick = d THEN {Notify("tick_timer")} ELSE {}
  BY DEF AdvanceTime, Quiescent, EvaluationOver, DeadlineCounts
<1>2. d \in Nat /\ d > 0 /\ (release[t] > 0 => d <= release[t])
  <2>1. Timeouts \in SUBSET Nat /\ Timeouts # {} /\ (release[t] > 0 => release[t] \in Timeouts)
    BY DEF TypeOK, Timeouts, AdvanceTime
  <2>2. \A x \in Timeouts : d <= x
    BY <2>1, LeastIsLeast
  <2> QED  BY <2>1, <2>2, TimePasses
<1>3. Release(t) \in pending' <=> release[t] = d
  BY <1>1 DEF Release, Notify
<1>4. slack'[t] >= 0
  BY <1>1 DEF DeadlinesMet, DeadlineCounts
<1>5. /\ release[t] \in 1..Period[t] /\ Period[t] \in Nat /\ slack[t] \in Int /\ burst[t] \in Nat
      /\ slack[t] = release[t] \/ slack[t] = 0
  BY SchedulingAssumption DEF EachDue, DueInv, TypeOK
<1> HIDE DEF d
<1>6. slack[t] = release[t]
  BY <1>1, <1>2, <1>4, <1>5
<1>7. t \in runUser' => userPc[t] = "consuming"
  BY <1>1, <1>2, <1>5 DEF EachConsume, ConsumeInv
<1>8. slack'[t] = 0 => Release(t) \in pending'
  BY <1>1, <1>2, <1>3, <1>5, <1>6
<1>9. /\ release'[t] \in 1..Period[t]
      /\ slack'[t] = release'[t] \/ (slack'[t] = 0 /\ release'[t] = Period[t])
      /\ Release(t) \in pending' => slack'[t] = 0
  BY <1>1, <1>2, <1>3, <1>5, <1>6
<1>10. userPc'[t] = "wait_release" => t \notin runUser'
  BY <1>1, <1>7
<1> QED  BY <1>8, <1>9, <1>10 DEF DueInv

\* The delta cycle takes the release to the thread that waits for it.
LEMMA DueDelta ==
  ASSUME TypeOK, EachConsume, EachAtCall, EachDue, DeltaCycle
  PROVE  EachDue'
<1> SUFFICES ASSUME NEW t \in Task, Period[t] > 0, userPc[t] # "done"  PROVE DueInv(t)'
  BY DEF EachDue, DueInv, DeltaCycle, taskVars
<1>1. /\ runUser = {} /\ thread = NoTask /\ t # NoTask /\ pending' = {}
      /\ runUser' = {u \in Task : UserSensitivity(u) \cap Fired # {}}
      /\ UNCHANGED <<userPc, ip, burst, slack, release>>
  BY ConstantTypes DEF DeltaCycle, EvaluationOver, taskVars
<1>2. Release(t) \in Fired <=> Release(t) \in pending
  BY DEF Fired, Release, Pos, Neg
<1>3. userPc[t] = "wait_release" => (t \in runUser' <=> Release(t) \in pending)
  BY <1>1, <1>2 DEF UserSensitivity
<1>4. userPc[t] # "call" /\ ~(userPc[t] = "consuming" /\ burst[t] = 0)
  BY <1>1 DEF EachAtCall, AtCall, EachConsume, ConsumeInv
<1>5. DueInv(t)
  BY DEF EachDue
<1> QED  BY <1>1, <1>3, <1>4, <1>5 DEF DueInv

\* The scheduler and the state machines leave the tasks' timing alone.
LEMMA DueIdle ==
  ASSUME EachDue, UNCHANGED <<runUser, taskVars>>,
         \A t \in Task : Release(t) \in pending' => Release(t) \in pending, pending \subseteq pending'
  PROVE  EachDue'
BY DEF EachDue, DueInv, taskVars

LEMMA DueNext ==
  ASSUME Setting, TypeOK, EachConsume, EachAtCall, EachDue, Next, DeadlinesMet'
  PROVE  EachDue'
<1>1. CASE SchedResume \/ SchedSecondDelta \/ SchedDispatch
  <2>1. UNCHANGED <<runUser, taskVars>> /\ pending' \in {pending, pending \cup {Notify("zero_time")}}
    BY <1>1 DEF SchedResume, SchedSecondDelta, SchedDispatch
  <2>2. \A t \in Task : Release(t) # Notify("zero_time")
    BY DEF Release, Notify
  <2> QED  BY <2>1, <2>2, DueIdle
<1>2. ASSUME NEW t \in Task, Fsm(t)  PROVE EachDue'
  <2>1. UNCHANGED <<runUser, taskVars>> /\ \E E \in SUBSET FsmEvents : pending' = pending \cup {Notify(e) : e \in E}
    BY <1>2, FsmStep
  <2>2. \A u \in Task, e \in FsmEvents : Release(u) # Notify(e)
    BY DEF Release, Notify, FsmEvents
  <2> QED  BY <2>1, <2>2, DueIdle
<1> QED  BY <1>1, <1>2, DueUser, DueTime, DueDelta DEF Next, Setting

LEMMA DueInit == Setting /\ Init => EachDue
<1> SUFFICES ASSUME Setting, Init, NEW t \in Task, Period[t] > 0  PROVE DueInv(t)
  BY DEF EachDue, DueInv
<1>1. Period[t] \in Nat /\ Deadline[t] \in {0, Period[t]}
  BY SchedulingAssumption DEF Setting, ImplicitDeadlines
<1>2. release[t] = Period[t] /\ slack[t] = Period[t] /\ userPc[t] = "dormant"
  BY <1>1 DEF Init
<1>3. Release(t) \notin pending
  BY DEF Init, Release, Notify
<1> QED  BY <1>1, <1>2, <1>3 DEF DueInv

LEMMA DueAlways == Setting /\ Spec /\ []DeadlinesMet => []EachDue
<1> DEFINE Known == TypeOK /\ EachConsume /\ EachAtCall
           Inv   == Setting /\ EachDue
<1>1. Setting /\ Init => Inv
  BY DueInit
<1>2. Setting => Setting'
  BY DEF Setting, Preemptive, ImplicitDeadlines, JobsEndWithWork, AfterWork, Ops, InstantCalls
<1>3. Known /\ Inv /\ Next /\ DeadlinesMet' => Inv'
  BY <1>2, DueNext
<1>4. Inv /\ UNCHANGED vars => Inv'
  <2>1. UNCHANGED vars => UNCHANGED <<pending, runUser, userPc, ip, burst, slack, release>>
    BY DEF vars, kernelVars, taskVars
  <2> QED  BY <1>2, <2>1 DEF EachDue, DueInv
<1>5. Setting /\ Spec => []Known
  <2>1. Setting => Preemptive
    BY DEF Setting
  <2> QED  BY <2>1, TypeCorrect, ConsumeAlways, AtCallAlways, PTL
<1>6. Inv => EachDue
  OBVIOUS
<1> HIDE DEF Known, Inv
<1> QED  BY <1>1, <1>3, <1>4, <1>5, <1>6, PTL DEF Spec

\* A periodic task whose deadlines are its periods, and whose jobs consume before
\* they call wait_period, never sleeps through the release it is due at, as long
\* as no deadline is missed: it is in wait_period when the release fires, or has
\* just reached it in the evaluate phase in which the release is notified.
THEOREM ResumesAtDueTriggerWhenMet ==
  Preemptive /\ ImplicitDeadlines /\ JobsEndWithWork /\ Spec /\ []DeadlinesMet => []ResumesAtDueTrigger
<1>1. TypeOK /\ EachAtCall /\ EachDue => ResumesAtDueTrigger
  <2> SUFFICES ASSUME TypeOK, EachAtCall, EachDue, Quiescent, NEW t \in Task, userPc[t] = "wait_release"
               PROVE  slack[t] = release[t]
    BY DEF ResumesAtDueTrigger
  <2> QED  BY DEF EachAtCall, AtCall, EachDue, DueInv, Quiescent, EvaluationOver
<1>2. Setting => Preemptive
  BY DEF Setting
<1>3. Setting /\ Spec /\ []DeadlinesMet => []ResumesAtDueTrigger
  BY <1>1, <1>2, DueAlways, AtCallAlways, TypeCorrect, PTL
<1> QED  BY <1>3 DEF Setting

-----------------------------------------------------------------------------
(***************************************************************************)
(* The maximum response time.  The thread that accounts it follows the job *)
(* unless a job ends at the very instant of the next release: it then      *)
(* misses that release, but has accounted a whole period, the longest      *)
(* response of a job that meets its deadline.                              *)
(***************************************************************************)
InSync(t) == respPc[t] = "end_response_event"

\* The measure of the job in progress, and of the job that has just ended.
ResponseInv(t) ==
  /\ worst[t] \in 0..Period[t] /\ maxResponse[t] \in 0..Period[t] /\ since[t] \in 0..Period[t]
  /\ respPc[t] \in {"end_response_event", "task_release_event"}
  /\ userPc[t] = "wait_release" /\ InSync(t) =>
       IF t \in runUser THEN since[t] = 0 ELSE EndResponse(t) \in pending
  /\ EndResponse(t) \in pending => userPc[t] = "wait_release" /\ t \notin runUser
  /\ EndResponse(t) \notin pending \/ ~InSync(t) => maxResponse[t] = worst[t]
  /\ EndResponse(t) \in pending /\ InSync(t) =>
       worst[t] = IF since[t] > maxResponse[t] THEN since[t] ELSE maxResponse[t]
  /\ ~InSync(t) /\ (userPc[t] # "wait_release" \/ t \in runUser \/ EndResponse(t) \in pending) =>
       worst[t] = Period[t]
  /\ Period[t] > 0 /\ userPc[t] # "done" /\ InSync(t) =>
       /\ since[t] <= Period[t] - slack[t]
       /\ worst[t] # Period[t] /\ ~(userPc[t] = "wait_release" /\ t \in runUser) =>
            since[t] = Period[t] - slack[t]

EachResponse == \A t \in Task : ResponseInv(t)

ResponseVars == <<worst, maxResponse, since, respPc>>

\* A step that is not one of wait_period.
LEMMA NotOfWaitPeriod ==
  ASSUME TypeOK, NEW t \in Task, ConsumeInv(t), User(t),
         ~WaitPeriodCall(t), ~WaitPeriodMissed(t), ~WaitPeriodReleased(t)
  PROVE  /\ slack' = slack /\ userPc[t] \notin {"wait_release", "done"} /\ userPc'[t] # "wait_release"
         /\ EndResponse(t) \in pending' => EndResponse(t) \in pending
<1> DEFINE Result == /\ slack' = slack /\ userPc[t] \notin {"wait_release", "done"}
                     /\ userPc'[t] # "wait_release"
                     /\ EndResponse(t) \in pending' => EndResponse(t) \in pending
<1>0. /\ userPc \in [Task -> UserPcs] /\ (thread = t => userPc[t] = "call")
      /\ EndResponse(t) # Notify("yield") /\ EndResponse(t) # Notify("user_event")
  BY ConstantTypes DEF TypeOK, ConsumeInv, EndResponse, Notify
<1> USE DEF Resumed, Calls, userFrame, WaitAt, NextCall, NextCallIfActive
<1>1. CASE UserStart(t) \/ GuardPassed(t) \/ UserEnds(t)
  BY <1>0, <1>1 DEF UserStart, GuardPassed, UserEnds
<1>2. CASE ConsumeCall(t)
  BY <1>0, <1>2 DEF ConsumeCall
<1>3. CASE ConsumeActivated(t) \/ ConsumePreempted(t) \/ ConsumeEnds(t)
  BY <1>0, <1>3 DEF ConsumeActivated, ConsumePreempted, ConsumeEnds
<1>4. CASE YieldCall(t) \/ YieldResumed(t)
  BY <1>0, <1>4 DEF YieldCall, YieldResumed
<1>5. CASE SemTaken(t) \/ SemBlocks(t) \/ SemWoken(t) \/ SemPosts(t)
  BY <1>0, <1>5 DEF SemTaken, SemBlocks, SemWoken, SemPosts
<1>6. CASE EventSets(t) \/ EventUnsets(t) \/ EventTaken(t) \/ EventBlocks(t) \/ EventWoken(t)
  BY <1>0, <1>6 DEF EventSets, EventUnsets, EventTaken, EventBlocks, EventWoken
<1> QED  BY <1>1, <1>2, <1>3, <1>4, <1>5, <1>6 DEF User

LEMMA JobsGoOn ==
  ASSUME AccountingIdle, NEW t \in Task, EndResponse(t) \in pending' => EndResponse(t) \in pending
  PROVE  worst'[t] = worst[t]
BY DEF AccountingIdle, JobsEnd

LEMMA ResponseUser ==
  ASSUME Setting, TypeOK, EachConsume, EachAtCall, EachDue, EachResponse, AccountingIdle,
         NEW t \in Task, User(t)
  PROVE  ResponseInv(t)'
<1>1. /\ ResponseInv(t) /\ ConsumeInv(t) /\ DueInv(t) /\ AtCall(t)
      /\ userPc \in [Task -> UserPcs] /\ slack \in [Task -> Int] /\ Period[t] \in Nat
      /\ Deadline[t] \in {0, Period[t]}
      /\ maxResponse' = maxResponse /\ since' = since /\ respPc' = respPc
      /\ pending \subseteq pending'
  BY SchedulingAssumption, UserLeaves
     DEF EachResponse, EachConsume, EachDue, EachAtCall, TypeOK, Setting, ImplicitDeadlines, AccountingIdle
<1>2. thread = t => userPc[t] = "call" /\ t \notin runUser
  BY <1>1 DEF ConsumeInv
<1>3. Period[t] > 0 /\ userPc[t] # "done" => slack[t] \in 0..Period[t]
  BY <1>1 DEF DueInv
<1>4. CASE WaitPeriodCall(t)
  <2>1. /\ userPc[t] = "call" /\ userPc'[t] = "wait_release" /\ slack' = slack
        /\ t \notin runUser' /\ pending' = pending \cup {EndResponse(t)}
    BY <1>1, <1>2, <1>4 DEF WaitPeriodCall, Calls, WaitAt
  <2>2. EndResponse(t) \notin pending /\ EndResponse(t) \in pending'
    BY <1>1, <2>1 DEF ResponseInv
  <2>3. Period[t] > 0
    <3>1. AtCall(t)'
      BY AtCallUser DEF EachConsume, EachAtCall
    <3> QED  BY <2>1, <3>1 DEF AtCall
  <2>4. JobResponse(t) = Period[t] - slack[t]
    BY <1>1, <2>3 DEF JobResponse
  <2>5. worst'[t] = IF Period[t] - slack[t] > worst[t] THEN Period[t] - slack[t] ELSE worst[t]
    BY <2>2, <2>4 DEF AccountingIdle, JobsEnd
  <2>6. slack[t] \in 0..Period[t]
    BY <1>3, <2>1, <2>3
  <2>7. /\ worst[t] \in 0..Period[t] /\ maxResponse[t] = worst[t] /\ since[t] \in 0..Period[t]
        /\ ~InSync(t) => worst[t] = Period[t]
        /\ InSync(t) => /\ since[t] <= Period[t] - slack[t]
                        /\ worst[t] # Period[t] => since[t] = Period[t] - slack[t]
    BY <1>1, <2>1, <2>2, <2>3 DEF ResponseInv
  <2>8. InSync(t)' <=> InSync(t)
    BY <1>1 DEF InSync
  <2>9. /\ worst'[t] \in 0..Period[t]
        /\ ~InSync(t) => worst'[t] = Period[t] /\ worst'[t] = maxResponse[t]
        /\ InSync(t) => worst'[t] = IF since[t] > maxResponse[t] THEN since[t] ELSE maxResponse[t]
        /\ InSync(t) /\ worst'[t] # Period[t] => since[t] = Period[t] - slack[t]
    BY <2>5, <2>6, <2>7
  <2> QED  BY <1>1, <2>1, <2>2, <2>3, <2>7, <2>8, <2>9 DEF ResponseInv
<1>5. CASE WaitPeriodMissed(t)
  <2>1. slack[t] < 0 /\ userPc[t] = "call" /\ Period[t] > 0
    <3>1. Calls(t, "wait_period")
      BY <1>5 DEF WaitPeriodMissed
    <3>2. Script[t] \in Seq(SUBSET Call)
      BY SchedulingAssumption
    <3>3. ip[t] \in 1..Len(Script[t])
      BY <3>1, <3>2 DEF Calls, TypeOK
    <3> QED  BY <1>2, <1>5, <3>1, <3>3, SchedulingAssumption DEF WaitPeriodMissed, Calls
  <2> QED  BY <1>1, <1>3, <2>1
<1>6. CASE WaitPeriodReleased(t)
  <2>1. /\ userPc[t] = "wait_release" /\ t \in runUser /\ userPc'[t] \in {"call", "guard"}
        /\ slack'[t] = slack[t] + Period[t] /\ pending' = pending
    BY <1>1, <1>6 DEF WaitPeriodReleased, Resumed, NextCallIfActive, NextCall, WaitAt
  <2>2. Period[t] > 0 /\ slack[t] = 0
    BY <1>1, <2>1 DEF AtCall, DueInv
  <2>3. worst'[t] = worst[t]
    BY <2>1, JobsGoOn
  <2> QED  BY <1>1, <2>1, <2>2, <2>3 DEF ResponseInv, InSync
<1>7. CASE ~WaitPeriodCall(t) /\ ~WaitPeriodMissed(t) /\ ~WaitPeriodReleased(t)
  <2>1. /\ slack' = slack /\ userPc[t] \notin {"wait_release", "done"} /\ userPc'[t] # "wait_release"
        /\ EndResponse(t) \in pending' => EndResponse(t) \in pending
    BY <1>1, <1>7, NotOfWaitPeriod
  <2>2. worst'[t] = worst[t]
    BY <2>1, JobsGoOn
  <2> QED  BY <1>1, <2>1, <2>2 DEF ResponseInv, InSync
<1> QED  BY <1>4, <1>5, <1>6, <1>7

LEMMA ResponseIdle ==
  ASSUME Setting, TypeOK, EachConsume, EachAtCall, EachDue, EachResponse, AccountingIdle
  PROVE  EachResponse'
<1> SUFFICES ASSUME NEW t \in Task  PROVE ResponseInv(t)'
  BY DEF EachResponse
<1>1. ResponseInv(t) /\ UNCHANGED <<respPc, since, maxResponse>>
  BY DEF EachResponse, AccountingIdle
<1>2. SUFFICES ASSUME /\ EndResponse(t) \in pending' <=> EndResponse(t) \in pending
                      /\ userPc'[t] = userPc[t] /\ slack'[t] = slack[t]
                      /\ userPc[t] = "wait_release" => (t \in runUser' <=> t \in runUser)
               PROVE  ResponseInv(t)'
  <2>1. CASE SchedResume \/ SchedSecondDelta \/ SchedDispatch
    <3>1. /\ UNCHANGED <<runUser, taskVars>>
          /\ pending' \in {pending, pending \cup {Notify("zero_time")}}
      BY <2>1 DEF SchedResume, SchedSecondDelta, SchedDispatch
    <3>2. EndResponse(t) # Notify("zero_time")
      BY DEF EndResponse, Notify
    <3> QED  BY <1>2, <3>1, <3>2 DEF taskVars
  <2>2. ASSUME NEW u \in Task, Fsm(u)  PROVE ResponseInv(t)'
    <3>1. /\ UNCHANGED <<runUser, taskVars>>
          /\ \E E \in SUBSET FsmEvents : pending' = pending \cup {Notify(e) : e \in E}
      BY <2>2, FsmStep
    <3>2. \A e \in FsmEvents : EndResponse(t) # Notify(e)
      BY DEF EndResponse, Notify, FsmEvents
    <3> QED  BY <1>2, <3>1, <3>2 DEF taskVars
  <2>3. ASSUME NEW u \in Task \ {t}, User(u)  PROVE ResponseInv(t)'
    <3>1. /\ userPc'[t] = userPc[t] /\ slack'[t] = slack[t]
          /\ userPc[t] = "wait_release" => (t \in runUser' <=> t \in runUser)
          /\ pending \subseteq pending'
      BY <2>3, CallsInOrder, UserLeaves
    <3>2. EndResponse(t) \notin UserEvents(u)
      BY DEF UserEvents, EndResponse, Notify
    <3>3. EndResponse(t) \in pending' => EndResponse(t) \in pending
      BY <2>3, <3>2, UserWritesLines DEF UserWrites
    <3> QED  BY <1>2, <3>1, <3>3
  <2>4. User(t) => ResponseInv(t)'
    BY ResponseUser
  <2> QED  BY <2>1, <2>2, <2>3, <2>4 DEF AccountingIdle
<1>3. worst'[t] = worst[t]
  BY <1>2, JobsGoOn
<1> QED  BY <1>1, <1>2, <1>3 DEF ResponseInv, InSync

LEMMA ResponseDelta ==
  ASSUME TypeOK, EachDue, EachResponse, AccountingDelta
  PROVE  EachResponse'
<1> SUFFICES ASSUME NEW t \in Task  PROVE ResponseInv(t)'
  BY DEF EachResponse
<1>1. /\ runUser = {} /\ pending' = {} /\ worst' = worst
      /\ runUser' = {u \in Task : UserSensitivity(u) \cap Fired # {}}
      /\ UNCHANGED <<userPc, slack>> /\ ResponseAccounted
  BY DEF AccountingDelta, DeltaCycle, EvaluationOver, taskVars
<1>2. /\ Release(t) \in Fired <=> Release(t) \in pending
      /\ EndResponse(t) \in Fired <=> EndResponse(t) \in pending
  BY DEF Fired, Release, EndResponse, Pos, Neg
<1>3. userPc[t] = "wait_release" => (t \in runUser' <=> Release(t) \in pending)
  BY <1>1, <1>2 DEF UserSensitivity
<1>4. ResponseInv(t) /\ DueInv(t) /\ Period[t] \in Nat /\ slack[t] \in Int
  BY SchedulingAssumption DEF EachResponse, EachDue, TypeOK
<1>5. Period[t] > 0 /\ userPc[t] # "done" =>
        slack[t] \in 0..Period[t] /\ (Release(t) \in pending => slack[t] = 0)
  BY <1>4 DEF DueInv
\* The end of the response is accounted.
<1>6. CASE InSync(t) /\ EndResponse(t) \in pending
  <2>1. /\ maxResponse'[t] = IF since[t] > maxResponse[t] THEN since[t] ELSE maxResponse[t]
        /\ since'[t] = 0 /\ respPc'[t] = "task_release_event"
    BY <1>1, <1>2, <1>6 DEF ResponseAccounted, InSync
  <2>2. userPc[t] = "wait_release" /\ t \notin runUser /\ worst[t] = maxResponse'[t]
    BY <1>4, <1>6, <2>1 DEF ResponseInv
  <2>3. t \in runUser' => worst[t] = Period[t]
    <3>1. SUFFICES ASSUME Release(t) \in pending  PROVE worst[t] = Period[t]
      BY <1>3, <2>2
    <3>2. CASE Period[t] = 0
      BY <1>4, <3>2 DEF ResponseInv
    <3>3. CASE Period[t] > 0 /\ worst[t] # Period[t]
      <4>1. slack[t] = 0 /\ since[t] = Period[t]
        BY <1>4, <1>5, <1>6, <2>2, <3>1, <3>3 DEF ResponseInv
      <4>2. worst[t] = Period[t]
        BY <1>4, <2>1, <2>2, <4>1 DEF ResponseInv
      <4> QED  BY <3>3, <4>2
    <3> QED  BY <1>4, <3>2, <3>3
  <2>4. maxResponse'[t] \in 0..Period[t] /\ since'[t] \in 0..Period[t] /\ worst'[t] \in 0..Period[t]
    BY <1>1, <1>4, <2>1 DEF ResponseInv
  <2> QED  BY <1>1, <2>1, <2>2, <2>3, <2>4 DEF ResponseInv, InSync
\* The release starts the measure of the next response.
<1>7. CASE ~InSync(t) /\ Release(t) \in pending
  <2>1. respPc[t] = "task_release_event"
    BY <1>4, <1>7 DEF ResponseInv, InSync
  <2>2. maxResponse'[t] = maxResponse[t] /\ since'[t] = 0 /\ respPc'[t] = "end_response_event"
    BY <1>1, <1>2, <1>7, <2>1 DEF ResponseAccounted
  <2>3. maxResponse[t] = worst[t] /\ (userPc[t] # "wait_release" => worst[t] = Period[t])
    BY <1>4, <1>7 DEF ResponseInv
  <2>4. userPc[t] = "wait_release" => t \in runUser'
    BY <1>3, <1>7
  <2>5. maxResponse'[t] \in 0..Period[t] /\ since'[t] \in 0..Period[t] /\ worst'[t] \in 0..Period[t]
    BY <1>1, <1>4, <2>2 DEF ResponseInv
  <2> QED  BY <1>1, <1>5, <1>4, <2>2, <2>3, <2>4, <2>5 DEF ResponseInv, InSync
\* Nothing the thread waits for.
<1>8. CASE ~(InSync(t) /\ EndResponse(t) \in pending) /\ ~(~InSync(t) /\ Release(t) \in pending)
  <2>1. respPc[t] \in {"end_response_event", "task_release_event"}
    BY <1>4 DEF ResponseInv
  <2>2. maxResponse'[t] = maxResponse[t] /\ since'[t] = since[t] /\ respPc'[t] = respPc[t]
    BY <1>1, <1>2, <1>8, <2>1 DEF ResponseAccounted, InSync
  <2>3. /\ InSync(t) => userPc[t] # "wait_release"
        /\ ~InSync(t) /\ userPc[t] = "wait_release" => t \notin runUser'
    BY <1>1, <1>3, <1>4, <1>8 DEF ResponseInv
  <2>4. maxResponse[t] = worst[t]
    BY <1>4, <1>8 DEF ResponseInv
  <2>5. InSync(t)' <=> InSync(t)
    BY <2>2 DEF InSync
  <2> QED  BY <1>1, <1>4, <2>2, <2>3, <2>4, <2>5 DEF ResponseInv
<1> QED  BY <1>6, <1>7, <1>8

LEMMA ResponseTime ==
  ASSUME TypeOK, EachConsume, EachDue, EachResponse, AccountingTime, DeadlinesMet'
  PROVE  EachResponse'
<1> SUFFICES ASSUME NEW t \in Task  PROVE ResponseInv(t)'
  BY DEF EachResponse
<1> DEFINE d == Least(Timeouts)
<1>1. /\ pending = {} /\ runUser = {} /\ Timeouts # {}
      /\ runUser' = {u \in Task : burst[u] = d}
      /\ pending' = {Release(u) : u \in {x \in Task : release[x] = d}}
                      \cup IF tick = d THEN {Notify("tick_timer")} ELSE {}
      /\ UNCHANGED <<userPc, respPc, maxResponse, worst>>
  BY DEF AccountingTime, AdvanceTime, Quiescent, EvaluationOver
<1>2. /\ slack'[t] = IF DeadlineCounts(t) THEN slack[t] - d ELSE slack[t]
      /\ since'[t] = IF DeadlineCounts(t) /\ InSync(t) THEN since[t] + d ELSE since[t]
  BY DEF AccountingTime, AdvanceTime, InSync
<1>3. d \in Nat /\ d > 0
  BY <1>1, TimePasses
<1>4. EndResponse(t) \notin pending'
  BY <1>1 DEF EndResponse, Release, Notify
<1>5. ResponseInv(t) /\ Period[t] \in Nat /\ slack[t] \in Int /\ burst[t] \in Nat /\ ConsumeInv(t)
  BY SchedulingAssumption DEF EachResponse, EachConsume, TypeOK
<1> HIDE DEF d
<1>6. userPc[t] = "wait_release" => ~InSync(t) /\ t \notin runUser /\ t \notin runUser'
  BY <1>1, <1>3, <1>5 DEF ResponseInv, ConsumeInv
<1>7. InSync(t)' <=> InSync(t)
  BY <1>1 DEF InSync
<1>8. CASE DeadlineCounts(t) /\ InSync(t)
  <2>1. Period[t] > 0 /\ userPc[t] # "done" /\ slack'[t] >= 0
    BY <1>1, <1>8 DEF DeadlineCounts, DeadlinesMet
  <2>2. since'[t] = since[t] + d /\ slack'[t] = slack[t] - d
    BY <1>2, <1>8
  <2>3. /\ since[t] \in 0..Period[t] /\ since[t] <= Period[t] - slack[t]
        /\ worst[t] # Period[t] => since[t] = Period[t] - slack[t]
    BY <1>1, <1>5, <1>8, <2>1 DEF ResponseInv
  <2>4. /\ since'[t] \in 0..Period[t] /\ since'[t] <= Period[t] - slack'[t]
        /\ worst[t] # Period[t] => since'[t] = Period[t] - slack'[t]
    BY <1>3, <1>5, <2>1, <2>2, <2>3
  <2> QED  BY <1>1, <1>4, <1>5, <1>6, <1>7, <1>8, <2>1, <2>4 DEF ResponseInv
<1>9. CASE ~(DeadlineCounts(t) /\ InSync(t))
  <2>1. since'[t] = since[t] /\ (InSync(t) => ~(Period[t] > 0 /\ userPc[t] # "done"))
    BY <1>2, <1>9 DEF DeadlineCounts
  <2> QED  BY <1>1, <1>4, <1>5, <1>6, <1>7, <2>1 DEF ResponseInv
<1> QED  BY <1>8, <1>9

LEMMA ResponseInit == Setting /\ AccountInit => EachResponse
<1> SUFFICES ASSUME Setting, AccountInit, NEW t \in Task  PROVE ResponseInv(t)
  BY DEF EachResponse
<1>1. Period[t] \in Nat /\ Deadline[t] \in {0, Period[t]}
  BY SchedulingAssumption DEF Setting, ImplicitDeadlines
<1>2. /\ worst[t] = 0 /\ maxResponse[t] = 0 /\ since[t] = 0 /\ respPc[t] = "end_response_event"
      /\ userPc[t] = "dormant" /\ (Period[t] > 0 => slack[t] = Period[t])
  BY <1>1 DEF AccountInit, Init
<1>3. EndResponse(t) \notin pending
  BY DEF AccountInit, Init, EndResponse, Notify
<1> QED  BY <1>1, <1>2, <1>3 DEF ResponseInv, InSync

Measured == worst = [t \in Task |-> worst[t]] /\ maxResponse = [t \in Task |-> maxResponse[t]]

LEMMA MeasuredNext == Measured /\ AccountNext => Measured'
<1> SUFFICES ASSUME Measured, AccountNext  PROVE Measured'
  OBVIOUS
<1>1. CASE AccountingDelta
  <2>1. worst' = worst /\ ResponseAccounted
    BY <1>1 DEF AccountingDelta
  <2> QED  BY <2>1 DEF Measured, ResponseAccounted
<1>2. CASE AccountingTime
  BY <1>2 DEF AccountingTime, Measured
<1>3. CASE AccountingIdle
  BY <1>3 DEF AccountingIdle, JobsEnd, Measured
<1> QED  BY <1>1, <1>2, <1>3 DEF AccountNext

\* The maximum response time reported for a periodic task that meets its deadlines
\* is the longest time from the release of one of its jobs to its wait_period,
\* even when a job ends at the instant of the next release.
THEOREM MaxResponseExactWhenMet ==
  Preemptive /\ ImplicitDeadlines /\ JobsEndWithWork /\ AccountSpec /\ []DeadlinesMet
    => []MaxResponseExact
<1> DEFINE Known == TypeOK /\ EachConsume /\ EachAtCall /\ EachDue
           Inv   == Setting /\ EachResponse /\ Measured
<1>1. Setting /\ AccountInit => Inv
  BY ResponseInit DEF AccountInit, Measured
<1>2. Setting => Setting'
  BY DEF Setting, Preemptive, ImplicitDeadlines, JobsEndWithWork, AfterWork, Ops, InstantCalls
<1>3. Known /\ Inv /\ AccountNext /\ DeadlinesMet' => Inv'
  BY <1>2, MeasuredNext, ResponseIdle, ResponseDelta, ResponseTime DEF AccountNext
<1>4. Inv /\ UNCHANGED allVars => Inv'
  <2>1. UNCHANGED allVars => UNCHANGED <<pending, runUser, userPc, slack, worst, maxResponse, since, respPc>>
    BY DEF allVars, accountVars, vars, kernelVars, taskVars
  <2> QED  BY <1>2, <2>1 DEF EachResponse, ResponseInv, InSync, Measured
<1>5. Setting /\ AccountSpec /\ []DeadlinesMet => []Known
  <2>1. Setting => Preemptive
    BY DEF Setting
  <2> QED  BY <2>1, AccountSteps, TypeCorrect, ConsumeAlways, AtCallAlways, DueAlways, PTL
<1>6. Inv => MaxResponseExact
  <2> SUFFICES ASSUME EachResponse, Measured, Quiescent  PROVE maxResponse = worst
    BY DEF MaxResponseExact
  <2>1. \A t \in Task : maxResponse[t] = worst[t]
    BY DEF Quiescent, EachResponse, ResponseInv
  <2> QED  BY <2>1 DEF Measured
<1> HIDE DEF Known, Inv
<1>7. Setting /\ AccountSpec /\ []DeadlinesMet => []MaxResponseExact
  BY <1>1, <1>3, <1>4, <1>5, <1>6, PTL DEF AccountSpec
<1> QED  BY <1>7 DEF Setting

=============================================================================
