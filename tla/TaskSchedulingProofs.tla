------------------------ MODULE TaskSchedulingProofs ------------------------
(***************************************************************************)
(* Safety of the local scheduler, the task state machines and the          *)
(* constructs a task calls, for any set of tasks, scripts, periods,        *)
(* policy, time slice and scheduling time.                                 *)
(***************************************************************************)
EXTENDS TaskScheduling, DispatchProofs

\* Signals are records of their lines, before and after the update phase.
SignalsTyped == cur \in [Task -> Signals] /\ nxt \in [Task -> Signals]

\* active is only ever written true for the task scheduler_proc dispatched last.
ActiveIsCurrent == \A t \in Task : cur[t].active \/ nxt[t].active => t = current

\* From the trigger to the dispatch the processor has been taken away: in the
\* signals as written and, once the scheduler runs again, as the tasks see them.
Withdrawing == schedPc \in {"first_delta", "last_delta", "penalty"}

ProcessorWithdrawn ==
  Withdrawing => \A t \in Task : ~nxt[t].active /\ (runSched => ~cur[t].active)

\* ProcessorExclusive says nothing of the delta cycles of a dispatch, so it is
\* not inductive: a dispatch needs to find the processor already withdrawn.
ExclusiveInv == SignalsTyped /\ ActiveIsCurrent /\ ProcessorWithdrawn

-----------------------------------------------------------------------------
\* A step that writes only lines other than active, and leaves the scheduler
\* alone, keeps the invariant.
LEMMA OtherLinesWritten ==
  ASSUME ExclusiveInv, nxt' \in [Task -> Signals],
         \A t \in Task : nxt'[t].active = nxt[t].active,
         UNCHANGED <<cur, runSched, schedPc, current>>
  PROVE  ExclusiveInv'
BY DEF ExclusiveInv, SignalsTyped, ActiveIsCurrent, ProcessorWithdrawn, Withdrawing

LEMMA ExclusiveInit == Init => ExclusiveInv
<1> SUFFICES ASSUME Init  PROVE ExclusiveInv
  OBVIOUS
<1>1. /\ cur = [t \in Task |-> [active |-> FALSE, consumption |-> FALSE, wper |-> FALSE,
                                wcom |-> FALSE, state |-> "READY"]]
      /\ nxt = cur /\ schedPc = "start"
  BY DEF Init
<1>2. SignalsTyped
  BY <1>1 DEF SignalsTyped, Signals, States
<1>3. \A t \in Task : ~cur[t].active /\ ~nxt[t].active
  BY <1>1
<1> QED  BY <1>1, <1>2, <1>3 DEF ExclusiveInv, ActiveIsCurrent, ProcessorWithdrawn, Withdrawing

\* The kernel copies nxt to cur, or leaves both alone when nothing is left to do.
LEMMA ExclusiveKernel == ExclusiveInv /\ (DeltaCycle \/ AdvanceTime) => ExclusiveInv'
<1> SUFFICES ASSUME ExclusiveInv, DeltaCycle \/ AdvanceTime  PROVE ExclusiveInv'
  OBVIOUS
<1>1. CASE DeltaCycle
  <2>1. cur' = nxt /\ UNCHANGED <<nxt, schedPc, current>>
    BY <1>1 DEF DeltaCycle, schedVars
  <2> QED  BY <2>1 DEF ExclusiveInv, SignalsTyped, ActiveIsCurrent, ProcessorWithdrawn, Withdrawing
<1>2. CASE AdvanceTime
  <2>1. nxt = cur /\ UNCHANGED <<cur, nxt, schedPc, current>>
    <3>1. Quiescent /\ UNCHANGED <<cur, nxt, schedPc, current>>
      BY <1>2 DEF AdvanceTime
    <3> QED  BY <3>1 DEF Quiescent
  <2> QED  BY <2>1 DEF ExclusiveInv, SignalsTyped, ActiveIsCurrent, ProcessorWithdrawn, Withdrawing
<1> QED  BY <1>1, <1>2

\* A trigger leaves no active task in the signals as written, since only the
\* current one was; a dispatch finds none and writes one.
LEMMA ExclusiveSched ==
  ExclusiveInv /\ (SchedResume \/ SchedSecondDelta \/ SchedDispatch) => ExclusiveInv'
<1> SUFFICES ASSUME ExclusiveInv, SchedResume \/ SchedSecondDelta \/ SchedDispatch
             PROVE  ExclusiveInv'
  OBVIOUS
<1> USE DEF ExclusiveInv, SignalsTyped, ActiveIsCurrent, ProcessorWithdrawn, Withdrawing
<1>1. CASE SchedResume
  <2>1. ~runSched' /\ UNCHANGED <<cur, current>>
    BY <1>1 DEF SchedResume
  <2>2. nxt' = IF current = NoTask THEN nxt ELSE [nxt EXCEPT ![current].active = FALSE]
    BY <1>1 DEF SchedResume
  <2>3. nxt' \in [Task -> Signals]
    BY <2>2 DEF Signals
  <2>4. \A t \in Task : ~nxt'[t].active
    <3> TAKE t \in Task
    <3>1. nxt[t].active => t = current /\ current # NoTask
      BY SchedulingAssumption
    <3> QED  BY <2>2, <3>1
  <2> QED  BY <2>1, <2>3, <2>4
<1>2. CASE SchedSecondDelta
  <2>1. /\ ~runSched' /\ UNCHANGED <<cur, nxt, current>>
        /\ Withdrawing /\ Withdrawing'
    BY <1>2 DEF SchedSecondDelta
  <2> QED  BY <2>1
<1>3. CASE SchedDispatch
  <2>1. /\ schedPc' = "idle" /\ current' = Dispatched.task /\ UNCHANGED cur
        /\ nxt' = [nxt EXCEPT ![Dispatched.task].active = TRUE]
        /\ Withdrawing /\ runSched
    BY <1>3 DEF SchedDispatch
  <2>2. \A t \in Task : ~nxt[t].active /\ ~cur[t].active
    BY <2>1
  <2>3. nxt' \in [Task -> Signals]
    BY <2>1 DEF Signals
  <2>4. \A t \in Task : nxt'[t].active => t = current'
    BY <2>1, <2>2
  <2> QED  BY <2>1, <2>2, <2>3, <2>4
<1> QED  BY <1>1, <1>2, <1>3

\* The events update_state_proc notifies.
FsmEvents == {"running_task_to_wait_state", "completion", "innactive_task_ends_wait"}

\* The state machine of a task writes its state_signal only.
LEMMA FsmWrites ==
  ASSUME SignalsTyped, NEW t \in Task, Fsm(t)
  PROVE  /\ \E s \in States : nxt' = [nxt EXCEPT ![t].state = s]
         /\ runFsm' = runFsm \ {t}
         /\ UNCHANGED <<cur, thread, schedVars, runSched>>
         /\ \E E \in SUBSET FsmEvents : pending' = pending \cup {Notify(e) : e \in E}
<1>1. \E s \in States, E \in SUBSET FsmEvents : FsmMove(t, s, E)
  <2>1. CASE ExecutingWaits(t)
    <3>1. PICK s \in {"WAIT_PERIOD", "INACTIVE_WAIT_PERIOD", "WAIT_COMM_SYNC",
                      "INACTIVE_WAIT_COMM_SYNC"} :
            FsmMove(t, s, {"running_task_to_wait_state"})
      BY <2>1 DEF ExecutingWaits
    <3>2. s \in States /\ {"running_task_to_wait_state"} \in SUBSET FsmEvents
      BY DEF States, FsmEvents
    <3> QED  BY <3>1, <3>2
  <2>2. CASE ExecutingCompletes(t)
    <3>1. FsmMove(t, "FINISHED", {"completion"})
      BY <2>2 DEF ExecutingCompletes
    <3>2. "FINISHED" \in States /\ {"completion"} \in SUBSET FsmEvents
      BY DEF States, FsmEvents
    <3> QED  BY <3>1, <3>2
  <2>3. CASE ExecutingStops(t)
    BY <2>3 DEF ExecutingStops, States
  <2>4. CASE ReadyActivated(t)
    BY <2>4 DEF ReadyActivated, States
  <2>5. CASE ActiveWaitEnds(t)
    BY <2>5 DEF ActiveWaitEnds, States
  <2>6. CASE ActiveWaitLosesProcessor(t)
    BY <2>6 DEF ActiveWaitLosesProcessor, WaitKinds, States
  <2>7. CASE InactiveWaitEnds(t)
    <3>1. \/ FsmMove(t, "EXECUTING", {})
          \/ FsmMove(t, "READY", {"innactive_task_ends_wait"})
      BY <2>7 DEF InactiveWaitEnds
    <3>2. /\ {"EXECUTING", "READY"} \subseteq States
          /\ {{}, {"innactive_task_ends_wait"}} \subseteq SUBSET FsmEvents
      BY DEF States, FsmEvents
    <3> QED  BY <3>1, <3>2
  <2>8. CASE InactiveWaitActivated(t)
    BY <2>8 DEF InactiveWaitActivated, WaitKinds, States
  <2> QED  BY <2>1, <2>2, <2>3, <2>4, <2>5, <2>6, <2>7, <2>8 DEF Fsm
<1>2. PICK s \in States, E \in SUBSET FsmEvents : FsmMove(t, s, E)
  BY <1>1
<1> QED  BY <1>2 DEF FsmMove

\* A user thread writes one of the three other lines of its task at most, and
\* notifies one event at most.
UserLines == {"consumption", "wper", "wcom"}

UserEvents(t) == {Notify("yield"), Notify("user_event"), EndResponse(t)}

UserWrites(t) ==
  /\ nxt' = nxt \/ \E s \in UserLines, b \in BOOLEAN : Write(t, s, b)
  /\ pending' = pending \/ \E e \in UserEvents(t) : pending' = pending \cup {e}
  /\ UNCHANGED <<cur, runFsm, runSched, schedVars>>

LEMMA UserWritesLines == \A t \in Task : User(t) => UserWrites(t)
<1> SUFFICES ASSUME NEW t \in Task, User(t)  PROVE UserWrites(t)
  OBVIOUS
<1> USE DEF UserWrites, UserLines, UserEvents, userFrame
<1>1. CASE UserStart(t)
  BY <1>1 DEF UserStart
<1>2. CASE GuardPassed(t)
  BY <1>2 DEF GuardPassed
<1>3. CASE UserEnds(t)
  BY <1>3 DEF UserEnds
<1>4. CASE ConsumeCall(t)
  BY <1>4 DEF ConsumeCall
<1>5. CASE ConsumeActivated(t)
  BY <1>5 DEF ConsumeActivated
<1>6. CASE ConsumePreempted(t)
  BY <1>6 DEF ConsumePreempted
<1>7. CASE ConsumeEnds(t)
  BY <1>7 DEF ConsumeEnds
<1>8. CASE WaitPeriodCall(t)
  BY <1>8 DEF WaitPeriodCall
<1>9. CASE WaitPeriodMissed(t)
  BY <1>9 DEF WaitPeriodMissed
<1>10. CASE WaitPeriodReleased(t)
  BY <1>10 DEF WaitPeriodReleased
<1>11. CASE YieldCall(t)
  BY <1>11 DEF YieldCall
<1>12. CASE YieldResumed(t)
  BY <1>12 DEF YieldResumed
<1>13. CASE SemTaken(t)
  BY <1>13 DEF SemTaken
<1>14. CASE SemBlocks(t)
  BY <1>14 DEF SemBlocks
<1>15. CASE SemWoken(t)
  BY <1>15 DEF SemWoken
<1>16. CASE SemPosts(t)
  BY <1>16 DEF SemPosts
<1>17. CASE EventSets(t)
  BY <1>17 DEF EventSets
<1>18. CASE EventTaken(t)
  BY <1>18 DEF EventTaken
<1>19. CASE EventBlocks(t)
  BY <1>19 DEF EventBlocks
<1>20. CASE EventWoken(t)
  BY <1>20 DEF EventWoken
<1>21. CASE EventUnsets(t)
  BY <1>21 DEF EventUnsets
<1> QED  BY <1>1, <1>2, <1>3, <1>4, <1>5, <1>6, <1>7, <1>8, <1>9, <1>10, <1>11, <1>12,
            <1>13, <1>14, <1>15, <1>16, <1>17, <1>18, <1>19, <1>20, <1>21
         DEF User

LEMMA ExclusiveTasks ==
  ExclusiveInv /\ (\E t \in Task : Fsm(t) \/ User(t)) => ExclusiveInv'
<1> SUFFICES ASSUME ExclusiveInv, NEW t \in Task, Fsm(t) \/ User(t)  PROVE ExclusiveInv'
  OBVIOUS
<1>1. SignalsTyped
  BY DEF ExclusiveInv
<1>2. CASE Fsm(t)
  <2>1. PICK s \in States : nxt' = [nxt EXCEPT ![t].state = s]
    BY <1>1, <1>2, FsmWrites
  <2>2. nxt' \in [Task -> Signals] /\ \A u \in Task : nxt'[u].active = nxt[u].active
    BY <1>1, <2>1 DEF SignalsTyped, Signals
  <2>3. UNCHANGED <<cur, runSched, schedPc, current>>
    BY <1>1, <1>2, FsmWrites DEF schedVars
  <2> QED  BY <2>2, <2>3, OtherLinesWritten
<1>3. CASE User(t)
  <2>1. UserWrites(t)
    BY <1>3, UserWritesLines
  <2>2. nxt' \in [Task -> Signals] /\ \A u \in Task : nxt'[u].active = nxt[u].active
    <3>1. CASE nxt' = nxt
      BY <1>1, <3>1 DEF SignalsTyped
    <3>2. ASSUME NEW s \in UserLines, NEW b \in BOOLEAN, Write(t, s, b)
          PROVE  /\ nxt' \in [Task -> Signals]
                 /\ \A u \in Task : nxt'[u].active = nxt[u].active
      BY <1>1, <3>2 DEF SignalsTyped, Signals, Write, UserLines
    <3> QED  BY <2>1, <3>1, <3>2 DEF UserWrites
  <2>3. UNCHANGED <<cur, runSched, schedPc, current>>
    BY <2>1 DEF UserWrites, schedVars
  <2> QED  BY <2>2, <2>3, OtherLinesWritten
<1> QED  BY <1>2, <1>3

LEMMA ExclusiveAlways == Spec => []ExclusiveInv
<1>1. ExclusiveInv /\ UNCHANGED vars => ExclusiveInv'
  BY DEF ExclusiveInv, SignalsTyped, ActiveIsCurrent, ProcessorWithdrawn, Withdrawing,
         vars, kernelVars, schedVars
<1>2. ExclusiveInv /\ Next => ExclusiveInv'
  BY ExclusiveKernel, ExclusiveSched, ExclusiveTasks DEF Next
<1> QED  BY ExclusiveInit, <1>1, <1>2, PTL DEF Spec

\* The processor is granted to one task at a time: whatever order the waits of
\* the scheduler, the state machines and the user threads resume in, active is
\* never true, nor about to be true, for two tasks.
THEOREM ProcessorExclusiveAlways == Spec => []ProcessorExclusive
<1>1. ExclusiveInv => ProcessorExclusive
  BY DEF ExclusiveInv, ActiveIsCurrent, ProcessorExclusive
<1> QED  BY <1>1, ExclusiveAlways, PTL

-----------------------------------------------------------------------------
\* Edges are computed by the kernel from the signals, never notified, so a
\* state machine runs because a line really has the value it waits for.
PendingNotified == \A e \in pending : e[1] = "notify"

WokenInv == SignalsTyped /\ PendingNotified /\ NoUnexpectedTransition

LEMMA FiredEdges ==
  ASSUME PendingNotified, NEW t \in Task, NEW s \in {"active", "consumption", "wper", "wcom"}
  PROVE  /\ Pos(s, t) \in Fired => nxt[t][s]
         /\ Neg(s, t) \in Fired => ~nxt[t][s]
<1>1. Pos(s, t)[1] = "posedge" /\ Neg(s, t)[1] = "negedge"
  BY DEF Pos, Neg
<1>2. Pos(s, t) \notin pending /\ Neg(s, t) \notin pending
  BY <1>1 DEF PendingNotified
<1> DEFINE Line == {"active", "consumption", "wper", "wcom"} \X Task
<1>3. ASSUME Pos(s, t) \in Fired  PROVE nxt[t][s]
  <2>1. PICK l \in Line : Pos(l[1], l[2]) = Pos(s, t) /\ nxt[l[2]][l[1]]
    BY <1>1, <1>2, <1>3 DEF Fired, Pos, Neg
  <2>2. l[1] = s /\ l[2] = t
    BY <2>1 DEF Pos
  <2> QED  BY <2>1, <2>2
<1>4. ASSUME Neg(s, t) \in Fired  PROVE ~nxt[t][s]
  <2>1. PICK l \in Line : Neg(l[1], l[2]) = Neg(s, t) /\ ~nxt[l[2]][l[1]]
    BY <1>1, <1>2, <1>4 DEF Fired, Pos, Neg
  <2>2. l[1] = s /\ l[2] = t
    BY <2>1 DEF Neg
  <2> QED  BY <2>1, <2>2
<1> QED  BY <1>3, <1>4

\* The delta cycle wakes a state machine only by an edge it waits for, and the
\* update phase has already made that edge visible.
LEMMA WokenByDelta == WokenInv /\ DeltaCycle => WokenInv'
<1> SUFFICES ASSUME WokenInv, DeltaCycle  PROVE WokenInv'
  OBVIOUS
<1>1. /\ cur' = nxt /\ nxt' = nxt /\ pending' = {}
      /\ runFsm' = {t \in Task : FsmSensitivity(t, nxt[t].state) \cap Fired # {}}
  BY DEF DeltaCycle
<1>2. ASSUME NEW t \in runFsm'  PROVE HasTransition(nxt[t])
  <2>1. t \in Task /\ nxt[t].state \in States
    BY <1>1, <1>2 DEF WokenInv, SignalsTyped, Signals
  <2>2. PICK e : e \in FsmSensitivity(t, nxt[t].state) /\ e \in Fired
    BY <1>1, <1>2
  <2>3. /\ Pos("active", t) \in Fired => nxt[t].active
        /\ Neg("active", t) \in Fired => ~nxt[t].active
        /\ Neg("consumption", t) \in Fired => ~nxt[t].consumption
        /\ Pos("wper", t) \in Fired => nxt[t].wper
        /\ Neg("wper", t) \in Fired => ~nxt[t].wper
        /\ Pos("wcom", t) \in Fired => nxt[t].wcom
        /\ Neg("wcom", t) \in Fired => ~nxt[t].wcom
    BY <2>1, FiredEdges DEF WokenInv
  <2> QED  BY <2>1, <2>2, <2>3 DEF FsmSensitivity, States, HasTransition
<1>3. SignalsTyped' /\ PendingNotified'
  BY <1>1 DEF WokenInv, SignalsTyped, PendingNotified
<1> QED  BY <1>1, <1>2, <1>3 DEF WokenInv, NoUnexpectedTransition

\* Whatever a task, written during the evaluate phase, what it reads is fixed.
LEMMA WokenBySteps ==
  ASSUME WokenInv, nxt' \in [Task -> Signals], PendingNotified',
         cur' = cur, runFsm' \subseteq runFsm
  PROVE  WokenInv'
BY DEF WokenInv, SignalsTyped, NoUnexpectedTransition

LEMMA WokenNext == WokenInv /\ Next => WokenInv'
<1> SUFFICES ASSUME WokenInv, Next  PROVE WokenInv'
  OBVIOUS
<1>1. SignalsTyped /\ PendingNotified
  BY DEF WokenInv
<1>2. CASE AdvanceTime
  <2>1. UNCHANGED <<cur, nxt, runFsm>>
    BY <1>2 DEF AdvanceTime, Quiescent
  <2>2. PendingNotified'
    BY <1>2 DEF AdvanceTime, PendingNotified, Release, Notify
  <2> QED  BY <1>1, <2>1, <2>2, WokenBySteps DEF SignalsTyped
<1>3. CASE SchedResume \/ SchedSecondDelta \/ SchedDispatch
  <2>1. UNCHANGED <<cur, runFsm>>
    BY <1>3 DEF SchedResume, SchedSecondDelta, SchedDispatch
  <2>2. pending' \in {pending, pending \cup {Notify("zero_time")}}
    BY <1>3 DEF SchedResume, SchedSecondDelta, SchedDispatch
  <2>3. PendingNotified'
    BY <1>1, <2>2 DEF PendingNotified, Notify
  <2>4. nxt' \in [Task -> Signals]
    <3>1. \/ nxt' = nxt \/ nxt' = [nxt EXCEPT ![current].active = FALSE]
          \/ nxt' = [nxt EXCEPT ![Dispatched.task].active = TRUE]
      BY <1>3 DEF SchedResume, SchedSecondDelta, SchedDispatch
    <3> QED  BY <1>1, <3>1 DEF SignalsTyped, Signals
  <2> QED  BY <2>1, <2>3, <2>4, WokenBySteps
<1>4. ASSUME NEW t \in Task, Fsm(t)  PROVE WokenInv'
  <2>1. /\ \E s \in States : nxt' = [nxt EXCEPT ![t].state = s]
        /\ runFsm' = runFsm \ {t} /\ cur' = cur
        /\ \E E \in SUBSET FsmEvents : pending' = pending \cup {Notify(e) : e \in E}
    BY <1>1, <1>4, FsmWrites
  <2>2. nxt' \in [Task -> Signals]
    BY <1>1, <2>1 DEF SignalsTyped, Signals
  <2>3. PendingNotified'
    BY <1>1, <2>1 DEF PendingNotified, Notify
  <2> QED  BY <2>1, <2>2, <2>3, WokenBySteps
<1>5. ASSUME NEW t \in Task, User(t)  PROVE WokenInv'
  <2>1. UserWrites(t)
    BY <1>5, UserWritesLines
  <2>2. nxt' \in [Task -> Signals]
    <3>1. CASE nxt' = nxt
      BY <1>1, <3>1 DEF SignalsTyped
    <3>2. ASSUME NEW s \in UserLines, NEW b \in BOOLEAN, Write(t, s, b)
          PROVE  nxt' \in [Task -> Signals]
      BY <1>1, <3>2 DEF SignalsTyped, Signals, Write, UserLines
    <3> QED  BY <2>1, <3>1, <3>2 DEF UserWrites
  <2>3. PendingNotified'
    BY <1>1, <2>1 DEF UserWrites, UserEvents, PendingNotified, Notify, EndResponse
  <2> QED  BY <2>1, <2>2, <2>3, WokenBySteps DEF UserWrites
<1> QED  BY <1>2, <1>3, <1>4, <1>5, WokenByDelta DEF Next

LEMMA WokenAlways == Spec => []WokenInv
<1>1. Init => WokenInv
  <2> SUFFICES ASSUME Init  PROVE WokenInv
    OBVIOUS
  <2>1. SignalsTyped
    BY ExclusiveInit DEF ExclusiveInv
  <2>2. PendingNotified
    BY DEF Init, PendingNotified, Notify
  <2>3. NoUnexpectedTransition
    BY DEF Init, NoUnexpectedTransition
  <2> QED  BY <2>1, <2>2, <2>3 DEF WokenInv
<1>2. WokenInv /\ UNCHANGED vars => WokenInv'
  BY DEF WokenInv, SignalsTyped, PendingNotified, NoUnexpectedTransition, HasTransition,
         vars, kernelVars
<1> QED  BY <1>1, <1>2, WokenNext, PTL DEF Spec

\* update_state_proc never reports an unexpected transition: a machine that has
\* been woken still finds, when it is its turn, a branch that applies.
THEOREM NoUnexpectedTransitionAlways == Spec => []NoUnexpectedTransition
<1>1. WokenInv => NoUnexpectedTransition
  BY DEF WokenInv
<1> QED  BY <1>1, WokenAlways, PTL

-----------------------------------------------------------------------------
LEMMA ConstantTypes ==
  /\ NoTask \notin Task
  /\ TickDelay \in Nat /\ SchedulingTime \in Nat /\ SemSize \in Nat
  /\ Period \in [Task -> Nat] /\ Deadline \in [Task -> Nat]
  /\ \A t \in Task : \A i \in 1..Len(Script[t]) : \A c \in Script[t][i] : c.time \in Nat
<1>1. ASSUME NEW t \in Task, NEW i \in 1..Len(Script[t]), NEW c \in Script[t][i]
      PROVE  c.time \in Nat
  <2>1. Script[t] \in Seq(SUBSET Call)
    BY SchedulingAssumption
  <2>2. c \in Call
    BY <2>1
  <2> QED  BY <2>2 DEF Call
<1> QED  BY <1>1, SchedulingAssumption

LEMMA PositionsType ==
  /\ 1 \in Positions
  /\ it \in Positions => Dispatched.task \in Task /\ Dispatched.it \in Positions
<1>1. ReadyTasks \in SUBSET Task
  BY DEF ReadyTasks
<1>2. CASE Policy = "STATIC_SCHEDULING"
  <2>1. Positions = 1..Len(StaticSchedule)
    BY <1>2 DEF Positions
  <2>2. Dispatched = StaticChoice(StaticSchedule, it)
    BY <1>2 DEF Dispatched
  <2>3. Len(StaticSchedule) \in Nat \ {0}
    BY ListsCoverTasks
  <2>4. ASSUME it \in Positions
        PROVE  Dispatched.task \in Task /\ Dispatched.it \in Positions
    BY <2>1, <2>2, <2>4, StaticChoiceType
  <2> QED  BY <2>1, <2>3, <2>4
<1>3. CASE Policy = "CYCLE_EXECUTIVE"
  <2>1. Positions = 1..Len(Assigned)
    BY <1>3 DEF Positions
  <2>2. Dispatched = CycleChoice(it, ReadyTasks)
    BY <1>3 DEF Dispatched
  <2>3. Len(Assigned) \in Nat \ {0}
    BY ListsCoverTasks
  <2>4. ASSUME it \in Positions
        PROVE  Dispatched.task \in Task /\ Dispatched.it \in Positions
    BY <1>1, <2>1, <2>2, <2>4, CycleChoiceReady
  <2> QED  BY <2>1, <2>3, <2>4
<1>4. CASE Policy = "STATIC_PRIORITIES"
  <2>1. Positions = 1..Len(Assigned)
    BY <1>4 DEF Positions
  <2>2. Dispatched = PriorityChoice(ByPriority, it, ReadyTasks)
    BY <1>4 DEF Dispatched
  <2>3. Len(Assigned) \in Nat \ {0}
    BY ListsCoverTasks
  <2>4. ASSUME it \in Positions
        PROVE  Dispatched.task \in Task /\ Dispatched.it \in Positions
    BY <1>1, <2>1, <2>2, <2>4, PriorityChoiceType
  <2> QED  BY <2>1, <2>3, <2>4
<1> QED  BY <1>2, <1>3, <1>4, SchedulingAssumption

LEMMA TypeInit == Init => TypeOK
<1> SUFFICES ASSUME Init  PROVE TypeOK
  OBVIOUS
<1>1. cur \in [Task -> Signals] /\ nxt \in [Task -> Signals]
  BY ExclusiveInit DEF ExclusiveInv, SignalsTyped
<1>2. pending \subseteq EventIds
  BY DEF Init, EventIds
<1>3. it \in Positions
  BY PositionsType DEF Init
<1>4. release \in [Task -> Nat] /\ slack \in [Task -> Int]
  BY ConstantTypes DEF Init
<1>5. event \in [kind : EventKinds, flag : BOOLEAN] /\ finished \in [Task -> BOOLEAN] /\ missed \in [Task -> BOOLEAN]
  BY DEF Init
<1> QED  BY <1>1, <1>2, <1>3, <1>4, <1>5, ConstantTypes DEF TypeOK, Init, SchedPcs, UserPcs

\* The least timeout is one of them, so no timeout becomes negative.
LEMMA TimeoutsType ==
  ASSUME TypeOK, Timeouts # {}
  PROVE  Least(Timeouts) \in Nat /\ \A x \in Timeouts : x - Least(Timeouts) \in Nat
<1>1. Timeouts \in SUBSET Nat
  BY DEF TypeOK, Timeouts
<1>2. Least(Timeouts) \in Timeouts /\ \A x \in Timeouts : Least(Timeouts) <= x
  BY <1>1, LeastIsLeast
<1>3. Least(Timeouts) \in Nat
  BY <1>1, <1>2
<1>4. ASSUME NEW x \in Timeouts  PROVE x - Least(Timeouts) \in Nat
  <2>1. x \in Nat /\ Least(Timeouts) <= x
    BY <1>1, <1>2
  <2> QED  BY <1>3, <2>1
<1> QED  BY <1>3, <1>4

LEMMA TypeKernel == TypeOK /\ (DeltaCycle \/ AdvanceTime) => TypeOK'
<1> SUFFICES ASSUME TypeOK, DeltaCycle \/ AdvanceTime  PROVE TypeOK'
  OBVIOUS
<1>1. CASE DeltaCycle
  BY <1>1 DEF DeltaCycle, TypeOK, schedVars, taskVars
<1>2. CASE AdvanceTime
  <2> DEFINE d == Least(Timeouts)
             After(x) == IF x = 0 THEN 0 ELSE x - d
  <2>1. d \in Nat /\ \A x \in Timeouts : x - d \in Nat
    BY <1>2, TimeoutsType DEF AdvanceTime
  <2>2. /\ \A t \in Task : After(burst[t]) \in Nat /\ After(release[t]) \in Nat
        /\ After(penalty) \in Nat /\ After(tick) \in Nat
    <3> HIDE DEF d
    <3>1. \A x \in {burst[t] : t \in Task} \cup {release[t] : t \in Task} \cup {penalty, tick} :
            x \in Nat /\ After(x) \in Nat
      BY <2>1 DEF Timeouts, TypeOK
    <3> QED  BY <3>1
  <2>3. /\ burst' = [t \in Task |-> After(burst[t])]
        /\ penalty' = After(penalty)
        /\ tick' = IF tick = d THEN TickDelay ELSE After(tick)
        /\ release' = [t \in Task |-> IF release[t] = d THEN Period[t] ELSE After(release[t])]
        /\ runUser' = {t \in Task : burst[t] = d} /\ runSched' = (penalty = d)
        /\ slack' = [t \in Task |-> IF DeadlineCounts(t) THEN slack[t] - d ELSE slack[t]]
        /\ owed' = [t \in Task |-> IF cur[t].active /\ userPc[t] = "consuming"
                                   THEN owed[t] - d ELSE owed[t]]
        /\ UNCHANGED <<cur, nxt, runFsm, thread, schedPc, current, it,
                       userPc, ip, left, finished, missed, sem, event>>
    BY <1>2 DEF AdvanceTime
  <2>4. pending' \subseteq EventIds
    BY <1>2 DEF AdvanceTime, EventIds
  <2> HIDE DEF d, After
  <2>5. burst' \in [Task -> Nat] /\ release' \in [Task -> Nat] /\ penalty' \in Nat /\ tick' \in Nat
    BY <2>2, <2>3, ConstantTypes
  <2>6. slack' \in [Task -> Int] /\ owed' \in [Task -> Int]
    BY <2>1, <2>3 DEF TypeOK
  <2> QED  BY <2>3, <2>4, <2>5, <2>6 DEF TypeOK, Positions
<1> QED  BY <1>1, <1>2

LEMMA TypeSched == TypeOK /\ (SchedResume \/ SchedSecondDelta \/ SchedDispatch) => TypeOK'
<1> SUFFICES ASSUME TypeOK, SchedResume \/ SchedSecondDelta \/ SchedDispatch  PROVE TypeOK'
  OBVIOUS
<1>1. nxt' \in [Task -> Signals]
  <2>1. \/ nxt' = nxt \/ nxt' = [nxt EXCEPT ![current].active = FALSE]
        \/ nxt' = [nxt EXCEPT ![Dispatched.task].active = TRUE]
    BY DEF SchedResume, SchedSecondDelta, SchedDispatch
  <2>2. nxt \in [Task -> Signals]
    BY DEF TypeOK
  <2> QED  BY <2>1, <2>2 DEF Signals
<1>2. pending' \subseteq EventIds
  <2>1. pending' \in {pending, pending \cup {Notify("zero_time")}}
    BY DEF SchedResume, SchedSecondDelta, SchedDispatch
  <2>2. Notify("zero_time") \in EventIds
    BY DEF EventIds
  <2> QED  BY <2>1, <2>2 DEF TypeOK
<1>3. /\ schedPc' \in SchedPcs /\ penalty' \in Nat /\ runSched' \in BOOLEAN
      /\ current' \in Task \cup {NoTask} /\ it' \in Positions
  BY PositionsType, ConstantTypes DEF SchedResume, SchedSecondDelta, SchedDispatch, TypeOK, SchedPcs
<1>4. UNCHANGED <<cur, runFsm, runUser, thread, tick, taskVars>>
  BY DEF SchedResume, SchedSecondDelta, SchedDispatch
<1> QED  BY <1>1, <1>2, <1>3, <1>4 DEF TypeOK, Positions, taskVars

LEMMA TypeFsm == \A t \in Task : TypeOK /\ Fsm(t) => TypeOK'
<1> SUFFICES ASSUME NEW t \in Task, TypeOK, Fsm(t)  PROVE TypeOK'
  OBVIOUS
<1>1. /\ \E s \in States : nxt' = [nxt EXCEPT ![t].state = s]
      /\ runFsm' = runFsm \ {t}
      /\ UNCHANGED <<cur, thread, schedVars, runSched>>
      /\ \E E \in SUBSET FsmEvents : pending' = pending \cup {Notify(e) : e \in E}
  BY FsmWrites DEF TypeOK, SignalsTyped
<1>2. UNCHANGED <<runUser, taskVars>>
  BY DEF Fsm, ExecutingWaits, ExecutingCompletes, ExecutingStops, ReadyActivated, ActiveWaitEnds,
         ActiveWaitLosesProcessor, InactiveWaitEnds, InactiveWaitActivated, FsmMove
<1>3. nxt' \in [Task -> Signals]
  <2>1. nxt \in [Task -> Signals]
    BY DEF TypeOK
  <2> QED  BY <1>1, <2>1 DEF Signals
<1>4. pending' \subseteq EventIds
  BY <1>1 DEF TypeOK, FsmEvents, EventIds
<1> QED  BY <1>1, <1>2, <1>3, <1>4 DEF TypeOK, Positions, schedVars, taskVars

\* The part of the type invariant a user thread may disturb.
TaskTypeOK ==
  /\ runUser \subseteq Task /\ thread \in Task \cup {NoTask}
  /\ userPc \in [Task -> UserPcs] /\ ip \in [Task -> Nat \ {0}]
  /\ left \in [Task -> Nat] /\ burst \in [Task -> Nat]
  /\ finished \in [Task -> BOOLEAN] /\ missed \in [Task -> BOOLEAN]
  /\ slack \in [Task -> Int] /\ sem \in Nat /\ event \in [kind : EventKinds, flag : BOOLEAN] /\ owed \in [Task -> Int]

\* Where a thread goes when it leaves a call.
LEMMA ThreadGoesOn ==
  ASSUME TaskTypeOK, NEW t \in Task, NEW pc \in UserPcs,
         WaitAt(t, pc) \/ NextCall(t) \/ NextCallIfActive(t)
  PROVE  /\ thread' \in Task \cup {NoTask} /\ userPc' \in [Task -> UserPcs]
         /\ ip' \in [Task -> Nat \ {0}]
<1>1. CASE WaitAt(t, pc)
  BY <1>1 DEF WaitAt, TaskTypeOK
<1>2. CASE NextCall(t)
  BY <1>2 DEF NextCall, TaskTypeOK, UserPcs
<1>3. CASE NextCallIfActive(t)
  <2>1. "guard" \in UserPcs
    BY DEF UserPcs
  <2>2. CASE WaitAt(t, "guard")
    BY <2>1, <2>2 DEF WaitAt, TaskTypeOK
  <2> QED  BY <1>2, <1>3, <2>2 DEF NextCallIfActive
<1> QED  BY <1>1, <1>2, <1>3

LEMMA TypeUserTask == \A t \in Task : TaskTypeOK /\ User(t) => TaskTypeOK'
<1> SUFFICES ASSUME NEW t \in Task, TaskTypeOK, User(t)  PROVE TaskTypeOK'
  OBVIOUS
<1>0. {"call", "consume_guard", "consuming", "wait_release", "sem_wait", "event_wait",
       "yielded", "guard", "done"} \subseteq UserPcs
  BY DEF UserPcs
<1> USE DEF TaskTypeOK, Resumed, SetFinished
<1>1. CASE UserStart(t)
  BY <1>0, <1>1 DEF UserStart
<1>2. CASE GuardPassed(t)
  BY <1>0, <1>2, ThreadGoesOn DEF GuardPassed
<1>3. CASE UserEnds(t)
  BY <1>0, <1>3, ThreadGoesOn DEF UserEnds
<1>4. CASE ConsumeCall(t)
  <2>1. PICK c \in Script[t][ip[t]] :
          /\ left' = [left EXCEPT ![t] = c.time] /\ owed' = [owed EXCEPT ![t] = c.time]
          /\ \/ WaitAt(t, "consume_guard") /\ UNCHANGED burst
             \/ WaitAt(t, "consuming") /\ burst' = [burst EXCEPT ![t] = c.time]
    BY <1>4 DEF ConsumeCall
  <2>2. c.time \in Nat
    <3>1. ip[t] \in 1..Len(Script[t])
      <4>1. Script[t] \in Seq(SUBSET Call)
        BY SchedulingAssumption
      <4> QED  BY <1>4, <4>1 DEF ConsumeCall, Calls
    <3> QED  BY <2>1, <3>1, ConstantTypes
  <2>3. UNCHANGED <<runUser, missed, slack, sem, event>> /\ finished' = [finished EXCEPT ![t] = FALSE]
    BY <1>4 DEF ConsumeCall
  <2> QED  BY <1>0, <2>1, <2>2, <2>3, ThreadGoesOn
<1>5. CASE ConsumeActivated(t)
  BY <1>0, <1>5, ThreadGoesOn DEF ConsumeActivated
<1>6. CASE ConsumePreempted(t)
  BY <1>0, <1>6, ThreadGoesOn DEF ConsumePreempted
<1>7. CASE ConsumeEnds(t)
  BY <1>0, <1>7, ThreadGoesOn DEF ConsumeEnds
<1>8. CASE WaitPeriodCall(t)
  BY <1>0, <1>8, ThreadGoesOn DEF WaitPeriodCall
<1>9. CASE WaitPeriodMissed(t)
  <2>1. NextCallIfActive(t)
    BY <1>9 DEF WaitPeriodMissed
  <2>2. thread' \in Task \cup {NoTask} /\ userPc' \in [Task -> UserPcs] /\ ip' \in [Task -> Nat \ {0}]
    BY <1>0, <2>1, ThreadGoesOn
  <2>3. slack' = [slack EXCEPT ![t] = @ + Period[t]] /\ Period[t] \in Nat
    BY <1>9, ConstantTypes DEF WaitPeriodMissed
  <2>4. slack' \in [Task -> Int]
    BY <2>3
  <2> QED  BY <1>9, <2>2, <2>4 DEF WaitPeriodMissed
<1>10. CASE WaitPeriodReleased(t)
  <2>1. NextCallIfActive(t)
    BY <1>10 DEF WaitPeriodReleased
  <2>2. thread' \in Task \cup {NoTask} /\ userPc' \in [Task -> UserPcs] /\ ip' \in [Task -> Nat \ {0}]
    BY <1>0, <2>1, ThreadGoesOn
  <2>3. slack' = [slack EXCEPT ![t] = @ + Period[t]] /\ Period[t] \in Nat
    BY <1>10, ConstantTypes DEF WaitPeriodReleased
  <2>4. slack' \in [Task -> Int]
    BY <2>3
  <2> QED  BY <1>10, <2>2, <2>4 DEF WaitPeriodReleased
<1>11. CASE YieldCall(t)
  BY <1>0, <1>11, ThreadGoesOn DEF YieldCall
<1>12. CASE YieldResumed(t)
  BY <1>0, <1>12, ThreadGoesOn DEF YieldResumed
<1>13. CASE SemTaken(t)
  BY <1>0, <1>13, ThreadGoesOn DEF SemTaken
<1>14. CASE SemBlocks(t)
  BY <1>0, <1>14, ThreadGoesOn DEF SemBlocks
<1>15. CASE SemWoken(t)
  <2>1. CASE sem = 0
    BY <1>0, <1>15, <2>1, ThreadGoesOn DEF SemWoken
  <2>2. CASE sem # 0
    <3>1. NextCallIfActive(t) /\ sem' = sem - 1
      BY <1>15, <2>2 DEF SemWoken
    <3>2. thread' \in Task \cup {NoTask} /\ userPc' \in [Task -> UserPcs] /\ ip' \in [Task -> Nat \ {0}]
      BY <1>0, <3>1, ThreadGoesOn
    <3>3. sem' \in Nat
      BY <2>2, <3>1
    <3>4. UNCHANGED <<left, burst, missed, slack, event, owed>> /\ runUser' \subseteq Task
      BY <1>15 DEF SemWoken
    <3>5. finished' = [finished EXCEPT ![t] = TRUE]
      BY <1>15, <2>2 DEF SemWoken
    <3> QED  BY <3>2, <3>3, <3>4, <3>5
  <2> QED  BY <2>1, <2>2
<1>16. CASE SemPosts(t)
  BY <1>0, <1>16, ThreadGoesOn DEF SemPosts
<1>17. CASE EventSets(t)
  BY <1>0, <1>17, ThreadGoesOn DEF EventSets
<1>18. CASE EventTaken(t)
  BY <1>0, <1>18, ThreadGoesOn DEF EventTaken
<1>19. CASE EventBlocks(t)
  BY <1>0, <1>19, ThreadGoesOn DEF EventBlocks
<1>20. CASE EventWoken(t)
  BY <1>0, <1>20, ThreadGoesOn DEF EventWoken
<1>21. CASE EventUnsets(t)
  BY <1>0, <1>21, ThreadGoesOn DEF EventUnsets
<1> QED  BY <1>1, <1>2, <1>3, <1>4, <1>5, <1>6, <1>7, <1>8, <1>9, <1>10, <1>11, <1>12,
            <1>13, <1>14, <1>15, <1>16, <1>17, <1>18, <1>19, <1>20, <1>21
         DEF User

LEMMA TypeUser == \A t \in Task : TypeOK /\ User(t) => TypeOK'
<1> SUFFICES ASSUME NEW t \in Task, TypeOK, User(t)  PROVE TypeOK'
  OBVIOUS
<1>1. TaskTypeOK'
  <2>1. TaskTypeOK
    BY DEF TypeOK, TaskTypeOK
  <2> QED  BY <2>1, TypeUserTask
<1>2. UserWrites(t)
  BY UserWritesLines
<1>3. nxt' \in [Task -> Signals]
  <2>1. nxt \in [Task -> Signals]
    BY DEF TypeOK
  <2> QED  BY <1>2, <2>1 DEF UserWrites, UserLines, Write, Signals
<1>4. pending' \subseteq EventIds
  BY <1>2 DEF UserWrites, UserEvents, TypeOK, EventIds
<1>5. UNCHANGED release
  BY DEF User, userFrame, UserStart, GuardPassed, UserEnds, ConsumeCall, ConsumeActivated,
         ConsumePreempted, ConsumeEnds, WaitPeriodCall, WaitPeriodMissed, WaitPeriodReleased,
         YieldCall, YieldResumed, SemTaken, SemBlocks, SemWoken, SemPosts,
         EventSets, EventUnsets, EventTaken, EventBlocks, EventWoken
<1> QED  BY <1>1, <1>2, <1>3, <1>4, <1>5
         DEF TypeOK, TaskTypeOK, UserWrites, schedVars, Positions

\* Every variable keeps a value of its kind: among others, no timeout becomes
\* negative, the semaphore does not either, and the iterator of the policy
\* always points into its list.
THEOREM TypeCorrect == Spec => []TypeOK
<1>1. TypeOK /\ UNCHANGED vars => TypeOK'
  BY DEF TypeOK, Positions, vars, kernelVars, schedVars, taskVars
<1>2. TypeOK /\ Next => TypeOK'
  BY TypeKernel, TypeSched, TypeFsm, TypeUser DEF Next
<1> QED  BY TypeInit, <1>1, <1>2, PTL DEF Spec
-----------------------------------------------------------------------------
(***************************************************************************)
(* The constructs a task calls, semaphore::wait and the wait for an event: *)
(* no token and no set() is lost.                                          *)
(***************************************************************************)
\* Another thread than t is where it was, and a thread that was to run and is
\* not t is still to run.
OthersLeft(t) ==
  /\ \A u \in Task \ {t} : userPc'[u] = userPc[u]
  /\ runUser \ {t} \subseteq runUser'

\* A thread leaves one place of its code for another, and a wait is only left by
\* a thread that was to run.
LEMMA ThreadSteps ==
  ASSUME TypeOK, NEW t \in Task, NEW pc \in UserPcs,
         WaitAt(t, pc) \/ NextCall(t) \/ NextCallIfActive(t)
  PROVE  /\ \A u \in Task \ {t} : userPc'[u] = userPc[u]
         /\ WaitAt(t, pc) => userPc'[t] = pc
         /\ NextCall(t) => userPc'[t] = "call"
         /\ userPc'[t] \in {pc, "call", "guard"}
<1>1. userPc \in [Task -> UserPcs]
  BY DEF TypeOK
<1> QED  BY <1>1 DEF WaitAt, NextCall, NextCallIfActive

\* What semaphore::post guarantees: with a token in the semaphore every thread
\* blocked in semaphore::wait is about to run.
TokenReaches == sem > 0 => \A u \in Task : userPc[u] = "sem_wait" => u \in runUser

\* What set() guarantees: with the flag set every thread blocked in the wait for
\* the event is about to run, or the notification that wakes it is on its way.
EventReaches ==
  event.flag => \A u \in Task :
    userPc[u] = "event_wait" => u \in runUser \/ Notify("user_event") \in pending

\* A thread that does not start to wait for a token, when none is added.
LEMMA TokenKept ==
  ASSUME TokenReaches, NEW t \in Task, OthersLeft(t), sem' > 0 => sem > 0,
         sem' = 0 \/ userPc'[t] # "sem_wait", sem' \in Nat
  PROVE  TokenReaches'
BY DEF TokenReaches, OthersLeft

LEMMA EventKept ==
  ASSUME EventReaches, NEW t \in Task, OthersLeft(t), event'.flag => event.flag,
         ~event'.flag \/ userPc'[t] # "event_wait", pending \subseteq pending'
  PROVE  EventReaches'
BY DEF EventReaches, OthersLeft

\* Where a user thread may go, and which threads it may leave waiting: a step of
\* a thread other than the four that concern the semaphore and the event.
LEMMA QuietStep ==
  ASSUME TypeOK, TokenReaches, EventReaches, NEW t \in Task,
         OthersLeft(t), userPc'[t] \notin {"sem_wait", "event_wait"},
         UNCHANGED <<sem, event>>, pending \subseteq pending'
  PROVE  TokenReaches' /\ EventReaches'
<1>1. sem' \in Nat
  BY DEF TypeOK
<1> QED  BY <1>1, TokenKept, EventKept

LEMMA ReachesUser ==
  ASSUME TypeOK, TokenReaches, EventReaches, NEW t \in Task, User(t)
  PROVE  TokenReaches' /\ EventReaches'
<1>0. /\ {"call", "consume_guard", "consuming", "wait_release", "sem_wait", "event_wait",
          "yielded", "guard", "done"} \subseteq UserPcs
      /\ userPc \in [Task -> UserPcs] /\ sem \in Nat /\ event.flag \in BOOLEAN
      /\ event \in [kind : EventKinds, flag : BOOLEAN]
  BY DEF UserPcs, TypeOK
<1> USE DEF OthersLeft, Resumed
<1>1. CASE UserStart(t)
  BY <1>0, <1>1, QuietStep DEF UserStart
<1>2. CASE GuardPassed(t)
  BY <1>0, <1>2, QuietStep, ThreadSteps DEF GuardPassed
<1>3. CASE UserEnds(t)
  BY <1>0, <1>3, QuietStep, ThreadSteps DEF UserEnds
<1>4. CASE ConsumeCall(t)
  <2>1. WaitAt(t, "consume_guard") \/ WaitAt(t, "consuming")
    BY <1>4 DEF ConsumeCall
  <2>2. UNCHANGED <<sem, event, pending, runUser>>
    BY <1>4 DEF ConsumeCall
  <2> QED  BY <1>0, <2>1, <2>2, QuietStep, ThreadSteps
<1>5. CASE ConsumeActivated(t)
  BY <1>0, <1>5, QuietStep, ThreadSteps DEF ConsumeActivated
<1>6. CASE ConsumePreempted(t)
  BY <1>0, <1>6, QuietStep, ThreadSteps DEF ConsumePreempted
<1>7. CASE ConsumeEnds(t)
  BY <1>0, <1>7, QuietStep, ThreadSteps DEF ConsumeEnds
<1>8. CASE WaitPeriodCall(t)
  BY <1>0, <1>8, QuietStep, ThreadSteps DEF WaitPeriodCall
<1>9. CASE WaitPeriodMissed(t)
  BY <1>0, <1>9, QuietStep, ThreadSteps DEF WaitPeriodMissed
<1>10. CASE WaitPeriodReleased(t)
  BY <1>0, <1>10, QuietStep, ThreadSteps DEF WaitPeriodReleased
<1>11. CASE YieldCall(t)
  BY <1>0, <1>11, QuietStep, ThreadSteps DEF YieldCall
<1>12. CASE YieldResumed(t)
  BY <1>0, <1>12, QuietStep, ThreadSteps DEF YieldResumed
<1>13. CASE SemTaken(t)
  <2>1. OthersLeft(t) /\ userPc'[t] \notin {"sem_wait", "event_wait"}
    BY <1>0, <1>13, ThreadSteps DEF SemTaken
  <2>2. sem' = sem - 1 /\ sem > 0 /\ UNCHANGED <<event, pending>>
    BY <1>13 DEF SemTaken
  <2> QED  BY <1>0, <2>1, <2>2, TokenKept, EventKept
<1>14. CASE SemBlocks(t)
  <2>1. OthersLeft(t) /\ userPc'[t] = "sem_wait" /\ sem' = 0 /\ UNCHANGED <<event, pending>>
    BY <1>0, <1>14, ThreadSteps DEF SemBlocks
  <2> QED  BY <1>0, <2>1, TokenKept, EventKept
<1>15. CASE SemWoken(t)
  <2>1. OthersLeft(t) /\ userPc'[t] # "event_wait" /\ UNCHANGED <<event, pending>>
    BY <1>0, <1>15, ThreadSteps DEF SemWoken
  <2>2. CASE sem = 0
    BY <1>0, <1>15, <2>1, <2>2, TokenKept, EventKept DEF SemWoken
  <2>3. CASE sem # 0
    <3>1. sem' = sem - 1 /\ userPc'[t] # "sem_wait"
      BY <1>0, <1>15, <2>3, ThreadSteps DEF SemWoken
    <3>2. sem' \in Nat /\ sem > 0
      BY <1>0, <2>3, <3>1
    <3> QED  BY <2>1, <3>1, <3>2, TokenKept, EventKept
  <2> QED  BY <2>2, <2>3
<1>16. CASE SemPosts(t)
  <2>1. OthersLeft(t) /\ userPc'[t] = "call" /\ UNCHANGED <<event, pending>>
    BY <1>0, <1>16, ThreadSteps DEF SemPosts
  <2>2. runUser' = runUser \cup {u \in Task : userPc[u] = "sem_wait"}
    BY <1>16 DEF SemPosts
  <2>3. TokenReaches'
    BY <2>1, <2>2 DEF TokenReaches
  <2> QED  BY <2>1, <2>3, EventKept
<1>17. CASE EventSets(t)
  <2>1. OthersLeft(t) /\ userPc'[t] = "call" /\ sem' = sem /\ Notify("user_event") \in pending'
    BY <1>0, <1>17, ThreadSteps DEF EventSets
  <2>2. EventReaches'
    BY <2>1 DEF EventReaches
  <2> QED  BY <1>0, <2>1, <2>2, TokenKept
<1>18. CASE EventTaken(t)
  <2>1. OthersLeft(t) /\ userPc'[t] \notin {"sem_wait", "event_wait"} /\ UNCHANGED <<sem, pending>>
    BY <1>0, <1>18, ThreadSteps DEF EventTaken
  <2>2. event.flag
    BY <1>18 DEF EventTaken
  <2> QED  BY <1>0, <2>1, <2>2, TokenKept, EventKept
<1>19. CASE EventBlocks(t)
  <2>1. OthersLeft(t) /\ userPc'[t] = "event_wait" /\ ~event'.flag /\ UNCHANGED <<sem, pending>>
    BY <1>0, <1>19, ThreadSteps DEF EventBlocks
  <2> QED  BY <1>0, <2>1, TokenKept, EventKept
<1>20. CASE EventWoken(t)
  <2>1. OthersLeft(t) /\ userPc'[t] \notin {"sem_wait", "event_wait"} /\ UNCHANGED <<sem, pending>>
    BY <1>0, <1>20, ThreadSteps DEF EventWoken
  <2>2. event'.flag => event.flag
    BY <1>0, <1>20 DEF EventWoken
  <2> QED  BY <1>0, <2>1, <2>2, TokenKept, EventKept
<1>21. CASE EventUnsets(t)
  <2>1. OthersLeft(t) /\ userPc'[t] = "call" /\ UNCHANGED <<sem, pending>>
    BY <1>0, <1>21, ThreadSteps DEF EventUnsets
  <2>2. ~event'.flag
    BY <1>0, <1>21 DEF EventUnsets
  <2> QED  BY <1>0, <2>1, <2>2, TokenKept, EventKept
<1> QED  BY <1>1, <1>2, <1>3, <1>4, <1>5, <1>6, <1>7, <1>8, <1>9, <1>10, <1>11, <1>12,
            <1>13, <1>14, <1>15, <1>16, <1>17, <1>18, <1>19, <1>20, <1>21
         DEF User

\* The kernel runs every woken thread before it ends the evaluate phase, and its
\* delta cycle delivers the notification to the threads that wait for it.
LEMMA ReachesKernel ==
  ASSUME TokenReaches, EventReaches, DeltaCycle \/ AdvanceTime
  PROVE  TokenReaches' /\ EventReaches'
<1>1. runUser = {} /\ UNCHANGED <<userPc, sem, event>>
  BY DEF DeltaCycle, AdvanceTime, Quiescent, EvaluationOver, taskVars
<1>2. TokenReaches'
  BY <1>1 DEF TokenReaches
<1>3. CASE AdvanceTime
  <2>1. pending = {}
    BY <1>3 DEF AdvanceTime, Quiescent
  <2> QED  BY <1>1, <1>2, <2>1 DEF EventReaches
<1>4. CASE DeltaCycle
  <2>1. ASSUME event.flag, NEW u \in Task, userPc[u] = "event_wait"  PROVE u \in runUser'
    <3>1. Notify("user_event") \in Fired
      BY <1>1, <2>1 DEF EventReaches, Fired
    <3>2. UserSensitivity(u) = {Notify("user_event")}
      BY <2>1 DEF UserSensitivity
    <3> QED  BY <1>4, <3>1, <3>2 DEF DeltaCycle
  <2> QED  BY <1>1, <1>2, <2>1 DEF EventReaches
<1> QED  BY <1>2, <1>3, <1>4

LEMMA ReachesNext ==
  ASSUME TypeOK, TokenReaches, EventReaches, Next
  PROVE  TokenReaches' /\ EventReaches'
<1>1. CASE SchedResume \/ SchedSecondDelta \/ SchedDispatch
  <2>1. UNCHANGED <<sem, event, userPc, runUser>> /\ pending \subseteq pending'
    BY <1>1 DEF SchedResume, SchedSecondDelta, SchedDispatch, taskVars
  <2> QED  BY <2>1 DEF TokenReaches, EventReaches
<1>2. ASSUME NEW t \in Task, Fsm(t)  PROVE TokenReaches' /\ EventReaches'
  <2>1. UNCHANGED <<sem, event, userPc, runUser>>
    BY <1>2 DEF Fsm, ExecutingWaits, ExecutingCompletes, ExecutingStops, ReadyActivated,
                ActiveWaitEnds, ActiveWaitLosesProcessor, InactiveWaitEnds,
                InactiveWaitActivated, FsmMove, taskVars
  <2>2. pending \subseteq pending'
    <3>1. SignalsTyped
      BY DEF TypeOK, SignalsTyped
    <3> QED  BY <1>2, <3>1, FsmWrites
  <2> QED  BY <2>1, <2>2 DEF TokenReaches, EventReaches
<1> QED  BY <1>1, <1>2, ReachesKernel, ReachesUser DEF Next

LEMMA ReachesAlways == Spec => [](TokenReaches /\ EventReaches)
<1>1. Init => TokenReaches /\ EventReaches
  BY DEF Init, TokenReaches, EventReaches
<1>2. TokenReaches /\ EventReaches /\ UNCHANGED vars => (TokenReaches /\ EventReaches)'
  BY DEF TokenReaches, EventReaches, vars, kernelVars, taskVars
<1>3. TypeOK /\ TokenReaches /\ EventReaches /\ Next => (TokenReaches /\ EventReaches)'
  BY ReachesNext
<1> QED  BY <1>1, <1>2, <1>3, TypeCorrect, PTL DEF Spec

\* No token is lost: when time passes, no thread is blocked in semaphore::wait
\* while the semaphore has a token, however many threads a post wakes.
THEOREM TokenTakenAlways == Spec => []TokenTaken
<1>1. TypeOK /\ TokenReaches => TokenTaken
  BY DEF TypeOK, TokenReaches, TokenTaken, Quiescent, EvaluationOver
<1> QED  BY <1>1, ReachesAlways, TypeCorrect, PTL

\* No set() is lost: when time passes, no thread waits for a registered event
\* whose flag is set.
THEOREM EventReleasesAlways == Spec => []EventReleases
<1>1. EventReaches => EventReleases
  BY DEF EventReaches, EventReleases, Quiescent, EvaluationOver
<1> QED  BY <1>1, ReachesAlways, PTL

-----------------------------------------------------------------------------
(***************************************************************************)
(* consume.  Under a preemptive scheduler a thread waits for the timeout   *)
(* only while its task is active, or has already been woken by the fall of *)
(* active; the timeout of a thread that waits elsewhere is not pending.    *)
(***************************************************************************)
ConsumeInv(t) ==
  /\ thread = t => userPc[t] = "call" /\ t \notin runUser
  /\ userPc[t] = "consuming" => cur[t].active \/ t \in runUser
  /\ userPc[t] = "consuming" /\ burst[t] = 0 => t \in runUser
  /\ userPc[t] = "consume_guard" => left[t] > 0 /\ (t \in runUser => cur[t].active)
  /\ burst[t] > 0 => userPc[t] = "consuming"
  /\ userPc[t] = "consuming" => owed[t] = burst[t]
  /\ userPc[t] = "consume_guard" => owed[t] = left[t]
  /\ userPc[t] \notin {"consuming", "consume_guard"} => owed[t] = 0

EachConsume == \A t \in Task : ConsumeInv(t)

\* What a step of another thread leaves of a task.
Untouched(u) ==
  /\ userPc'[u] = userPc[u] /\ left'[u] = left[u] /\ burst'[u] = burst[u] /\ owed'[u] = owed[u]
  /\ u \in runUser' => u \in runUser \/ userPc[u] = "sem_wait"
  /\ u \in runUser => u \in runUser'
  /\ cur' = cur /\ thread' # u

LEMMA UntouchedKept ==
  ASSUME NEW u \in Task, ConsumeInv(u), Untouched(u)
  PROVE  ConsumeInv(u)'
BY DEF ConsumeInv, Untouched

\* A thread that is between two calls, or waits in none of consume's waits.
LEMMA OutOfConsume ==
  ASSUME NEW t \in Task, userPc'[t] \notin {"consuming", "consume_guard"},
         burst'[t] = 0, owed'[t] = 0,
         thread' = t => userPc'[t] = "call" /\ t \notin runUser'
  PROVE  ConsumeInv(t)'
BY DEF ConsumeInv

ThreadVars == <<userPc, left, burst, owed, runUser, cur, thread>>

LEMMA ConsumeIdle ==
  ASSUME NEW t \in Task, ConsumeInv(t), UNCHANGED ThreadVars
  PROVE  ConsumeInv(t)'
BY DEF ConsumeInv, ThreadVars

\* A step of thread t that does not belong to consume.
LEMMA OtherCall ==
  ASSUME TypeOK, NEW t \in Task, \A u \in Task : ConsumeInv(u),
         thread \in {t, NoTask}, userPc[t] \notin {"consuming", "consume_guard"},
         thread = NoTask => runUser' = runUser \ {t},
         thread = t => runUser' = runUser \/ runUser' = runUser \cup {u \in Task : userPc[u] = "sem_wait"},
         NEW pc \in UserPcs \ {"consuming", "consume_guard"},
         WaitAt(t, pc) \/ NextCall(t) \/ NextCallIfActive(t),
         UNCHANGED <<left, burst, owed, cur>>
  PROVE  \A u \in Task : ConsumeInv(u)'
<1>1. userPc \in [Task -> UserPcs] /\ burst \in [Task -> Nat] /\ NoTask \notin Task
  BY ConstantTypes DEF TypeOK
<1>2. thread' \in {t, NoTask} /\ (thread' = t => userPc'[t] = "call")
  BY <1>1 DEF WaitAt, NextCall, NextCallIfActive
<1>3. /\ \A u \in Task \ {t} : userPc'[u] = userPc[u]
      /\ userPc'[t] \in {pc, "call", "guard"}
  BY ThreadSteps
<1>4. ASSUME NEW u \in Task \ {t}  PROVE ConsumeInv(u)'
  <2>1. Untouched(u)
    BY <1>1, <1>2, <1>3 DEF Untouched
  <2> QED  BY <2>1, UntouchedKept
<1>5. ConsumeInv(t)'
  <2>1. burst[t] = 0 /\ owed[t] = 0
    BY <1>1 DEF ConsumeInv
  <2>2. t \notin runUser'
    BY <1>1 DEF ConsumeInv
  <2> QED  BY <1>2, <1>3, <2>1, <2>2, OutOfConsume
<1> QED  BY <1>4, <1>5

LEMMA ConsumeUser ==
  ASSUME Preemptive, TypeOK, NEW t \in Task, \A u \in Task : ConsumeInv(u), User(t)
  PROVE  \A u \in Task : ConsumeInv(u)'
<1>0. /\ {"call", "wait_release", "sem_wait", "event_wait", "yielded", "guard", "done"}
            \subseteq UserPcs \ {"consuming", "consume_guard"}
      /\ userPc \in [Task -> UserPcs] /\ NoTask \notin Task
      /\ burst \in [Task -> Nat] /\ left \in [Task -> Nat] /\ owed \in [Task -> Int]
      /\ ConsumeInv(t)
  BY ConstantTypes DEF UserPcs, TypeOK
<1>00. thread = t => userPc[t] = "call"
  BY <1>0 DEF ConsumeInv
<1> USE DEF Resumed, Calls, userFrame
<1>1. CASE UserStart(t)
  <2>1. /\ t \in runUser /\ thread = NoTask /\ userPc[t] = "dormant" /\ runUser' = runUser \ {t}
        /\ thread' = t /\ userPc' = [userPc EXCEPT ![t] = "call"]
        /\ UNCHANGED <<cur, left, burst, owed>>
    BY <1>1 DEF UserStart
  <2>2. ASSUME NEW u \in Task \ {t}  PROVE ConsumeInv(u)'
    <3>1. Untouched(u)
      BY <1>0, <2>1 DEF Untouched
    <3> QED  BY <3>1, UntouchedKept
  <2>3. ConsumeInv(t)'
    BY <1>0, <2>1 DEF ConsumeInv
  <2> QED  BY <2>2, <2>3
<1>2. CASE GuardPassed(t)
  BY <1>0, <1>2, OtherCall DEF GuardPassed
<1>3. CASE UserEnds(t)
  BY <1>0, <1>00, <1>3, OtherCall DEF UserEnds
<1>4. CASE ConsumeCall(t)
  <2>1. PICK c \in Script[t][ip[t]] :
          /\ c.op = "consume"
          /\ left' = [left EXCEPT ![t] = c.time] /\ owed' = [owed EXCEPT ![t] = c.time]
          /\ \/ WaitAt(t, "consume_guard") /\ UNCHANGED burst
             \/ cur[t].active /\ WaitAt(t, "consuming") /\ burst' = [burst EXCEPT ![t] = c.time]
    BY <1>4 DEF ConsumeCall
  <2>2. c.time \in Nat \ {0}
    <3>1. Script[t] \in Seq(SUBSET Call)
      BY SchedulingAssumption
    <3>2. ip[t] \in 1..Len(Script[t])
      BY <1>4, <3>1 DEF ConsumeCall, TypeOK
    <3>3. c \in Call
      BY <2>1, <3>1, <3>2
    <3> QED  BY <2>1, <3>3 DEF Call
  <2>3. thread = t /\ UNCHANGED <<cur, runUser>>
    BY <1>4 DEF ConsumeCall
  <2>4. /\ thread' = NoTask
        /\ \/ userPc' = [userPc EXCEPT ![t] = "consume_guard"] /\ burst' = burst
           \/ /\ userPc' = [userPc EXCEPT ![t] = "consuming"] /\ cur[t].active
              /\ burst' = [burst EXCEPT ![t] = c.time]
    BY <2>1 DEF WaitAt
  <2>5. ASSUME NEW u \in Task \ {t}  PROVE ConsumeInv(u)'
    <3>1. Untouched(u)
      BY <1>0, <2>1, <2>3, <2>4 DEF Untouched
    <3> QED  BY <3>1, UntouchedKept
  <2>6. ConsumeInv(t)'
    <3>1. t \notin runUser' /\ burst[t] = 0
      BY <1>0, <2>3 DEF ConsumeInv
    <3>2. left'[t] = c.time /\ owed'[t] = c.time
      BY <1>0, <2>1
    <3> QED  BY <1>0, <2>2, <2>3, <2>4, <3>1, <3>2 DEF ConsumeInv
  <2> QED  BY <2>5, <2>6
<1>5. CASE ConsumeActivated(t)
  <2>1. /\ t \in runUser /\ thread = NoTask /\ userPc[t] = "consume_guard" /\ runUser' = runUser \ {t}
        /\ thread' = NoTask /\ userPc' = [userPc EXCEPT ![t] = "consuming"]
        /\ burst' = [burst EXCEPT ![t] = left[t]]
        /\ UNCHANGED <<cur, left, owed>>
    BY <1>5 DEF ConsumeActivated, WaitAt
  <2>2. ASSUME NEW u \in Task \ {t}  PROVE ConsumeInv(u)'
    <3>1. Untouched(u)
      BY <1>0, <2>1 DEF Untouched
    <3> QED  BY <3>1, UntouchedKept
  <2>3. ConsumeInv(t)'
    BY <1>0, <2>1 DEF ConsumeInv
  <2> QED  BY <2>2, <2>3
<1>6. CASE ConsumePreempted(t)
  <2>1. /\ t \in runUser /\ thread = NoTask /\ userPc[t] = "consuming" /\ runUser' = runUser \ {t}
        /\ thread' = NoTask /\ userPc' = [userPc EXCEPT ![t] = "consume_guard"]
        /\ burst[t] > 0 /\ left' = [left EXCEPT ![t] = burst[t]] /\ burst' = [burst EXCEPT ![t] = 0]
        /\ UNCHANGED <<cur, owed>>
    BY <1>6 DEF ConsumePreempted, WaitAt
  <2>2. ASSUME NEW u \in Task \ {t}  PROVE ConsumeInv(u)'
    <3>1. Untouched(u)
      BY <1>0, <2>1 DEF Untouched
    <3> QED  BY <3>1, UntouchedKept
  <2>3. ConsumeInv(t)'
    BY <1>0, <2>1 DEF ConsumeInv
  <2> QED  BY <2>2, <2>3
<1>7. CASE ConsumeEnds(t)
  <2>1. /\ t \in runUser /\ thread = NoTask /\ userPc[t] = "consuming" /\ runUser' = runUser \ {t}
        /\ thread' = t /\ userPc' = [userPc EXCEPT ![t] = "call"]
        /\ burst[t] = 0 /\ left' = [left EXCEPT ![t] = 0]
        /\ UNCHANGED <<cur, burst, owed>>
    BY <1>7 DEF ConsumeEnds, NextCall
  <2>2. ASSUME NEW u \in Task \ {t}  PROVE ConsumeInv(u)'
    <3>1. Untouched(u)
      BY <1>0, <2>1 DEF Untouched
    <3> QED  BY <3>1, UntouchedKept
  <2>3. ConsumeInv(t)'
    BY <1>0, <2>1 DEF ConsumeInv
  <2> QED  BY <2>2, <2>3
<1>8. CASE WaitPeriodCall(t)
  BY <1>0, <1>00, <1>8, OtherCall DEF WaitPeriodCall
<1>9. CASE WaitPeriodMissed(t)
  BY <1>0, <1>00, <1>9, OtherCall DEF WaitPeriodMissed
<1>10. CASE WaitPeriodReleased(t)
  BY <1>0, <1>10, OtherCall DEF WaitPeriodReleased
<1>11. CASE YieldCall(t)
  BY <1>0, <1>00, <1>11, OtherCall DEF YieldCall
<1>12. CASE YieldResumed(t)
  BY <1>0, <1>12, OtherCall DEF YieldResumed
<1>13. CASE SemTaken(t)
  BY <1>0, <1>00, <1>13, OtherCall DEF SemTaken
<1>14. CASE SemBlocks(t)
  BY <1>0, <1>00, <1>14, OtherCall DEF SemBlocks
<1>15. CASE SemWoken(t)
  BY <1>0, <1>15, OtherCall DEF SemWoken
<1>16. CASE SemPosts(t)
  BY <1>0, <1>00, <1>16, OtherCall DEF SemPosts
<1>17. CASE EventSets(t)
  BY <1>0, <1>00, <1>17, OtherCall DEF EventSets
<1>18. CASE EventTaken(t)
  BY <1>0, <1>00, <1>18, OtherCall DEF EventTaken
<1>19. CASE EventBlocks(t)
  BY <1>0, <1>00, <1>19, OtherCall DEF EventBlocks
<1>20. CASE EventWoken(t)
  BY <1>0, <1>20, OtherCall DEF EventWoken
<1>21. CASE EventUnsets(t)
  BY <1>0, <1>00, <1>21, OtherCall DEF EventUnsets
<1> QED  BY <1>1, <1>2, <1>3, <1>4, <1>5, <1>6, <1>7, <1>8, <1>9, <1>10, <1>11, <1>12,
            <1>13, <1>14, <1>15, <1>16, <1>17, <1>18, <1>19, <1>20, <1>21
         DEF User

\* The delta cycle that makes the fall of active visible wakes the thread, and
\* the one that makes its rise visible wakes a thread that waits for it.
LEMMA ConsumeDelta ==
  ASSUME Preemptive, TypeOK, PendingNotified, DeltaCycle, NEW t \in Task, ConsumeInv(t)
  PROVE  ConsumeInv(t)'
<1>1. /\ runUser = {} /\ thread = NoTask /\ NoTask \notin Task
      /\ cur' = nxt /\ UNCHANGED <<thread, userPc, left, burst, owed>>
      /\ runUser' = {u \in Task : UserSensitivity(u) \cap Fired # {}}
  BY ConstantTypes DEF DeltaCycle, EvaluationOver, taskVars
<1>2. ASSUME userPc[t] = "consuming", ~nxt[t].active  PROVE t \in runUser'
  <2>1. UserSensitivity(t) = {Neg("active", t)}
    BY <1>2 DEF UserSensitivity
  <2>2. cur[t].active
    BY <1>1, <1>2 DEF ConsumeInv
  <2>3. Neg("active", t) \in Fired
    <3>1. <<"active", t>> \in {"active", "consumption", "wper", "wcom"} \X Task
      OBVIOUS
    <3>2. cur[t]["active"] /\ ~nxt[t]["active"]
      BY <1>2, <2>2
    <3> QED  BY <3>1, <3>2 DEF Fired
  <2> QED  BY <1>1, <2>1, <2>3
<1>3. ASSUME userPc[t] = "consume_guard", t \in runUser'  PROVE nxt[t].active
  <2>1. UserSensitivity(t) = {Pos("active", t)}
    BY <1>3 DEF UserSensitivity
  <2>2. Pos("active", t) \in Fired
    BY <1>1, <1>3, <2>1
  <2> QED  BY <2>2, FiredEdges
<1>4. ASSUME userPc[t] = "consuming"  PROVE burst[t] > 0
  BY <1>1, <1>4 DEF ConsumeInv, TypeOK
<1> QED  BY <1>1, <1>2, <1>3, <1>4 DEF ConsumeInv

\* Time passes for the timeout of consume and for what is owed alike.
LEMMA ConsumeTime ==
  ASSUME TypeOK, AdvanceTime, NEW t \in Task, ConsumeInv(t)
  PROVE  ConsumeInv(t)'
<1> DEFINE d == Least(Timeouts)
<1>1. Timeouts \in SUBSET Nat /\ Timeouts # {} /\ \A x \in Timeouts : x > 0
  BY DEF TypeOK, Timeouts, AdvanceTime
<1>2. d \in Nat \ {0} /\ \A x \in Timeouts : d <= x
  <2>1. d \in Timeouts /\ \A x \in Timeouts : d <= x
    BY <1>1, LeastIsLeast
  <2>2. d \in Nat /\ d > 0
    <3> HIDE DEF d
    <3> QED  BY <1>1, <2>1
  <2> HIDE DEF d
  <2> QED  BY <2>1, <2>2
<1>3. /\ runUser = {} /\ thread = NoTask /\ NoTask \notin Task
      /\ UNCHANGED <<thread, cur, userPc, left>>
      /\ runUser' = {u \in Task : burst[u] = d}
      /\ burst'[t] = IF burst[t] = 0 THEN 0 ELSE burst[t] - d
      /\ owed'[t] = IF cur[t].active /\ userPc[t] = "consuming" THEN owed[t] - d ELSE owed[t]
  BY ConstantTypes DEF AdvanceTime, Quiescent, EvaluationOver
<1>4. burst[t] \in Nat /\ owed[t] \in Int
  BY DEF TypeOK
<1>5. burst[t] > 0 => d <= burst[t]
  <2>1. burst[t] > 0 => burst[t] \in Timeouts
    BY DEF Timeouts
  <2> QED  BY <1>2, <2>1
<1> HIDE DEF d
<1>6. CASE userPc[t] = "consuming"
  <2>1. cur[t].active /\ burst[t] > 0 /\ owed[t] = burst[t]
    BY <1>3, <1>4, <1>6 DEF ConsumeInv
  <2>2. burst'[t] = burst[t] - d /\ owed'[t] = burst[t] - d
    BY <1>3, <1>4, <1>6, <2>1
  <2>3. burst'[t] = 0 => t \in runUser'
    BY <1>2, <1>3, <1>4, <2>2
  <2> QED  BY <1>3, <1>6, <2>1, <2>2, <2>3 DEF ConsumeInv
<1>7. CASE userPc[t] # "consuming"
  <2>1. burst[t] = 0 /\ burst'[t] = 0 /\ owed'[t] = owed[t]
    BY <1>3, <1>4, <1>7 DEF ConsumeInv
  <2>2. t \notin runUser'
    BY <1>2, <1>3, <2>1
  <2> QED  BY <1>3, <1>7, <2>1, <2>2 DEF ConsumeInv
<1> QED  BY <1>6, <1>7

LEMMA ConsumeNext ==
  ASSUME Preemptive, TypeOK, PendingNotified, \A u \in Task : ConsumeInv(u), Next
  PROVE  \A u \in Task : ConsumeInv(u)'
<1>1. CASE SchedResume \/ SchedSecondDelta \/ SchedDispatch
  <2>1. UNCHANGED ThreadVars
    BY <1>1 DEF SchedResume, SchedSecondDelta, SchedDispatch, taskVars, ThreadVars
  <2> QED  BY <2>1, ConsumeIdle
<1>2. ASSUME NEW t \in Task, Fsm(t)  PROVE \A u \in Task : ConsumeInv(u)'
  <2>1. UNCHANGED ThreadVars
    BY <1>2 DEF Fsm, ExecutingWaits, ExecutingCompletes, ExecutingStops, ReadyActivated,
                ActiveWaitEnds, ActiveWaitLosesProcessor, InactiveWaitEnds,
                InactiveWaitActivated, FsmMove, taskVars, ThreadVars
  <2> QED  BY <2>1, ConsumeIdle
<1> QED  BY <1>1, <1>2, ConsumeUser, ConsumeDelta, ConsumeTime DEF Next

LEMMA ConsumeAlways == Preemptive /\ Spec => []EachConsume
<1> DEFINE CInv == Preemptive /\ \A t \in Task : ConsumeInv(t)
<1>1. Preemptive /\ Init => CInv
  <2> SUFFICES ASSUME Init, NEW t \in Task  PROVE ConsumeInv(t)
    OBVIOUS
  <2>1. /\ userPc = [u \in Task |-> "dormant"] /\ thread = NoTask /\ NoTask \notin Task
        /\ burst = [u \in Task |-> 0] /\ owed = [u \in Task |-> 0]
    BY ConstantTypes DEF Init
  <2> QED  BY <2>1 DEF ConsumeInv
<1>2. TypeOK /\ PendingNotified /\ CInv /\ Next => CInv'
  <2> SUFFICES ASSUME TypeOK, PendingNotified, CInv, Next  PROVE CInv'
    OBVIOUS
  <2>1. \A t \in Task : ConsumeInv(t)'
    BY ConsumeNext
  <2>2. Preemptive'
    BY DEF Preemptive
  <2> QED  BY <2>1, <2>2
<1>3. CInv /\ UNCHANGED vars => CInv'
  BY DEF ConsumeInv, Preemptive, vars, kernelVars, taskVars
<1>4. CInv => EachConsume
  BY DEF EachConsume
<1>5. WokenInv => PendingNotified
  BY DEF WokenInv
<1> HIDE DEF CInv
<1> QED  BY <1>1, <1>2, <1>3, <1>4, <1>5, TypeCorrect, WokenAlways, PTL DEF Spec

\* Under a preemptive scheduler consume(c) costs a task exactly c units of time
\* holding the processor, whatever preempts it and however often: what is left
\* when active falls is what the timeout had left.
THEOREM ConsumeExactAlways == Preemptive /\ Spec => []ConsumeExact
<1>1. EachConsume => ConsumeExact
  BY DEF EachConsume, ConsumeInv, ConsumeExact
<1> QED  BY <1>1, ConsumeAlways, PTL

-----------------------------------------------------------------------------
\* Only the end of the scheduling time wakes the scheduler that waits for it.
PenaltyRunning ==
  /\ penalty > 0 => schedPc = "penalty"
  /\ runSched /\ schedPc = "penalty" => penalty = 0

\* Time advances by at least one unit.
LEMMA TimePasses ==
  ASSUME TypeOK, Timeouts # {}
  PROVE  Least(Timeouts) \in Nat /\ Least(Timeouts) > 0
<1>1. Timeouts \in SUBSET Nat /\ \A x \in Timeouts : x > 0
  BY DEF TypeOK, Timeouts
<1>2. Least(Timeouts) \in Timeouts
  BY <1>1, LeastIsLeast
<1> QED  BY <1>1, <1>2

\* The scheduling time runs down and wakes the scheduler when it is over.
LEMMA PenaltyTime ==
  ASSUME TypeOK, PenaltyRunning, AdvanceTime
  PROVE  PenaltyRunning'
<1> DEFINE d == Least(Timeouts)
<1>1. d \in Nat /\ d > 0
  BY TimePasses DEF AdvanceTime
<1>2. /\ runSched' = (penalty = d) /\ schedPc' = schedPc
      /\ penalty' = IF penalty = 0 THEN 0 ELSE penalty - d
  BY DEF AdvanceTime
<1> HIDE DEF d
<1>3. PICK p \in Nat : p = penalty
  BY DEF TypeOK
<1>4. penalty' = IF p = 0 THEN 0 ELSE p - d
  BY <1>2, <1>3
<1>5. penalty' > 0 => p > 0
  BY <1>1, <1>4
<1>6. p = d => penalty' = 0
  BY <1>1, <1>4
<1> QED  BY <1>2, <1>3, <1>5, <1>6 DEF PenaltyRunning

LEMMA PenaltyNext ==
  ASSUME TypeOK, PenaltyRunning, Next
  PROVE  PenaltyRunning'
<1>0. penalty \in Nat /\ runSched \in BOOLEAN
  BY DEF TypeOK
<1>1. CASE DeltaCycle
  <2>1. UNCHANGED <<schedPc, penalty>> /\ runSched' = (SchedSensitivity \cap Fired # {})
    BY <1>1 DEF DeltaCycle, schedVars
  <2>2. schedPc = "penalty" => ~runSched'
    BY <2>1 DEF SchedSensitivity
  <2> QED  BY <2>1, <2>2 DEF PenaltyRunning
<1>2. CASE SchedResume \/ SchedSecondDelta \/ SchedDispatch
  <2>1. /\ ~runSched'
        /\ \/ schedPc' = "penalty"
           \/ penalty' = penalty /\ schedPc # "penalty"
           \/ penalty' = penalty /\ runSched
    BY <1>2 DEF SchedResume, SchedSecondDelta, SchedDispatch
  <2> QED  BY <1>0, <2>1 DEF PenaltyRunning
<1>3. ASSUME NEW t \in Task, Fsm(t) \/ User(t)  PROVE PenaltyRunning'
  <2>1. UNCHANGED <<schedPc, penalty, runSched>>
    BY <1>3, FsmWrites, UserWritesLines DEF TypeOK, SignalsTyped, UserWrites, schedVars
  <2> QED  BY <2>1 DEF PenaltyRunning
<1> QED  BY <1>1, <1>2, <1>3, PenaltyTime DEF Next

LEMMA PenaltyAlways == Spec => []PenaltyRunning
<1>1. Init => PenaltyRunning
  BY DEF Init, PenaltyRunning
<1>2. PenaltyRunning /\ UNCHANGED vars => PenaltyRunning'
  BY DEF PenaltyRunning, vars, kernelVars, schedVars
<1>3. TypeOK /\ PenaltyRunning /\ Next => PenaltyRunning'
  BY PenaltyNext
<1> QED  BY <1>1, <1>2, <1>3, TypeCorrect, PTL DEF Spec

-----------------------------------------------------------------------------
(***************************************************************************)
(* A dynamic policy without preemption: only a completion triggers the     *)
(* scheduler, so the current task is the only one that can have left READY *)
(* and not finished, and it loses the processor only once it has finished. *)
(***************************************************************************)
NeverPreempts == Triggering = "NON_PREEMPTIVE" /\ Policy # "STATIC_SCHEDULING"

Idle == {"READY", "FINISHED"}

\* A state machine that is to run has not written its state yet, and FINISHED is
\* never left.
StatesFollow ==
  \A t \in Task : /\ t \in runFsm => nxt[t].state = cur[t].state
                  /\ cur[t].state = "FINISHED" => nxt[t].state = "FINISHED"

OnlyCurrentRuns ==
  \A t \in Task : t # current => cur[t].state \in Idle /\ nxt[t].state \in Idle

\* The completion on its way is that of the current task, in this evaluate phase.
CompletionPending ==
  Notify("completion") \in pending =>
    current \in Task /\ cur[current].state = "EXECUTING" /\ nxt[current].state = "FINISHED"

\* The scheduler has been triggered or is about to dispatch.
Triggered == Withdrawing \/ (runSched /\ schedPc = "idle")

TriggeredByCompletion ==
  /\ Triggered => current = NoTask \/ cur[current].state = "FINISHED"
  /\ schedPc = "start" => current = NoTask

LosesWhenFinished ==
  \A t \in Task : cur[t].active /\ ~nxt[t].active => cur[t].state = "FINISHED"

CompletionInv ==
  /\ StatesFollow /\ OnlyCurrentRuns /\ CompletionPending /\ TriggeredByCompletion
  /\ LosesWhenFinished

\* What a step of update_state_proc is made of.
LEMMA FsmSteps ==
  ASSUME SignalsTyped, NEW t \in Task, Fsm(t)
  PROVE  \E s \in States, E \in SUBSET FsmEvents :
           /\ FsmMove(t, s, E)
           /\ t \in runFsm /\ cur[t].state # "FINISHED"
           /\ cur[t].state = "READY" => cur[t].active
           /\ "completion" \in E => cur[t].state = "EXECUTING" /\ s = "FINISHED"
<1> USE DEF FsmResumed
<1>0. /\ States = {"READY", "EXECUTING", "WAIT_PERIOD", "INACTIVE_WAIT_PERIOD",
                   "WAIT_COMM_SYNC", "INACTIVE_WAIT_COMM_SYNC", "FINISHED"}
      /\ FsmEvents = {"running_task_to_wait_state", "completion", "innactive_task_ends_wait"}
  BY DEF States, FsmEvents
<1>1. CASE ExecutingWaits(t)
  <2>1. PICK s \in {"WAIT_PERIOD", "INACTIVE_WAIT_PERIOD", "WAIT_COMM_SYNC",
                    "INACTIVE_WAIT_COMM_SYNC"} :
          FsmMove(t, s, {"running_task_to_wait_state"})
    BY <1>1 DEF ExecutingWaits
  <2>2. t \in runFsm /\ cur[t].state = "EXECUTING"
    BY <1>1 DEF ExecutingWaits
  <2>3. {"running_task_to_wait_state"} \in SUBSET FsmEvents /\ s \in States
    BY <1>0
  <2> QED  BY <2>1, <2>2, <2>3
<1>2. CASE ExecutingCompletes(t)
  <2>1. FsmMove(t, "FINISHED", {"completion"}) /\ t \in runFsm /\ cur[t].state = "EXECUTING"
    BY <1>2 DEF ExecutingCompletes
  <2>2. {"completion"} \in SUBSET FsmEvents /\ "FINISHED" \in States
    BY <1>0
  <2> QED  BY <2>1, <2>2
<1>3. CASE ExecutingStops(t)
  <2>1. FsmMove(t, "READY", {}) /\ t \in runFsm /\ cur[t].state = "EXECUTING"
    BY <1>3 DEF ExecutingStops
  <2> QED  BY <1>0, <2>1
<1>4. CASE ReadyActivated(t)
  <2>1. FsmMove(t, "EXECUTING", {}) /\ t \in runFsm /\ cur[t].state = "READY" /\ cur[t].active
    BY <1>4 DEF ReadyActivated
  <2> QED  BY <1>0, <2>1
<1>5. CASE ActiveWaitEnds(t)
  <2>1. FsmMove(t, "EXECUTING", {}) /\ t \in runFsm /\ cur[t].state \in {"WAIT_PERIOD", "WAIT_COMM_SYNC"}
    BY <1>5 DEF ActiveWaitEnds, WaitKinds
  <2> QED  BY <1>0, <2>1
<1>6. CASE ActiveWaitLosesProcessor(t)
  <2>1. PICK w \in WaitKinds : FsmMove(t, w.inactive, {}) /\ t \in runFsm /\ cur[t].state = w.active
    BY <1>6 DEF ActiveWaitLosesProcessor
  <2>2. w.inactive \in States /\ w.active \in {"WAIT_PERIOD", "WAIT_COMM_SYNC"}
    BY <1>0 DEF WaitKinds
  <2> QED  BY <1>0, <2>1, <2>2
<1>7. CASE InactiveWaitEnds(t)
  <2>1. /\ t \in runFsm
        /\ cur[t].state \in {"INACTIVE_WAIT_PERIOD", "INACTIVE_WAIT_COMM_SYNC"}
        /\ FsmMove(t, "EXECUTING", {}) \/ FsmMove(t, "READY", {"innactive_task_ends_wait"})
    BY <1>7 DEF InactiveWaitEnds, WaitKinds
  <2>2. {{}, {"innactive_task_ends_wait"}} \subseteq SUBSET FsmEvents
        /\ {"EXECUTING", "READY"} \subseteq States
    BY <1>0
  <2> QED  BY <2>1, <2>2
<1>8. CASE InactiveWaitActivated(t)
  <2>1. PICK w \in WaitKinds : FsmMove(t, w.active, {}) /\ t \in runFsm /\ cur[t].state = w.inactive
    BY <1>8 DEF InactiveWaitActivated
  <2>2. w.active \in States /\ w.inactive \in {"INACTIVE_WAIT_PERIOD", "INACTIVE_WAIT_COMM_SYNC"}
    BY <1>0 DEF WaitKinds
  <2> QED  BY <1>0, <2>1, <2>2
<1> QED  BY <1>1, <1>2, <1>3, <1>4, <1>5, <1>6, <1>7, <1>8 DEF Fsm

LEMMA CompletionFsm ==
  ASSUME ExclusiveInv, CompletionInv, NEW t \in Task, Fsm(t)
  PROVE  CompletionInv'
<1>1. PICK s \in States, E \in SUBSET FsmEvents :
        /\ FsmMove(t, s, E)
        /\ t \in runFsm /\ cur[t].state # "FINISHED"
        /\ cur[t].state = "READY" => cur[t].active
        /\ "completion" \in E => cur[t].state = "EXECUTING" /\ s = "FINISHED"
  BY FsmSteps DEF ExclusiveInv
<1>2. t = current /\ current # NoTask
  BY <1>1, ConstantTypes DEF CompletionInv, OnlyCurrentRuns, Idle, ExclusiveInv, ActiveIsCurrent
<1>3. ~Triggered
  BY <1>1, <1>2 DEF CompletionInv, TriggeredByCompletion
<1>4. /\ nxt' = [nxt EXCEPT ![t].state = s]
      /\ runFsm' = runFsm \ {t}
      /\ pending' = pending \cup {Notify(e) : e \in E}
      /\ UNCHANGED <<cur, runSched, schedPc, current, penalty>>
  BY <1>1 DEF FsmMove, schedVars
<1>5. nxt \in [Task -> Signals]
  BY DEF ExclusiveInv, SignalsTyped
<1>6. /\ \A u \in Task : nxt'[u].active = nxt[u].active
      /\ \A u \in Task \ {t} : nxt'[u].state = nxt[u].state
      /\ nxt'[t].state = s
  BY <1>4, <1>5 DEF Signals
<1>7. StatesFollow'
  BY <1>1, <1>4, <1>6 DEF CompletionInv, StatesFollow
<1>8. OnlyCurrentRuns'
  BY <1>2, <1>4, <1>6 DEF CompletionInv, OnlyCurrentRuns
<1>9. CompletionPending'
  <2>1. Notify("completion") \notin pending
    BY <1>1, <1>2 DEF CompletionInv, CompletionPending, StatesFollow
  <2>2. Notify("completion") \in pending' => "completion" \in E
    BY <1>4, <2>1 DEF Notify
  <2> QED  BY <1>1, <1>2, <1>4, <1>6, <2>2 DEF CompletionPending
<1>10. TriggeredByCompletion'
  BY <1>4 DEF CompletionInv, TriggeredByCompletion, Triggered, Withdrawing
<1>11. LosesWhenFinished'
  BY <1>4, <1>6 DEF CompletionInv, LosesWhenFinished
<1> QED  BY <1>7, <1>8, <1>9, <1>10, <1>11 DEF CompletionInv

LEMMA CompletionUser ==
  ASSUME ExclusiveInv, CompletionInv, NEW t \in Task, User(t)
  PROVE  CompletionInv'
<1>1. UserWrites(t)
  BY UserWritesLines
<1>2. \A u \in Task : nxt'[u].active = nxt[u].active /\ nxt'[u].state = nxt[u].state
  <2>1. nxt \in [Task -> Signals]
    BY DEF ExclusiveInv, SignalsTyped
  <2> QED  BY <1>1, <2>1 DEF UserWrites, UserLines, Write, Signals
<1>3. UNCHANGED <<cur, runFsm, runSched, schedPc, current, penalty>>
  BY <1>1 DEF UserWrites, schedVars
<1>4. Notify("completion") \in pending' => Notify("completion") \in pending
  BY <1>1 DEF UserWrites, UserEvents, Notify, EndResponse
<1> QED  BY <1>2, <1>3, <1>4
         DEF CompletionInv, StatesFollow, OnlyCurrentRuns, CompletionPending,
             TriggeredByCompletion, LosesWhenFinished, Triggered, Withdrawing

\* A trigger finds the current task finished; a dispatch, no task active.
LEMMA CompletionSched ==
  ASSUME TypeOK, ExclusiveInv, CompletionInv,
         SchedResume \/ SchedSecondDelta \/ SchedDispatch
  PROVE  CompletionInv'
<1>0. /\ nxt \in [Task -> Signals] /\ penalty \in Nat /\ NoTask \notin Task
      /\ current \in Task \cup {NoTask}
  BY ConstantTypes DEF TypeOK
<1>1. Notify("completion") \in pending' <=> Notify("completion") \in pending
  <2>1. pending' \in {pending, pending \cup {Notify("zero_time")}}
    BY DEF SchedResume, SchedSecondDelta, SchedDispatch
  <2> QED  BY <2>1 DEF Notify
<1>2. ~runSched' /\ UNCHANGED <<cur, runFsm>>
  BY DEF SchedResume, SchedSecondDelta, SchedDispatch
<1>3. \A u \in Task : nxt'[u].state = nxt[u].state
  <2>1. \/ nxt' = nxt \/ nxt' = [nxt EXCEPT ![current].active = FALSE]
        \/ nxt' = [nxt EXCEPT ![Dispatched.task].active = TRUE]
    BY DEF SchedResume, SchedSecondDelta, SchedDispatch
  <2> QED  BY <1>0, <2>1 DEF Signals
<1>4. current = NoTask \/ cur[current].state = "FINISHED"
  <2>1. Triggered \/ schedPc = "start"
    BY DEF SchedResume, SchedSecondDelta, SchedDispatch, Triggered, Withdrawing
  <2> QED  BY <2>1 DEF CompletionInv, TriggeredByCompletion
<1>5. Notify("completion") \notin pending'
  BY <1>0, <1>1, <1>4 DEF CompletionInv, CompletionPending
<1>6. StatesFollow' /\ CompletionPending'
  BY <1>2, <1>3, <1>5 DEF CompletionInv, StatesFollow, CompletionPending
<1>7. CASE SchedResume \/ SchedSecondDelta
  <2>1. current' = current /\ schedPc' \in {"first_delta", "last_delta", "penalty"}
    BY <1>7 DEF SchedResume, SchedSecondDelta
  <2>2. OnlyCurrentRuns'
    BY <1>2, <1>3, <2>1 DEF CompletionInv, OnlyCurrentRuns
  <2>3. TriggeredByCompletion'
    BY <1>2, <1>4, <2>1 DEF TriggeredByCompletion
  <2>5. LosesWhenFinished'
    <3>1. nxt' = nxt \/ (current # NoTask /\ nxt' = [nxt EXCEPT ![current].active = FALSE])
      BY <1>7 DEF SchedResume, SchedSecondDelta
    <3>2. \A u \in Task : u # current => nxt'[u].active = nxt[u].active
      BY <1>0, <3>1 DEF Signals
    <3>3. \A u \in Task : u = current => cur[u].state = "FINISHED"
      BY <1>0, <1>4
    <3> QED  BY <1>2, <3>2, <3>3 DEF CompletionInv, LosesWhenFinished
  <2> QED  BY <1>6, <2>2, <2>3, <2>5 DEF CompletionInv
<1>8. CASE SchedDispatch
  <2>1. schedPc' = "idle" /\ penalty' = penalty /\ Withdrawing /\ runSched
    BY <1>8 DEF SchedDispatch, Withdrawing
  <2>2. OnlyCurrentRuns'
    <3>1. \A u \in Task : cur[u].state \in Idle /\ nxt[u].state \in Idle
      BY <1>0, <1>4 DEF CompletionInv, OnlyCurrentRuns, StatesFollow, Idle
    <3> QED  BY <1>2, <1>3, <3>1 DEF OnlyCurrentRuns
  <2>3. TriggeredByCompletion'
    BY <1>2, <2>1 DEF TriggeredByCompletion, Triggered, Withdrawing
  <2>5. LosesWhenFinished'
    BY <1>2, <2>1 DEF LosesWhenFinished, ExclusiveInv, ProcessorWithdrawn
  <2> QED  BY <1>6, <2>2, <2>3, <2>5 DEF CompletionInv
<1> QED  BY <1>7, <1>8

\* The delta cycle wakes an idle scheduler only by the completion of the current
\* task, and makes its state FINISHED visible.
LEMMA CompletionDelta ==
  ASSUME NeverPreempts, TypeOK, CompletionInv, DeltaCycle
  PROVE  CompletionInv'
<1>1. /\ cur' = nxt /\ pending' = {} /\ UNCHANGED <<nxt, schedPc, current, penalty>>
      /\ runSched' = (SchedSensitivity \cap Fired # {})
  BY DEF DeltaCycle, schedVars
<1>2. ASSUME runSched', schedPc = "idle"  PROVE Notify("completion") \in pending
  <2>1. SchedSensitivity = {Notify("completion")}
    BY <1>2 DEF SchedSensitivity, TriggerList, NeverPreempts, Preemptive
  <2>2. Notify("completion") \in Fired
    BY <1>1, <1>2, <2>1
  <2> QED  BY <2>2 DEF Fired, Notify, Pos, Neg
<1>3. TriggeredByCompletion'
  <2>1. ASSUME Triggered'  PROVE current' = NoTask \/ cur'[current'].state = "FINISHED"
    <3>1. CASE runSched' /\ schedPc = "idle"
      BY <1>1, <1>2, <3>1 DEF CompletionInv, CompletionPending
    <3>2. CASE Withdrawing
      <4>1. current = NoTask \/ (current \in Task /\ cur[current].state = "FINISHED")
        BY <3>2 DEF CompletionInv, TriggeredByCompletion, Triggered, TypeOK
      <4> QED  BY <1>1, <4>1 DEF CompletionInv, StatesFollow
    <3> QED  BY <1>1, <2>1, <3>1, <3>2 DEF Triggered, Withdrawing
  <2> QED  BY <1>1, <2>1 DEF CompletionInv, TriggeredByCompletion
<1>5. StatesFollow' /\ OnlyCurrentRuns' /\ CompletionPending' /\ LosesWhenFinished'
  BY <1>1 DEF CompletionInv, StatesFollow, OnlyCurrentRuns, CompletionPending, LosesWhenFinished
<1> QED  BY <1>3, <1>5 DEF CompletionInv

LEMMA CompletionTime ==
  ASSUME TypeOK, PenaltyRunning, CompletionInv, AdvanceTime
  PROVE  CompletionInv'
<1>1. /\ ~runSched /\ nxt = cur
      /\ UNCHANGED <<cur, nxt, runFsm, schedPc, current>>
  BY DEF AdvanceTime, Quiescent, EvaluationOver
<1>2. Notify("completion") \notin pending'
  BY DEF AdvanceTime, Notify, Release
<1>3. TriggeredByCompletion'
  <2>1. Triggered' => Triggered
    <3>1. runSched' => penalty > 0
      <4>1. runSched' = (penalty = Least(Timeouts)) /\ Least(Timeouts) > 0
        BY TimePasses DEF AdvanceTime
      <4> QED  BY <4>1
    <3> QED  BY <1>1, <3>1 DEF PenaltyRunning, Triggered, Withdrawing
  <2> QED  BY <1>1, <2>1 DEF CompletionInv, TriggeredByCompletion
<1> QED  BY <1>1, <1>2, <1>3
         DEF CompletionInv, StatesFollow, OnlyCurrentRuns, CompletionPending, LosesWhenFinished

\* A task that is not preempted keeps the processor until its code has ended and
\* its state machine has passed to FINISHED: for every dynamic policy without
\* preemption, with or without scheduling times.
THEOREM RunsToCompletionAlways == NeverPreempts /\ Spec => RunsToCompletion
<1> DEFINE NInv == NeverPreempts /\ CompletionInv
<1>1. NeverPreempts /\ Init => NInv
  <2> SUFFICES ASSUME Init  PROVE CompletionInv
    OBVIOUS
  <2>1. /\ \A t \in Task : nxt[t].state = "READY" /\ cur[t].state = "READY" /\ ~cur[t].active
        /\ schedPc = "start" /\ current = NoTask
        /\ Notify("completion") \notin pending
    BY DEF Init, Notify
  <2> QED  BY <2>1 DEF CompletionInv, StatesFollow, OnlyCurrentRuns, CompletionPending, Idle,
                       TriggeredByCompletion, LosesWhenFinished, Triggered, Withdrawing
<1>2. TypeOK /\ ExclusiveInv /\ PenaltyRunning /\ NInv /\ Next => NInv'
  <2> SUFFICES ASSUME TypeOK, ExclusiveInv, PenaltyRunning, NInv, Next  PROVE NInv'
    OBVIOUS
  <2>1. CompletionInv'
    BY CompletionFsm, CompletionUser, CompletionSched, CompletionDelta, CompletionTime, PenaltyNext DEF Next
  <2>2. NeverPreempts'
    BY DEF NeverPreempts
  <2> QED  BY <2>1, <2>2
<1>3. NInv /\ UNCHANGED vars => NInv'
  BY DEF NeverPreempts, CompletionInv, StatesFollow, OnlyCurrentRuns, CompletionPending,
         TriggeredByCompletion, LosesWhenFinished, Triggered, Withdrawing,
         vars, kernelVars, schedVars
<1>4. TypeOK /\ ExclusiveInv /\ PenaltyRunning /\ NInv /\ [Next]_vars =>
        [\A t \in Task : cur[t].active /\ ~nxt'[t].active => cur[t].state = "FINISHED"]_vars
  <2> SUFFICES ASSUME TypeOK, ExclusiveInv, PenaltyRunning, NInv, Next, NEW t \in Task, cur[t].active, ~nxt'[t].active
               PROVE  cur[t].state = "FINISHED"
    BY DEF vars
  <2>1. CASE DeltaCycle
    BY <2>1 DEF DeltaCycle, CompletionInv, LosesWhenFinished
  <2>2. CASE ~DeltaCycle
    <3>1. LosesWhenFinished'
      BY <1>2 DEF CompletionInv
    <3>2. cur' = cur
      BY <2>2, FsmWrites, UserWritesLines
         DEF Next, AdvanceTime, SchedResume, SchedSecondDelta, SchedDispatch, UserWrites, ExclusiveInv
    <3> QED  BY <3>1, <3>2 DEF LosesWhenFinished
  <2> QED  BY <2>1, <2>2
<1> HIDE DEF NInv
<1> QED  BY <1>1, <1>2, <1>3, <1>4, TypeCorrect, ExclusiveAlways, PenaltyAlways, PTL DEF Spec, RunsToCompletion
=============================================================================
