--------------------------- MODULE TaskAccounting ---------------------------
(***************************************************************************)
(* What KisTA measures of a task while the scheduler of TaskScheduling     *)
(* runs: its occupation time (account_occupation_time_proc, a method       *)
(* sensitive to state_signal) and its maximum response time (account_      *)
(* response_times_proc, a thread that waits in turn for the end of a job   *)
(* and for the next release).  Both only read signals and events, so each  *)
(* runs with the delta cycle that wakes it.                                *)
(*                                                                         *)
(* occupation_time grows for ever: kept here is its excess over the time   *)
(* the task has really spent in consume.                                   *)
(***************************************************************************)
EXTENDS TaskScheduling

VARIABLES
  counting,      \* prev_inc_state = EXECUTING
  interval,      \* sc_time_stamp() - occupation_interval_start_time while counting
  excess,        \* history: occupation_time minus the time spent in consume
  respPc,        \* the event account_response_times_proc waits for
  since,         \* sc_time_stamp() - last_release_time until the response ends
  maxResponse,   \* max_response_time_var
  worst          \* history: the longest time from the release of a job to its wait_period

accountVars == <<counting, interval, excess, respPc, since, maxResponse, worst>>
allVars     == <<vars, accountVars>>

\* prev_inc_state is not yet written when the method runs for the first time,
\* at time 0: counting is then anything, and no interval lies behind it.
AccountInit ==
  /\ Init
  /\ counting \in [Task -> BOOLEAN]
  /\ interval = [t \in Task |-> 0] /\ excess = interval
  /\ respPc = [t \in Task |-> "end_response_event"]
  /\ since = interval /\ maxResponse = interval /\ worst = interval

-----------------------------------------------------------------------------
\* Variant: the interval is not accounted when the task passes to a wait.
OccupationAtPreemption(runs, sig) ==
  LET stops == {t \in runs : sig[t].state = "READY" /\ counting[t]}
  IN  /\ excess' = [t \in Task |-> IF t \in stops THEN excess[t] + interval[t] ELSE excess[t]]
      /\ interval' = [t \in Task |-> IF t \in runs THEN 0 ELSE interval[t]]
      /\ counting' = [t \in Task |-> IF t \in runs THEN sig[t].state = "EXECUTING" ELSE counting[t]]

\* account_occupation_time_proc of the tasks in runs, which reads state_signal in sig.
OccupationAccounted(runs, sig) ==
  LET starts == {t \in runs : sig[t].state = "EXECUTING"}
      stops  == {t \in runs \ starts : counting[t]}
  IN  /\ excess' = [t \in Task |-> IF t \in stops THEN excess[t] + interval[t] ELSE excess[t]]
      /\ interval' = [t \in Task |-> IF t \in runs THEN 0 ELSE interval[t]]
      /\ counting' = [t \in Task |-> IF t \in runs THEN t \in starts ELSE counting[t]]

\* Variant: the response is measured from the previous end, not from a release.
ResponseFromEnd ==
  LET ends == {t \in Task : EndResponse(t) \in Fired}
  IN  /\ maxResponse' = [t \in Task |-> IF t \in ends /\ since[t] > maxResponse[t]
                                        THEN since[t] ELSE maxResponse[t]]
      /\ since' = [t \in Task |-> IF t \in ends THEN 0 ELSE since[t]]
      /\ UNCHANGED respPc

\* account_response_times_proc, woken by the event it waits for.
ResponseAccounted ==
  LET ends     == {t \in Task : respPc[t] = "end_response_event" /\ EndResponse(t) \in Fired}
      releases == {t \in Task : respPc[t] = "task_release_event" /\ Release(t) \in Fired}
  IN  /\ maxResponse' = [t \in Task |-> IF t \in ends /\ since[t] > maxResponse[t]
                                        THEN since[t] ELSE maxResponse[t]]
      /\ since' = [t \in Task |-> IF t \in ends \cup releases THEN 0 ELSE since[t]]
      /\ respPc' = [t \in Task |-> IF t \in ends THEN "task_release_event"
                                   ELSE IF t \in releases THEN "end_response_event" ELSE respPc[t]]

AccountingDelta ==
  /\ DeltaCycle
  /\ OccupationAccounted({t \in Task : nxt[t].state # cur[t].state}, nxt)
  /\ ResponseAccounted
  /\ UNCHANGED worst

AccountingTime ==
  LET d == Least(Timeouts)
  IN  /\ AdvanceTime
      /\ interval' = [t \in Task |-> IF counting[t] THEN interval[t] + d ELSE interval[t]]
      /\ excess' = [t \in Task |-> IF cur[t].active /\ userPc[t] = "consuming"
                                   THEN excess[t] - d ELSE excess[t]]
      /\ since' = [t \in Task |-> IF DeadlineCounts(t) /\ respPc[t] = "end_response_event"
                                  THEN since[t] + d ELSE since[t]]
      /\ UNCHANGED <<counting, respPc, maxResponse, worst>>

\* A job that calls wait_period ends: its release was a relative deadline (or a
\* period) before its absolute deadline.
JobResponse(t) == (IF Deadline[t] = 0 THEN Period[t] ELSE Deadline[t]) - slack[t]

JobsEnd ==
  worst' = [t \in Task |-> IF EndResponse(t) \in pending' \ pending /\ JobResponse(t) > worst[t]
                           THEN JobResponse(t) ELSE worst[t]]

\* The processes of an evaluate phase.  The method sensitive to state_signal runs
\* in the first one of the simulation, and with the delta cycles that change it.
AccountingIdle ==
  /\ SchedResume \/ SchedSecondDelta \/ SchedDispatch \/ \E t \in Task : Fsm(t) \/ User(t)
  /\ JobsEnd
  /\ IF schedPc = "start" THEN OccupationAccounted(Task, cur)
                          ELSE UNCHANGED <<counting, interval, excess>>
  /\ UNCHANGED <<respPc, since, maxResponse>>

AccountNext == AccountingDelta \/ AccountingTime \/ AccountingIdle

AccountSpec == AccountInit /\ [][AccountNext]_allVars

-----------------------------------------------------------------------------
\* The occupation reported for a task is the time it has spent in consume,
\* however often it was preempted or waited: no interval between two states is
\* accounted twice, lost, or started by the value prev_inc_state happens to have.
OccupationExact ==
  Quiescent => \A t \in Task : excess[t] + (IF counting[t] THEN interval[t] ELSE 0) = 0

\* The maximum response time reported for a periodic task is the longest time
\* from the release of a job to its call of wait_period: account_response_times_
\* proc has seen the release of every job and is back at its wait for the end of
\* the response before the job ends.
MaxResponseExact == Quiescent => maxResponse = worst
=============================================================================
