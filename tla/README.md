# KisTA: a TLA+ model of the simulated schedulers, tasks, channels and buses

KisTA is a SystemC library that simulates how tasks share processing elements and
communication resources. Its core is not a computation but a conversation: the local
scheduler, one state machine per task, the threads of the tasks, the channels and the network
interfaces are SystemC processes that talk through signals (a write is visible one delta cycle
later), events notified with `SC_ZERO_TIME` (seen only by who already waits) and plain variables
(visible at once). What a simulation reports - who had the processor, which deadline was
missed, when a message arrived - is right only if every order of these steps within one
instant is right. That is what this project models, checks and, for the facts that hold for
every task set, proves.

## 1. Inventory

| component (under `src/src/`) | state | operations | interacts by | hard part |
|---|---|---|---|---|
| local scheduler, `scheduler.cpp` | policy iterators, current task, tick timer, scheduling time, static schedule, `tasks_by_priority` | `scheduler_proc`, `dispatch`, `gen_tick_timer_event`, elaboration | writes `active_signal`; woken by yield, completion, tick, and the two wait events | counted delta cycles between taking and granting the processor; uninitialised EDF state; two forms of the static schedule |
| task state machine, `task_info_t.cpp` | `state_signal`, four Boolean signals, `finished_flag`, occupation and response times | `update_state_proc`, `gen_release_event`, the two accounting processes | reads the signals written by scheduler and thread; notifies the scheduler | which edges each state waits for; simultaneous edges; releases nobody waits for |
| user constructs, `user_task_constructs.cpp` | `left_consume_time`, absolute deadline | `consume`, `yield`, `wait_period` | run in the thread of the task | preemption inside `consume`; releases at the deadline; missed deadlines |
| semaphore, `synch_comm/semaphore.cpp` | value of `sc_semaphore` | `wait`, `post` | `waiting_comm_sync_signal` | several waiters woken by one post |
| events, `synch_comm/registered_event.cpp`, `memoryless_event.cpp` | a flag | `set`, `unset`, `notify`, `wait` | `waiting_comm_sync_signal` | a test of the flag and a wait for the notification |
| FIFO channel, `synch_comm/fifo_buffer.hpp` | `sc_fifo`, `completed_transactions` | `read`, `write`, `initial_write`, elaboration of the link | network interface, task signals | two stages of blocking at each end; the transfer completes before the message is stored |
| network interface, `network_interface.cpp` | `send_queue` (multimap by request time), room and data counters | `request_sending`, `network_interface_proc`, `dispatch`, `static_comm_dispatch` | called by channels; posts `completed_transactions` | bounded buffer, lost notification, order of concurrent requests |
| TDMA bus, `comm_res/buses/tdma_bus.cpp` | free slot table, allocation, cached delays of the links | slot allocation, elaboration checks, maximum and current delays | asked by channels at elaboration and by the network interface | unsigned slot arithmetic, guard times, stale cache entries |
| shared bus, links, platform, mapping | tables | setters, lookups | elaboration | none over time |
| shared variables, `synch_comm/shared_var.hpp` | a value | `read`, `write` | task signals | none: no blocking |
| throughput monitor, `synch_comm/throughput_monitor.cpp` | number of events, lags | `annotate_data_event`, reports | called by channels | start of the measurement |
| static analysis, load, energy, power | reports | formulas | elaboration, end of simulation | floating point |
| sketches, traces, XML, bypass, annotation | text and files | I/O | - | none over time |

What makes each component correct:

* scheduler: one task holds the processor; no READY task is passed over for a less urgent
  one; every READY task is served in the end; the cycle executive rotates fairly; a static
  schedule is followed as it was given.
* state machine: never an unexpected transition; after each instant its state says what
  the thread is waiting for and whether it holds the processor; what it measures is what
  happened.
* user constructs: a consumption takes exactly its time on the processor; a periodic thread
  resumes at the release it was due at; an ended task finishes.
* semaphore, events: a token or a set flag never lies idle while a thread waits for it.
* channel and network interface: a bounded first-in first-out channel, whatever its messages
  go through; the count of completed transfers matches the messages; a reader is released
  when its transfer ends, a writer when there is room; buffer accounting exact; requests served
  in order of request time, concurrent ones as the static schedule says.
* TDMA bus: no slot has two senders; the maximum delay answered covers the transmission, the
  current one is the wait for the slot and the transmission.

`PROJECT.json` lists the components, the hazards with their lines, the source lines of each
definition, the runs, mutants, findings and theorems.

## 2. Modules

| module | models |
|---|---|
| `Dispatch` | the decision of `scheduler::dispatch()` for static scheduling, cycle executive, static priorities and EDF, as operators over what the code reads |
| `DispatchCalls` | a scheduler from the setters of its tasks and `end_of_elaboration` (static schedule, order of priorities) to successive calls of `dispatch()` with arbitrary task states between them |
| `TaskScheduling` | one local scheduler with its tasks on the SystemC kernel: `scheduler_proc`, `update_state_proc`, `consume`, `yield`, `wait_period`, semaphore, events, tick timer and release events |
| `TaskAccounting` | extends `TaskScheduling` with the processes that measure occupation and response times |
| `NetworkInterface` | `request_sending` and `network_interface_proc` with the transmission buffer, the queue and the events |
| `LogicChannel` | abstract specification: what a system level channel promises to the tasks at its ends |
| `FifoBuffer` | extends `NetworkInterface` with `fifo_buffer::read` and `write` over every kind of link; implements `LogicChannel` |
| `TdmaBus` | slot allocation, elaboration checks and delays of the TDMA bus, against the transmission they stand for |
| `MCDispatchCalls`, `MCTaskScheduling`, `MCTaskAccounting`, `MCNetworkInterface`, `MCFifoBuffer`, `MCTdmaBus` | instances for TLC: task sets, scripts, links, channels |
| `LeastElement` | the least number of a set, which a search from the front of a list finds |
| `NumberProofs` | lemmas on numbers: least elements, induction on sets, quotients, remainders, products |
| `DispatchProofs`, `DispatchCallsProofs` | proofs of the decisions and of the calls of `dispatch()` |
| `TaskSchedulingProofs` | proofs of the scheduler and the state machines, of `consume`, semaphore and events, and of tasks run to completion |
| `TaskStatesProofs` | proofs about preemptive systems: the delta cycles around a dispatch, the states of the tasks, priorities, and what `TaskAccounting` measures |
| `NetworkInterfaceProofs`, `FifoBufferProofs` | proofs of the network interface; of the channels over it, with the refinement of `LogicChannel` |
| `TdmaBusProofs` | proofs of the slot allocation and of the delays of the TDMA bus |

`DispatchCalls` and `TaskScheduling` both extend `Dispatch`: what is proved of a decision is
used in the proofs about both. Operators whose comment starts with `Variant:` are plausible
faults of the definition that follows; no specification uses them. Each property is checked
to fail when such a variant takes the place of the definition (`mutants` in `PROJECT.json`).

### `DispatchCalls`

Before elaboration the tasks are set by calls of `set_Period`, `set_Deadline` and `set_priority`
in any order and number (`Set`, over the constant `SettingCalls`), from the settings of an initial
state: a period is the deadline of a task that has none, a period or priority of 0 is an error, a
deadline of 0 is stored. `_ALLOW_ARBITRARY_DEADLINES` is defined in `defaults.hpp`, so a deadline
beyond the period is only warned of. `check_before_simulation` refuses the setters afterwards.

`names` and `pointers` are the two forms in which a static schedule can be given. Elaboration
compares them, looks the names up in the assigned tasks, appends the names to the pointers -
also when both were given - and requires every assigned task to appear; `given` and `turn` are
history variables that say what the schedule was meant to be and which entry is due. For the
other policies it sorts `tasks_by_priority` with the comparison of the static priorities
policy; `std::sort` may leave tasks that compare equal in any order. An error report ends the
program (`status = "error"`).

### `TaskScheduling`

* **Kernel.** `cur` is what `signal.read()` returns, `nxt` the value that the update phase
  will install, `pending` the events notified with `SC_ZERO_TIME`, and
  `runFsm`/`runUser`/`runSched` the processes made runnable. `DeltaCycle` is the update and
  the delta notification phase: signal edges and events wake exactly the processes whose
  current sensitivity contains them. `AdvanceTime` moves to the next timeout when nothing is
  left to do at the present time. Within an evaluate phase the runnable processes run in any
  order, as SystemC allows; a thread runs from one of its waits to the next without
  interruption (`thread` names it).
* **Relative time.** Every timeout is the time left until it fires, and `slack` is the
  absolute deadline minus the present time, so periodic systems have finitely many states.
* **Scheduler.** `SchedResume` withdraws `active` from the current task and starts the
  scheduling time or the two delta cycles; `SchedSecondDelta` is the second delta;
  `SchedDispatch` calls `dispatch()` and grants `active`.
* **State machine.** One action per branch of `update_state_proc`. The error reports are the
  states where a woken machine has no action: `NoUnexpectedTransition` excludes them.
* **Threads.** A task is a script, a sequence of sets of calls; TLC explores every choice.
  One action per segment between two waits of `consume`, `wait_period`, `yield`,
  `semaphore::wait` and the waits for events. `owed` is a history variable for `ConsumeExact`.
* **Events.** One event, of a kind chosen in the initial state: `memoryless` (a plain
  notification), `unset_on_release` (a registered event whose flag the wait takes, the default)
  or `kept_on_release` (`wait_release_unset_flag` false). The guard and the signals around the
  wait are the same for the lists of events, which are waited for like one event.
* `_PERIODIC_TASK_RESYNCHRONIZE_WHEN_MISSING_DEADLINE` is not defined in `defaults.hpp`, so
  the resynchronisation loop of `wait_period` is not part of the build and not modelled.
* Errors that stop the program (`wait_period` in an aperiodic task, `yield` under a
  non-preemptive dynamic policy) are excluded by the assumption on `Script`.

### `TaskAccounting`

The two accounting processes only read signals and events, so each of their steps is part of
the delta cycle that wakes it: `OccupationAccounted` runs at every change of `state_signal` and,
as every method does, once in the first evaluate phase (`schedPc = "start"` in `AccountingIdle`), where
`prev_inc_state` has no value yet (any value in `AccountInit`);
`ResponseAccounted` waits in turn for the end of a response and for a release. `excess` and
`worst` are the references, kept from what the threads do: the time really spent in `consume` and the
longest time from a release to the `wait_period` of its job.

### `NetworkInterface` and `FifoBuffer`

`age` is the time since `request_time`; `Inserted` is the insertion in the multimap. The
constant `Word` is the range of the unsigned counters, so that the wrap-around of
`room_in_tx_buffer` in the infinite mode is part of the model; whether the buffer is finite is
chosen in the initial state. `NetifWoken` has no step with an empty queue: `dispatch()` reports an
error and the simulation ends (`DispatchFindsRequest`). The delay of a transfer is any member of
`Delays[l]`, zero included: a wait of zero time ends in the next delta cycle, like a notification.

In `FifoBuffer` each channel has one writer and one reader and a route found at elaboration:
through the network interface, paid for by the writer itself, or without physical link.
`writePc` and `readPc` say at which of its waits an end is. `sc_fifo` is modelled with
its two counters since the last update phase: a written message can be read, and a freed place
written, one delta cycle later. `Content` is the refinement mapping to `LogicChannel`: the messages
in the ring buffer followed by the one a writer holds.

### `TdmaBus`

The free slot table is the list of ranges of the code, with the iterator that is incremented
twice in each iteration (`Visited`): a search in vain ends in the error report or runs for ever
over the circular list (`status`). `MapChannel` is what the elaboration of a channel does:
`add_link`, which forgets what was cached of the link, and `set_MaxP2Pdelay`. `GetMax` and
`GetCurrent` answer the network interface, in the worst case mode or not, through that cache.
`TransmissionTime` is the reference: `SlotStart` gives the start of the n-th slot of a sender, guard
times included, cycle after cycle; a message starts in the first slot that begins from its arrival on
(`FirstSlot`), goes on in the next ones of its sender and ends with its last bit. It shares with the
code's formulas only the number of slots a message needs.

## 3. Runs

Passing runs:

| run | instance and bounds | states | shows |
|---|---|---|---|
| `dispatch` | 4 tasks, any subset READY at each call; 12 ways to give a static schedule, 4 static priorities policies, 2 sets of settings with ties, an aperiodic task and missing deadlines; five calls of setters, two of them refused | 1,357,170 | the most urgent READY task is returned; rotation is fair; an accepted static schedule is followed |
| `sched_priorities` | preemptive static priorities, periods 6 and 9, consumptions of 1, 2 and 4, one semaphore, with accounting | 4,513 | exclusion, no unexpected transition, states that follow the threads, deadlines, exact occupation and response times |
| `sched_round_robin` | cycle executive, tick of 2, three endless tasks with consumptions of 1, 2, 3, yields and an event of each kind | 36,481 | a consumption, a yield, an event and a tick may coincide; exact consumption; no starvation |
| `sched_nonpreemptive` | three finite tasks, periods 4, 7, 12, which miss deadlines | 825 | run to completion; ended tasks finish |
| `sched_semaphore` | scheduling times enabled, 1 unit each; two waiters with consumptions of 1, 2, 6 and 9, a poster of period 11 that posts the semaphore or sets the event | 44,722 | no idle token or flag, both orders of the race, preemption while the scheduler takes time |
| `channel` | two channels with messages of 4 and 2, capacities 2 and 1, one initial token, three mappings, finite (5) and infinite buffer, transfers of 2 time units for the long message and of 0 or 1 for the short one | 618,416 | refinement of `LogicChannel`, both ends released in time, delivery, accounting, order of service |
| `tdma` | 3 slots of 2 bits, two senders, four channels, guard times 0 and 1, default and longer cycle, three levels of accuracy | 255,088 | exclusive slots under automatic allocation, free slot table against account, maximum delays that cover the transmission |

`channel` and `dispatch` take two to three minutes, the others less than half a minute.

Bounds. `MaxLate` stops a job that runs too far past its deadline; no passing run reaches it.
`SemMax` limits the semaphore; no passing run reaches it (a thread that could not post would
be a deadlock). `MaxAge` limits the age of a request: with an infinite buffer no request gets older
than the sum of the delays outstanding, so the bound of 12 cuts nothing; with a finite buffer it
cuts behaviours in which a caller waits for ever. `MaxOutstanding` is above the messages a channel
can hold, so that it limits nothing in `channel`. `Word` is 256 (16 in `tdma`), far above the sizes
used: only the counter of room in the infinite mode and ranges after an allocation by hand wrap
around. The instances have two or three tasks with different periods, the least with which a
task preempts, a second is preempted and a third is READY; two channels, the least with
which requests compete; three slots, the least with which one sender has two, not adjacent to
the end of the cycle.

Deadlock is allowed where the program may really stop: `dispatch` and `tdma` after an error
report, `sched_nonpreemptive` when its tasks have ended, `channel` with the finite
buffer of the findings below.

Fairness. `FairSpec` of `TaskScheduling` is weak fairness of `Next`: the kernel runs a
runnable process and lets time pass while a timeout is pending. Nothing is assumed of the order of
the processes. `FairFifoSpec` is weak fairness of what runs without a new call and of each reader
calling `read` again, and `TimePasses`: tasks do not exchange messages for ever at one simulated
time, which would hang the simulation. No writer has to write.

## 4. Findings

Each is a run that violates a property taken from a comment or a report in the code; the
lines and quotations are in `PROJECT.json`.

1. `bug_tick_at_release`: a tick and a release at the same time. `waiting_period_signal` and
   `active_signal` fall in the same delta cycle, `update_state_proc` goes to EXECUTING
   without the processor, and `dispatch()` passes over the task.
2. `bug_response_overrun`: a job that ends at or after its next release. The process that
   measures responses then waits for the release after that one, and the next response is lost.
3. `bug_edf_earliest`: EDF compares with the first READY task only.
4. `bug_netif_empty_queue`: a caller without room wakes the process, which calls
   `dispatch()` with an empty queue.
5. `bug_netif_lost_wakeup`: room is released without a notification.

The same modules show further limits of the code when their constants are changed or a
condition of a property is dropped; no run is kept for them:

* scheduling times enabled with the default time of zero leave one delta cycle instead of
  two before `dispatch()` (`PriorityRespected` fails with periods 4 and 5 and
  `SchedulingTime = 0`);
* `check_scheduling_time` accepts a scheduling time equal to the tick delay, and no
  consumption ever ends (`ConsumptionEnds` fails with both equal to 2);
* a task whose last call is `wait_period` never reaches FINISHED (`EndedTaskFinishes`);
* `wait_period` called at the deadline, after the release event of that instant has fired,
  waits for one more period (`ResumesAtDueTrigger` under a cooperative cycle executive);
* an event that keeps its flag lets a waiter of high priority starve the others for as long as
  nobody unsets it (`ConsumptionEnds` of `sched_semaphore` with `kept_on_release`);
* a static schedule given by pointers alone may hold a task of another scheduler, against
  the comment at `scheduler.cpp:1396-1402` (`StaticScheduleFollowed` without its condition on `names`);
* a caller that waits for room is overtaken by later requests (`ServedInRequestOrder` with a
  finite buffer);
* the check for overlapping slots, which "checks that there are not overlaps in the slot allocation"
  (`tdma_bus.cpp:477`), compares first slots with strict inequalities, and `allocate_channels` passes the two
  numbers of `assign_free_slots`, which "raises an error if there are busy slots in that region" (277), in
  the wrong order (358). `Allocate(a, 1)` takes slot 0, `AllocateManually(b, 1, 0)` looks for slot 1,
  finds it free and takes slot 0 too, and `Elaborate` passes: `AutomaticSlotsExclusive` without its
  condition fails behind the check. Two allocations by hand of one first slot pass in the same way;
* `tdma_bus.cpp:1245` reads the maximum delay where the current one is computed, or zero for an entry
  that `set_CurrentP2Pdelay` has just created, although the notes at 1203-1207 and 1246-1250 speak of the time
  invariant component. With level 0 and a cycle of 6, `GetCurrent` answers 9 for a message of 1 bit that
  comes at time 4 to a sender of the first slot: an offset of 2, and a maximum delay of 7 that has a worst
  case offset of 6 already. Where the notes were followed the answer could be too short instead, because
  `current_offset_delay_L0` and the formulas of the data delay leave guard times out. No property is stated
  of the current delay, other than its type;
* two message sizes on one link lose the cached delay of the first (`add_link` at each channel): the
  maximum delay is then calculated anew, the current delay is the offset alone;
* `set_Deadline` with 0 announces for a periodic task that "the task period ... is adopted as deadline"
  (`task_info_t.cpp:286-288`) and stores 0: after `set_Period(b, 5)` and `set_Deadline(b, 0)` the task is first
  in the order of deadlines, in the other order of the calls it has deadline 5;
* a task that sets the memoryless event it then waits for is released one delta cycle after its line
  has risen, while its machine and the scheduler still act on the rise (`StateTracksThread`,
  `DispatchSeesPreemption`);
* a task that is released while it still holds the processor and at once waits for a semaphore or an
  event raises `waiting_comm_sync_signal` in the delta cycle in which its machine goes from WAIT_PERIOD to
  EXECUTING: the edge is missed (`StateTracksThread` with the script `consume`, `wait_period`, `sem_wait`);
* a task whose code has ended without reaching FINISHED stays EXECUTING and goes on counting occupation;
* with no READY task the cycle executive returns the task before the next of the list
  (`CycleChoice`, against the comment at `scheduler.cpp:227`), and EDF reads
  `first_ready_task_found` uninitialised (`EdfChoices`).

Properties that fail because of a finding are checked where its cause is absent:
`DispatchSeesPreemption` in the runs without releases at a tick, `MaxResponseExact` with a
schedulable task set, `ServedInRequestOrder` and `MessagesDelivered` with an infinite buffer.

## 5. Theorems

Each theorem holds for every value of the constants that satisfies the assumptions named in the
modules (`TaskSetAssumption`, `SchedulingAssumption`, `DispatchCallsAssumption`,
`NetworkInterfaceAssumption`, `FifoBufferAssumption`, `TdmaAssumption`): any number of tasks, links, channels and
slots, any scripts, settings, schedules, policies, sizes, periods and times. TLC checked the inductive
invariants on the instances of the runs before they were proved.

Scheduler and tasks:

* `ProcessorExclusiveAlways`. `ProcessorExclusive` is not inductive:
  it says nothing of the moments when `scheduler_proc` is about to grant. The invariant
  `ExclusiveInv` adds that only `current` can have `active` in `nxt` (`ActiveIsCurrent`) and
  that between the withdrawal and the grant no task has it (`ProcessorWithdrawn`), which
  rests on the fact that a dispatch takes place at least one delta cycle after the
  withdrawal.
* `NoUnexpectedTransitionAlways`. `WokenInv` says which signals a machine
  can have been woken by in each state: its sensitivity and an edge that has just become visible.
  The theorem holds with the finding 1 present: the wrong state is reached by a
  transition the code does have.
* `TypeCorrect`: the type invariant, one step per action.
* `TokenTakenAlways`, `EventReleasesAlways`. Both speak of the end of an instant; what is inductive is
  that as long as there is a token (a set flag) every thread blocked in the wait is about to run, or the
  notification that wakes it is on its way (`TokenReaches`, `EventReaches`).
* `ConsumeExactAlways`, for a preemptive scheduler. `ConsumeInv` adds to what the thread owes that it
  waits for its timeout only while its task is active or the fall of `active` has already woken
  it, so no time passes for a task without processor. Without preemption `consume` ignores the fall of
  `active`, and what makes it exact is the next theorem.
* `RunsToCompletionAlways`, for a dynamic policy without preemption. `CompletionInv`: only the current
  task has left READY and not finished (`OnlyCurrentRuns`), and the scheduler is triggered by its
  completion only (`CompletionPending`, `TriggeredByCompletion`, `PenaltyRunning`).

States, priorities and measures (`TaskStatesProofs`):

* `StateTracksThreadAlways` and `DispatchSeesPreemptionAlways`, for a `Regular` system. Both properties
  are false without a condition on the task set (finding 1 and the list in section 4), and `Regular`
  names the conditions: preemptive, no static schedule, no scheduling time of zero where scheduling
  times are enabled, no periodic task together with a tick, no task that both sets and waits for an event,
  and no wait for another task right after a `wait_period` in a task. The three preemptive passing runs are
  instances of it.
  - `PhaseInv` speaks of every moment of an evaluate phase, with `cur` what the processes read and `nxt`
    what they have written. Per task (`TaskInv`): the three lines written are those of the place where the
    thread waits (`LinesWritten`); who has been woken, and by what (`WokenThread`, `SeesActive`); what
    can change in one delta cycle (`LinesChange`, `ReleaseKeepsProcessor`); and the state is the one the lines
    call for (`Settled`), or the machine has still to run and will find lines it has a transition
    for (`Woken`).
  - Of the rest: who has notified what is pending (`PendingInv`; a release is notified only in the phase in
    which time has passed, when no machine runs), and that with a dispatch one delta cycle away no task
    has `active` any more (`SchedInv`). The counted delta cycles are right because the machine of the
    preempted task runs in the phase before that of the dispatch: `DispatchSeesPreemption` is a
    conjunct.
  - One lemma per process and one for the delta cycle (`PhaseUser`, `PhaseFsm`, `PhaseResume`,
    `PhaseSecondDelta`, `PhaseDispatch`, `PhaseDelta`, `PhaseTime`). When time passes nobody has still to run, so
    all machines are `Settled`, which is `StateTracksThread`.
* `PriorityRespectedAlways`, for regular systems with static priorities. `PriorityInv`: only the current
  task holds the processor (`OnlyCurrentHolds`); a task enters READY from EXECUTING or with the
  notification that triggers the scheduler (`ReadyWritten`); so between a dispatch and the next trigger the
  READY tasks are at most those `dispatch()` chose from, and the current one precedes them
  (`FirstServed`, with `PriorityPick` of `DispatchProofs`).
* `OccupationExactAlways`, for regular systems of endless tasks, over `AccountSpec`. `OccupationInv`: the
  interval that is open makes up for what the time spent in `consume` is ahead of the account, and
  after the first run of the method `counting` is `EXECUTING` as read; when time passes a task is
  EXECUTING just when its thread consumes (`ExecutingConsumes`, from `StateTracksThread`). A task whose
  code ends may stay EXECUTING, hence the condition that tasks are endless.
* `ResumesAtDueTriggerWhenMet`, for preemptive systems with implicit deadlines and jobs that end with work
  (`JobsEndWithWork`: between the last consumption of a job and its `wait_period` it waits for nobody), in
  every behaviour in which `DeadlinesMet` holds throughout. `DueInv`: release and deadline of a job are one
  instant, ahead or just reached. A job that ends at the very instant of its next release calls
  `wait_period` in the phase in which the release is still to be delivered, because the timeout of its
  consumption and the one of the release generator fire together; this is what `JobsEndWithWork` is for.
* `MaxResponseExactWhenMet`, under the same conditions, over `AccountSpec`. `ResponseInv`: the measuring
  thread is in step with the job, or has missed a release because the job before ended at that very
  instant - then a whole period has been accounted, and no job that meets its deadline takes longer.
  Without `DeadlinesMet` this is finding 2.

`[]DeadlinesMet` is a hypothesis about the behaviour: whether a task set meets its deadlines depends on its
numbers. `sched_priorities` checks it for a set which also satisfies `Regular`, `ImplicitDeadlines`, `JobsEndWithWork` and
endless tasks, so that the hypotheses of all theorems hold together there.

Calls of `dispatch()`:

* `RotationFairAlways`. The invariant bounds the number of calls that
  have passed over a READY task by the distance of the iterator to it
  (`RotationBounded`); `CycleChoiceApproaches` shows that each call brings it nearer.
* `ReadyTaskReturnedAlways`: what the decision returns is READY, and no
  READY task precedes it. `PrioritiesSorted` is what the sort leaves behind at elaboration.
* `StaticScheduleFollowedAlways`. The list that `dispatch()` runs through
  is the given schedule once or twice (`Laps`), and the iterator is at the entry that is due, in
  the first lap or in the second (`IteratorDue`): appending the names to the pointers does no harm.
* `CallsTypeCorrect`: the type invariant, every choice of every policy included.

Network interface and channels:

* `BufferCorrect`. `HeldBits` adds up the sizes of the messages in the buffer over the links, a sum over
  an arbitrary finite set. `NetworkInterfaceProofs` shows that the sum exists and changes by the
  size of the message when one enters or leaves; the counter of room is the true one modulo `Word`
  (`RemainderAdds`), so the wrap-around in the infinite mode is covered. `BufferInv` adds that only
  callers without room are woken and that the process sends a request it knows.
* `OldestServedFirst`, `ScheduleFollowed`. `QueueOrdered` says that insertion in the multimap keeps the
  queue in the order of the requests, and `InfiniteAdmits` that nobody waits outside of an infinite
  buffer; then the front of the queue is as old as anybody, and the static schedule chooses only among
  the requests as old as the front.
* `FifoTypeCorrect`, `ChannelBufferCorrect`, `ChannelOldestFirst`, `ChannelScheduleFollowed`: the same with
  the channels as callers. The steps of the interface are proved once and used twice.
* `TransfersMatch`, `ReadsEnd`, `FullWriterCorrect`, from `LinkInv`: the `sc_fifo` stays within its size
  (`Stored`); writer and interface agree on who waits for room (`Routed`); every message has its transfer
  ahead, its completion, or a reader that has taken the completion (`Matched`); whoever waits for
  something that is there is about to run (`Awake`).
* `ChannelRefinement`: `FifoSpec => Channel!Spec`. The initial state maps to an initial state; `ContentStep`
  says of each step that it leaves all contents alone, appends to one that is not full, or takes the first
  of one that is not empty. A finite buffer is included: the lost wake-up of finding 5 blocks a writer but
  loses, repeats and overtakes no message.

TDMA bus:

* `AutomaticAllocation`. As long as nobody has chosen a first slot the free slot table is the one range
  behind the slots allocated (`AutoAllocated`), so that the early test on the account decides the
  search and the iterator that skips ranges does no harm.
* `AutomaticSlotsExclusiveAlways`: from `AutoAllocated`. After an allocation by hand it is false, also
  behind the check (section 4).
* `MaximumDelayBounds`. `LastSlotStarts` bounds, for a message ready at any time of the cycle, the start of
  the last slot it uses: `StartGap` says what the bus can skip between a slot and the l-th one after it,
  and a message that takes further cycles ends in the same slot of a later one. `DelayBound` shows that
  the formula of each level of accuracy is at least that, guard times and longer cycles included;
  `Mapped` says that the cache holds the delay of that formula. These are facts on products and
  remainders for all numbers, so the bound does not depend on the instance.
* `TdmaTypeCorrect`: the type invariant; the delays cached are naturals because the checks of the
  elaboration have been passed.

`NumberProofs` has the facts all of them use. The least element of a set of naturals exists (by
well-foundedness of the naturals), and from it `NaturalsFromZero`, induction in the form of a set that holds 0
and is closed under successor, which the provers can use; quotient and remainder are unique;
products are monotone. `DispatchProofs` shows that one round of the circular iterator reaches every
position and that each choice is a task and a position of its list. Proofs use SMT and Zenon; temporal
steps use PTL.

Model-checked only: `DeadlinesMet`, which is the schedulability of one set of tasks and not a fact of
every value of the constants. Liveness (`ReadyTaskActivated`, `ConsumptionEnds`, `EndedTaskFinishes`,
`MessagesDelivered`) and everything with ENABLED is out of the prover's reach. No module
has a RECURSIVE operator; induction is needed on numbers only. Static scheduling inside `TaskScheduling` is covered by the theorems about all
policies and by no run; its decisions are those of the `dispatch` run.

## 6. Not modelled

* `sc_stop` at the global simulation time limit; the choice of a scheduling time calculator and the
  setters of schedulers and links and those of WCET and WCEI (their values are constants or initial
  states).
* The preparation of communication schedules: three lists compared before the simulation.
* Shared variables and the shared bus: a delay and a value, without blocking or arbitration.
* The throughput monitor: a passive measurement. Its first event leaves `prev_time` at zero, so the
  second lag is wrong (listed as a hazard).
* `allocate_BW` and the conversions between bandwidth, payload rate and capacity of the TDMA
  bus; static analysis, load, energy and power: floating point.
* Input and output channels of the environment, output, XML, bypass and annotation layers.
* The SCoPE tool, the code under `examples/` and the other directories outside of `src/src/` are not
  part of the library's simulation kernel.
* EDF is modelled as a decision and not inside `TaskScheduling`. The random policies are
  reported as not implemented by the code.

## 7. Plan

What would come next:

1. `StateTracksThread` for the policies outside of `Regular`: systems without preemption, and a tick together
   with periodic tasks whose releases never meet it.
2. EDF and the stop at the simulation limit inside `TaskScheduling`; the throughput monitor.
3. A response time analysis on top of `TaskScheduling`, which would give `DeadlinesMet` from the numbers of
   a task set instead of by model checking.
