------------------------- MODULE DispatchCallsProofs -------------------------
(***************************************************************************)
(* The rotation of the cycle executive is fair, the tasks returned are     *)
(* READY and the most urgent, and a static schedule is followed, for any   *)
(* number of tasks, any settings and schedules and any sequence of calls.  *)
(***************************************************************************)
EXTENDS DispatchCalls, DispatchProofs

\* How many tasks the cycle executive examines before it comes to position p.
Distance(i, p) == IF i <= p THEN p - i ELSE p - i + Round

\* The calls that may still pass over the task at p, and those that already
\* did, are together less than a round.
RotationBounded ==
  policy = "CYCLE_EXECUTIVE" =>
    \A p \in 1..Round : passed[Assigned[p]] + Distance(it, p) < Round

\* Once the scheduler runs, tasks_by_priority holds every task, none before
\* one that precedes it.
PrioritiesSorted ==
  status = "running" /\ policy # "STATIC_SCHEDULING" =>
    /\ byPriority \in Seq(Task)
    /\ \A t \in Task : \E i \in 1..Len(byPriority) : byPriority[i] = t
    /\ \A i, j \in 1..Len(byPriority) : i < j => ~Precedes(byPriority[j], byPriority[i])

IInv ==
  /\ policy \in Policies /\ sorting \in Sortings /\ settings \in [Task -> Settings]
  /\ it \in 1..Round
  /\ passed \in [Task -> Nat]
  /\ status # "running" => ready = {}
  /\ RotationBounded
  /\ PrioritiesSorted
  /\ ReadyTaskReturned

LEMMA RoundType == Round \in Nat \ {0} /\ \A p \in 1..Round : Assigned[p] \in Task
BY ListsCoverTasks DEF Round

LEMMA DistanceType ==
  \A i, p \in 1..Round : Distance(i, p) \in 0..Round-1
BY RoundType DEF Distance

\* A READY task at p is found after Distance(i, p) others at the latest, and a
\* choice that finds another one before leaves the iterator between them.
LEMMA CycleChoiceApproaches ==
  ASSUME NEW i \in 1..Round, NEW rd \in SUBSET Task, NEW p \in 1..Round,
         Assigned[p] \in rd, CycleChoice(i, rd).task # Assigned[p]
  PROVE  Distance(CycleChoice(i, rd).it, p) < Distance(i, p)
<1> DEFINE n     == Len(Assigned)
           At(k) == ((i + k - 1) % n) + 1
           hits  == {k \in 0..n-1 : Assigned[At(k)] \in rd}
           last  == IF hits = {} THEN n - 1 ELSE Least(hits)
           d     == Distance(i, p)
<1>1. n = Round /\ n \in Nat \ {0}
  BY RoundType DEF Round
<1>2. d \in 0..n-1
  BY <1>1 DEF Distance
<1>3. At(d) = p
  <2>1. CASE i <= p
    <3>1. i + d - 1 = p - 1
      BY <2>1, <1>1 DEF Distance
    <3>2. (p - 1) % n = p - 1
      BY <1>1
    <3> HIDE DEF d
    <3> QED  BY <3>1, <3>2, <1>1
  <2>2. CASE i > p
    <3>1. i + d - 1 = p - 1 + n
      BY <2>2, <1>1 DEF Distance
    <3>2. (p - 1 + n) % n = p - 1
      BY <1>1
    <3> HIDE DEF d
    <3> QED  BY <3>1, <3>2, <1>1
  <2> QED  BY <2>1, <2>2, <1>1
<1>4. d \in hits
  <2> HIDE DEF d
  <2> QED  BY <1>2, <1>3
<1>5. last \in hits /\ last <= d
  <2>1. hits \in SUBSET Nat
    BY <1>1
  <2> HIDE DEF hits, d
  <2> QED  BY <1>4, <2>1, LeastIsLeast
<1>6. CycleChoice(i, rd) = [task |-> Assigned[At(last)], it |-> At(last + 1)]
  BY DEF CycleChoice
<1>7. last # d
  <2> HIDE DEF last, d
  <2> QED  BY <1>3, <1>6
<1>8. last \in 0..d-1
  <2> HIDE DEF last, d
  <2> QED  BY <1>1, <1>2, <1>5, <1>7
<1>9. At(last + 1) = IF i + last < n THEN i + last + 1 ELSE i + last + 1 - n
  <2> HIDE DEF last, d
  <2>1. i + last \in Nat /\ i + last < n + n /\ i + (last + 1) - 1 = i + last
    BY <1>1, <1>2, <1>8
  <2>2. ((i + last) % n) + 1 = IF i + last < n THEN i + last + 1 ELSE i + last + 1 - n
    <3> DEFINE x == i + last
    <3>1. n \in Nat \ {0} /\ x \in Nat /\ x < n + n
      BY <1>1, <2>1
    <3>2. x + 1 - n = x - n + 1 /\ i + last + 1 = x + 1
      BY <1>1, <2>1
    <3> HIDE DEF n, x
    <3>3. (x < n => x % n = x) /\ (~(x < n) => x % n = x - n)
      BY <3>1, WrapOnce
    <3>4. (x % n) + 1 = IF x < n THEN x + 1 ELSE x + 1 - n
      BY <3>1, <3>2, <3>3
    <3> QED  BY <3>2, <3>4, <3>1 DEF x
  <2>3. At(last + 1) = ((i + last) % n) + 1
    BY <2>1
  <2> HIDE DEF At, n
  <2> QED  BY <1>1, <1>2, <1>8, <2>1, <2>2, <2>3
<1>10. Distance(At(last + 1), p) < d
  <2> HIDE DEF last, At, n
  <2> QED  BY <1>1, <1>2, <1>8, <1>9 DEF Distance
<1> HIDE DEF last, At
<1> QED  BY <1>6, <1>10

-----------------------------------------------------------------------------
LEMMA InitInvariant == Init => IInv
<1> SUFFICES ASSUME Init  PROVE IInv
  OBVIOUS
<1>1. /\ policy \in Policies /\ it = 1 /\ ready = {} /\ passed = [t \in Task |-> 0]
      /\ sorting \in Sortings /\ settings \in [Task -> Settings]
      /\ status = "elaboration"
  BY DispatchCallsAssumption DEF Init
<1>2. it \in 1..Round /\ passed \in [Task -> Nat]
  BY <1>1, RoundType
<1>3. RotationBounded
  BY <1>1, RoundType DEF RotationBounded, Distance
<1>4. ReadyTaskReturned
  BY <1>1 DEF ReadyTaskReturned, Returns
<1> QED  BY <1>1, <1>2, <1>3, <1>4 DEF IInv, PrioritiesSorted

\* The setters act before the scheduler runs and keep the settings in their type.
LEMMA SetType ==
  ASSUME NEW c \in SettingCalls, Set(c), settings \in [Task -> Settings]
  PROVE  /\ settings' \in [Task -> Settings]
         /\ status = "elaboration" /\ status' \in {"elaboration", "error"}
         /\ UNCHANGED <<pointers, byPriority, configVars, callVars>>
<1> DEFINE t == c.task
           v == c.value
<1>1. t \in Task /\ v \in Nat
  BY DispatchCallsAssumption
<1>2. settings[t] \in Settings
  BY <1>1
<1>3. CASE SetPeriod(t, v)
  <2>1. CASE v = 0
    BY <1>3, <2>1 DEF SetPeriod, Set
  <2>2. CASE v # 0
    <3> DEFINE dl == IF settings[t].deadline = 0 THEN v ELSE settings[t].deadline
    <3>1. [[settings[t] EXCEPT !.period = v] EXCEPT !.deadline = dl] \in Settings
      BY <1>1, <1>2 DEF Settings
    <3>2. settings' = [settings EXCEPT ![t] = [[settings[t] EXCEPT !.period = v] EXCEPT !.deadline = dl]]
      BY <1>1, <1>2, <1>3, <2>2 DEF SetPeriod, Settings
    <3> HIDE DEF t, dl
    <3> QED  BY <3>1, <3>2, <1>3, <2>2 DEF SetPeriod, Set
  <2> QED  BY <2>1, <2>2
<1>4. CASE SetDeadline(t, v)
  <2>1. [settings[t] EXCEPT !.deadline = v] \in Settings
    BY <1>1, <1>2 DEF Settings
  <2> QED  BY <1>1, <1>4, <2>1 DEF SetDeadline, Set
<1>5. CASE SetPriority(t, v)
  <2>1. v # 0 => [settings[t] EXCEPT !.priority = v] \in Settings
    BY <1>1, <1>2 DEF Settings
  <2> QED  BY <1>1, <1>5, <2>1 DEF SetPriority, Set
<1> QED  BY <1>3, <1>4, <1>5 DEF Set

LEMMA SettersKeepInvariant == IInv /\ (\E c \in SettingCalls : Set(c)) => IInv'
<1> SUFFICES ASSUME IInv, NEW c \in SettingCalls, Set(c)  PROVE IInv'
  OBVIOUS
<1>1. /\ settings' \in [Task -> Settings] /\ status' # "running"
      /\ policy' = policy /\ sorting' = sorting /\ it' = it /\ passed' = passed
      /\ ready' = ready /\ ready = {}
  BY SetType DEF IInv, configVars, callVars
<1>2. RotationBounded'
  BY <1>1 DEF IInv, RotationBounded, Distance, Round
<1>3. PrioritiesSorted' /\ ReadyTaskReturned'
  BY <1>1 DEF PrioritiesSorted, ReadyTaskReturned, Returns
<1> QED  BY <1>1, <1>2, <1>3 DEF IInv

\* What std::sort leaves.
LEMMA SortedIsSorted ==
  ASSUME NEW s \in SortedByPriority
  PROVE  /\ s \in Seq(Task) /\ Len(s) = Len(Assigned)
         /\ \A t \in Task : \E i \in 1..Len(s) : s[i] = t
         /\ \A i, j \in 1..Len(s) : i < j => ~Precedes(s[j], s[i])
<1>1. Len(Assigned) \in Nat
  BY ListsCoverTasks
<1>2. /\ s \in [1..Len(Assigned) -> Task] /\ Entries(s) = Task
      /\ \A i, j \in 1..Len(Assigned) : i < j => ~Precedes(s[j], s[i])
  BY DEF SortedByPriority
<1>3. s \in Seq(Task) /\ Len(s) = Len(Assigned)
  BY <1>1, <1>2
<1>4. \A t \in Task : \E i \in 1..Len(s) : s[i] = t
  BY <1>2, <1>3 DEF Entries
<1> QED  BY <1>2, <1>3, <1>4

\* Elaboration sorts and leaves the state of the calls alone.
LEMMA ElaborationKeepsInvariant == IInv /\ EndOfElaboration => IInv'
<1> SUFFICES ASSUME IInv, EndOfElaboration  PROVE IInv'
  OBVIOUS
<1>1. /\ policy' = policy /\ it' = it /\ passed' = passed /\ ready' = ready
      /\ sorting' = sorting /\ settings' = settings /\ task' = task
      /\ ready = {}
  BY DEF EndOfElaboration, configVars, callVars, IInv
<1>2. RotationBounded'
  BY <1>1 DEF IInv, RotationBounded, Distance, Round
<1>3. ReadyTaskReturned'
  BY <1>1 DEF ReadyTaskReturned, Returns
<1>4. PrioritiesSorted'
  <2> SUFFICES ASSUME status' = "running", policy # "STATIC_SCHEDULING"
               PROVE  /\ byPriority' \in Seq(Task)
                      /\ \A t \in Task : \E i \in 1..Len(byPriority') : byPriority'[i] = t
                      /\ \A i, j \in 1..Len(byPriority') :
                           i < j => ~Precedes(byPriority'[j], byPriority'[i])
    BY <1>1 DEF PrioritiesSorted, Precedes
  <2>1. byPriority' \in SortedByPriority
    BY DEF EndOfElaboration, SortTasks
  <2> QED  BY <2>1, SortedIsSorted
<1> QED  BY <1>1, <1>2, <1>3, <1>4 DEF IInv

\* No task precedes itself.
LEMMA SelfNotPreceding ==
  ASSUME NEW t \in Task, settings \in [Task -> Settings], sorting \in Sortings
  PROVE  ~Precedes(t, t)
<1>1. /\ settings[t].priority \in Int /\ settings[t].period \in Int
      /\ settings[t].deadline \in Int /\ settings[t].WCET \in Int
  BY DEF Settings
<1>2. settings[t].WCET * settings[t].deadline \in Int
  BY <1>1
<1>3. \A k \in Int : ~(k > k)
  OBVIOUS
<1>4. sorting \in {"USER_PRIORITIES", "RATE_MONOTONIC", "DEADLINE_MONOTONIC", "DENSITY_MONOTONIC"}
  BY DispatchCallsAssumption
<1>5. CASE sorting = "DENSITY_MONOTONIC"
  <2>1. Precedes(t, t) =
          (settings[t].WCET * settings[t].deadline > settings[t].WCET * settings[t].deadline)
    BY <1>5 DEF Precedes
  <2> QED  BY <1>2, <1>3, <2>1, Zenon
<1>6. CASE sorting = "USER_PRIORITIES"
  BY <1>1, <1>6 DEF Precedes
<1>7. CASE sorting = "RATE_MONOTONIC"
  BY <1>1, <1>7 DEF Precedes
<1>8. CASE sorting = "DEADLINE_MONOTONIC"
  BY <1>1, <1>8 DEF Precedes
<1> QED  BY <1>4, <1>5, <1>6, <1>7, <1>8

\* One call, whichever tasks are READY, keeps the invariant.
LEMMA CallKeepsInvariant == IInv /\ DispatchCall => IInv'
<1> SUFFICES ASSUME IInv, DispatchCall  PROVE IInv'
  OBVIOUS
<1>0. PICK r \in SUBSET Task, in \in EdfInputs :
        \E c \in Returned(r, in[1], in[2]) :
          /\ ready' = r /\ task' = c.task /\ it' = c.it
          /\ passed' = [t \in Task |-> IF t \notin r \/ t = c.task THEN 0
                                       ELSE Least({passed[t] + 1, Round})]
  BY DEF DispatchCall
<1>1. PICK c \in Returned(r, in[1], in[2]) :
        /\ ready' = r /\ task' = c.task /\ it' = c.it
        /\ passed' = [t \in Task |-> IF t \notin r \/ t = c.task THEN 0
                                     ELSE Least({passed[t] + 1, Round})]
  BY <1>0
<1>k. /\ policy' = policy /\ sorting' = sorting /\ settings' = settings
      /\ byPriority' = byPriority /\ status' = status /\ status = "running"
  BY DEF DispatchCall, configVars
<1>s. PrioritiesSorted'
  BY <1>k DEF IInv, PrioritiesSorted, Precedes
<1>2. it \in 1..Round /\ it \in 1..Len(Assigned) /\ passed \in [Task -> Nat]
  BY DEF IInv, Round
<1>3. \A t \in Task : passed'[t] \in Nat /\ passed'[t] <= passed[t] + 1
  <2> SUFFICES ASSUME NEW t \in Task
               PROVE  passed'[t] \in Nat /\ passed'[t] <= passed[t] + 1
    OBVIOUS
  <2> DEFINE S == {passed[t] + 1, Round}
  <2>1. passed[t] + 1 \in Nat /\ Round \in Nat
    BY <1>2, RoundType
  <2>2. Least(S) \in S /\ \A j \in S : Least(S) <= j
    BY <2>1, LeastIsLeast
  <2>3. passed'[t] = 0 \/ passed'[t] = Least(S)
    BY <1>1
  <2> HIDE DEF S
  <2>4. Least(S) \in Nat /\ Least(S) <= passed[t] + 1
    BY <2>1, <2>2 DEF S
  <2> QED  BY <2>1, <2>3, <2>4
<1>4. passed' \in [Task -> Nat]
  BY <1>1, <1>3
<1>5. CASE policy = "CYCLE_EXECUTIVE"
  <2>1. c.task = CycleChoice(it, r).task /\ c.it = CycleChoice(it, r).it
    BY <1>1, <1>5 DEF Returned
  <2>2. it' \in 1..Round
    BY <1>1, <1>2, <2>1, CycleChoiceReady DEF Round
  <2>3. r # {} => task' \in r
    BY <1>1, <1>2, <2>1, CycleChoiceReady
  <2>4. ASSUME NEW p \in 1..Round
        PROVE  passed'[Assigned[p]] + Distance(it', p) < Round
    <3>1. Assigned[p] \in Task /\ Round \in Nat
      BY RoundType
    <3>2. CASE Assigned[p] \notin r \/ Assigned[p] = c.task
      <4>1. passed'[Assigned[p]] = 0
        BY <1>1, <3>1, <3>2
      <4>2. Distance(it', p) \in 0..Round-1
        BY <2>2, DistanceType
      <4> QED  BY <3>1, <4>1, <4>2
    <3>3. CASE Assigned[p] \in r /\ Assigned[p] # c.task
      <4>1. Distance(it', p) < Distance(it, p)
        BY <1>1, <1>2, <2>1, <3>3, CycleChoiceApproaches
      <4>2. passed[Assigned[p]] + Distance(it, p) < Round
        BY <1>5 DEF IInv, RotationBounded
      <4>3. Distance(it', p) \in Int /\ Distance(it, p) \in Int
        BY <1>2, <2>2, <3>1 DEF Distance
      <4>4. passed'[Assigned[p]] <= passed[Assigned[p]] + 1
        BY <1>3, <3>1
      <4>5. passed[Assigned[p]] \in Nat /\ passed'[Assigned[p]] \in Nat
        BY <1>2, <1>4, <3>1
      <4> QED  BY <3>1, <4>1, <4>2, <4>3, <4>4, <4>5
    <3> QED  BY <3>2, <3>3
  <2> QED  BY <1>1, <1>k, <1>s, <1>4, <1>5, <2>2, <2>3, <2>4
           DEF IInv, RotationBounded, ReadyTaskReturned, Returns, Distance, Round
<1>6. CASE policy = "STATIC_PRIORITIES"
  <2>1. c.task = PriorityChoice(byPriority, it, r).task /\ c.it = it
    BY <1>1, <1>6 DEF Returned
  <2>2. /\ byPriority \in Seq(Task)
        /\ \A t \in Task : \E i \in 1..Len(byPriority) : byPriority[i] = t
        /\ \A i, j \in 1..Len(byPriority) : i < j => ~Precedes(byPriority[j], byPriority[i])
    BY <1>6, <1>k DEF IInv, PrioritiesSorted
  <2>3. ASSUME r # {}
        PROVE  task' \in r /\ \A t \in r : ~Precedes(t, task')
    <3>0. \E i \in 1..Len(byPriority) :
            /\ PriorityChoice(byPriority, it, r).task = byPriority[i] /\ byPriority[i] \in r
            /\ \A j \in 1..i-1 : byPriority[j] \notin r
      <4> HIDE DEF PriorityChoice
      <4> QED  BY ONLY <2>2, <2>3, r \in SUBSET Task, PriorityChoiceFirst
    <3>1. PICK i \in 1..Len(byPriority) :
            /\ task' = byPriority[i] /\ byPriority[i] \in r
            /\ \A j \in 1..i-1 : byPriority[j] \notin r
      BY <1>1, <2>1, <3>0
    <3>2. ASSUME NEW t \in r  PROVE ~Precedes(t, task')
      <4>1. PICK j \in 1..Len(byPriority) : byPriority[j] = t
        BY <2>2
      <4>2. i \in Int /\ j \in Int /\ ~(j < i)
        <5>1. i \in 1..Len(byPriority) /\ j \in 1..Len(byPriority) /\ Len(byPriority) \in Nat
          BY <2>2, <3>1, <4>1
        <5>2. j \notin 1..i-1
          BY <3>1, <4>1
        <5> QED  BY <5>1, <5>2
      <4>3. CASE j = i
        BY <3>1, <4>1, <4>3, SelfNotPreceding DEF IInv
      <4>4. CASE i < j
        BY <2>2, <3>1, <4>1, <4>4
      <4> QED  BY <4>2, <4>3, <4>4
    <3> QED  BY <3>1, <3>2
  <2>4. ReadyTaskReturned'
    BY <1>1, <1>k, <1>6, <2>3 DEF ReadyTaskReturned, Returns, Precedes
  <2>5. RotationBounded'
    BY <1>k, <1>6 DEF RotationBounded
  <2> QED  BY <1>1, <1>k, <1>s, <1>2, <1>4, <2>1, <2>4, <2>5 DEF IInv, Round
<1>7. CASE policy \notin {"CYCLE_EXECUTIVE", "STATIC_PRIORITIES"}
  <2>1. c.it = it
    <3>1. CASE policy = "EARLIEST_DEADLINE_FIRST"
      BY <1>1, <3>1 DEF Returned
    <3>2. CASE policy = "STATIC_SCHEDULING"
      BY <1>1, <3>2 DEF Returned
    <3> QED  BY <3>1, <3>2, <1>7, DispatchCallsAssumption DEF IInv, DispatchPolicy
  <2>2. ReadyTaskReturned' /\ RotationBounded'
    BY <1>k, <1>7 DEF ReadyTaskReturned, Returns, RotationBounded
  <2> QED  BY <1>1, <1>k, <1>s, <1>2, <1>4, <2>1, <2>2 DEF IInv, Round
<1> QED  BY <1>5, <1>6, <1>7

\* dispatch() returns a READY task under the cycle executive, and the READY
\* task of the highest priority under static priorities, on every call.
THEOREM ReadyTaskReturnedAlways == Spec => []ReadyTaskReturned
<1>1. IInv /\ UNCHANGED vars => IInv'
  BY DEF IInv, RotationBounded, PrioritiesSorted, ReadyTaskReturned, Returns, Precedes,
         Distance, Round, vars, configVars, callVars
<1>2. IInv => ReadyTaskReturned
  BY DEF IInv
<1> QED  BY InitInvariant, ElaborationKeepsInvariant, CallKeepsInvariant, SettersKeepInvariant, <1>1, <1>2, PTL DEF Spec, Next

\* The iterator that persists between the calls makes the rotation fair: a task
\* that stays READY is returned within a round, whatever else happens.
THEOREM RotationFairAlways == Spec => []RotationFair
<1>1. IInv /\ UNCHANGED vars => IInv'
  BY DEF IInv, RotationBounded, PrioritiesSorted, ReadyTaskReturned, Returns, Precedes,
         Distance, Round, vars, configVars, callVars
<1>2. IInv => RotationFair
  <2> SUFFICES ASSUME IInv, policy = "CYCLE_EXECUTIVE", NEW t \in Task
               PROVE  passed[t] < Round
    BY DEF RotationFair
  <2>1. PICK p \in 1..Round : Assigned[p] = t
    BY ListsCoverTasks DEF Round
  <2>2. passed[t] + Distance(it, p) < Round
    BY <2>1 DEF IInv, RotationBounded
  <2>3. Distance(it, p) \in Nat /\ passed[t] \in Nat /\ Round \in Nat
    BY RoundType DEF IInv, Distance
  <2> QED  BY <2>2, <2>3
<1> QED  BY InitInvariant, ElaborationKeepsInvariant, CallKeepsInvariant, SettersKeepInvariant, <1>1, <1>2, PTL DEF Spec, Next

-----------------------------------------------------------------------------
\* Static scheduling.

\* The pointers are the given schedule, once or twice.
Laps(k) ==
  /\ Len(pointers) = k * Len(given)
  /\ \A i \in 1..Len(pointers) :
       pointers[i] = given[IF i <= Len(given) THEN i ELSE i - Len(given)]

\* The iterator is at the entry that is due, in the first lap or in the second.
IteratorDue ==
  /\ \E k \in {1, 2} : Laps(k)
  /\ itStatic \in 1..Len(pointers)
  /\ itStatic = NextTurn \/ itStatic = NextTurn + Len(given)

SInv ==
  /\ names \in Lists /\ pointers \in Lists /\ given \in Lists
  /\ status = "elaboration" =>
       /\ given = IF names = <<>> THEN pointers ELSE names
       /\ itStatic = 1 /\ turn = 0
  /\ policy = "STATIC_SCHEDULING" /\ status = "running" =>
       /\ given # <<>> /\ turn \in 0..Len(given)
       /\ IteratorDue
  /\ StaticScheduleFollowed

LEMMA StaticInit == Init => SInv
<1> SUFFICES ASSUME Init  PROVE SInv
  OBVIOUS
<1>1. PICK s \in StaticSchedules :
        /\ names = s[1] /\ pointers = s[2]
        /\ given = IF s[1] = <<>> THEN s[2] ELSE s[1]
  BY DEF Init
<1>2. s[1] \in Lists /\ s[2] \in Lists
  BY DispatchCallsAssumption
<1>3. status = "elaboration" /\ itStatic = 1 /\ turn = 0
  BY DEF Init
<1> QED  BY <1>1, <1>2, <1>3 DEF SInv, StaticScheduleFollowed

\* What is not refused is the given schedule, doubled when both lists were given.
LEMMA PreparedLaps ==
  ASSUME SInv, status = "elaboration", CheckAndPrepareStaticSchedule, status' = "running",
         given' = given
  PROVE  /\ given # <<>> /\ pointers' \in Lists
         /\ \E k \in {1, 2} : Laps(k)'
         /\ Task \subseteq Entries(given)
         /\ names # <<>> => Entries(given) \subseteq Task
<1>1. /\ ~StaticScheduleRefused /\ pointers' = pointers \o names
      /\ names \in Lists /\ pointers \in Lists /\ given \in Lists
      /\ given = IF names = <<>> THEN pointers ELSE names
  BY DEF SInv, CheckAndPrepareStaticSchedule
<1>2. /\ names # <<>> \/ pointers # <<>>
      /\ names # <<>> /\ pointers # <<>> => names = pointers
      /\ Entries(names) \subseteq Task /\ Task \subseteq Entries(pointers \o names)
  BY <1>1 DEF StaticScheduleRefused
<1>3. given # <<>> /\ pointers' \in Lists
  BY <1>1, <1>2 DEF Lists
<1>4. CASE names = <<>>
  <2>1. pointers' = given
    BY <1>1, <1>4 DEF Lists
  <2>2. Laps(1)'
    BY <1>1, <2>1 DEF Laps, Lists
  <2> QED  BY <1>1, <1>2, <1>3, <1>4, <2>1, <2>2
<1>5. CASE names # <<>> /\ pointers = <<>>
  <2>1. pointers' = given /\ given = names
    BY <1>1, <1>5 DEF Lists
  <2>2. Laps(1)'
    BY <1>1, <2>1 DEF Laps, Lists
  <2> QED  BY <1>1, <1>2, <1>3, <1>5, <2>1, <2>2
<1>6. CASE names # <<>> /\ pointers # <<>>
  <2>1. pointers' = given \o given /\ given = names /\ pointers = names
    BY <1>1, <1>2, <1>6
  <2>2. Len(given \o given) = Len(given) + Len(given) /\ Len(given) \in Nat
    BY <1>1 DEF Lists
  <2>3. \A i \in 1..Len(given \o given) :
          (given \o given)[i] = given[IF i <= Len(given) THEN i ELSE i - Len(given)]
    BY <1>1, <2>2 DEF Lists
  <2>4. Laps(2)'
    BY <2>1, <2>2, <2>3 DEF Laps
  <2>5. Entries(given \o given) \subseteq Entries(given)
    <3> SUFFICES ASSUME NEW i \in 1..Len(given \o given)
                 PROVE  \E j \in 1..Len(given) : (given \o given)[i] = given[j]
      BY DEF Entries
    <3>1. CASE i <= Len(given)
      BY <2>2, <2>3, <3>1
    <3>2. CASE ~(i <= Len(given))
      <4>1. i - Len(given) \in 1..Len(given)
        BY <2>2, <3>2
      <4> QED  BY <2>3, <3>2, <4>1
    <3> QED  BY <3>1, <3>2
  <2> QED  BY <1>1, <1>2, <1>3, <2>1, <2>4, <2>5
<1> QED  BY <1>4, <1>5, <1>6

LEMMA ElaborationKeepsStatic == SInv /\ EndOfElaboration => SInv'
<1> SUFFICES ASSUME SInv, EndOfElaboration  PROVE SInv'
  OBVIOUS
<1>1. /\ names' = names /\ given' = given /\ policy' = policy
      /\ itStatic' = itStatic /\ turn' = turn /\ task' = task
      /\ itStatic = 1 /\ turn = 0 /\ status = "elaboration"
      /\ names \in Lists /\ pointers \in Lists /\ given \in Lists
  BY DEF EndOfElaboration, configVars, callVars, SInv
<1>2. status' \in {"error", "running"}
  BY DEF EndOfElaboration, CheckAndPrepareStaticSchedule, SortTasks
<1>3. pointers' \in Lists
  <2>1. pointers' = pointers \/ pointers' = pointers \o names
    BY DEF EndOfElaboration, CheckAndPrepareStaticSchedule, SortTasks
  <2>2. ASSUME NEW S, NEW x \in Seq(S), NEW y \in Seq(S)  PROVE x \o y \in Seq(S)
    OBVIOUS
  <2>3. pointers \o names \in Lists
    BY <1>1, <2>2 DEF Lists
  <2> QED  BY <1>1, <2>1, <2>3
<1>4. CASE policy = "STATIC_SCHEDULING" /\ status' = "running"
  <2>1. CheckAndPrepareStaticSchedule
    BY <1>4 DEF EndOfElaboration
  <2>2. /\ given # <<>> /\ \E k \in {1, 2} : Laps(k)'
        /\ Task \subseteq Entries(given) /\ (names # <<>> => Entries(given) \subseteq Task)
    BY <1>1, <1>4, <2>1, PreparedLaps
  <2>3. Len(given) \in Nat \ {0}
    BY <1>1, <2>2 DEF Lists
  <2>4. Len(pointers') \in Nat \ {0}
    BY <1>1, <2>2, <2>3 DEF Laps
  <2>5. IteratorDue'
    BY <1>1, <2>2, <2>3, <2>4 DEF IteratorDue, NextTurn
  <2> QED  BY <1>1, <1>2, <1>3, <2>2, <2>3, <2>5 DEF SInv, StaticScheduleFollowed, Entries
<1>5. CASE ~(policy = "STATIC_SCHEDULING" /\ status' = "running")
  BY <1>1, <1>2, <1>3, <1>5 DEF SInv, StaticScheduleFollowed
<1> QED  BY <1>4, <1>5

LEMMA SettersKeepStatic == SInv /\ IInv /\ (\E c \in SettingCalls : Set(c)) => SInv'
<1> SUFFICES ASSUME SInv, IInv, NEW c \in SettingCalls, Set(c)  PROVE SInv'
  OBVIOUS
<1>1. /\ status = "elaboration" /\ status' # "running"
      /\ UNCHANGED <<names, pointers, given, itStatic, turn>>
  BY SetType DEF IInv, configVars, callVars
<1> QED  BY <1>1 DEF SInv, StaticScheduleFollowed

LEMMA CallKeepsStatic == SInv /\ DispatchCall => SInv'
<1> SUFFICES ASSUME SInv, DispatchCall  PROVE SInv'
  OBVIOUS
<1>1. /\ names' = names /\ given' = given /\ policy' = policy /\ pointers' = pointers
      /\ status' = status /\ status = "running" /\ turn' = NextTurn
      /\ names \in Lists /\ pointers \in Lists /\ given \in Lists
  BY DEF DispatchCall, configVars, SInv
<1>2. CASE policy = "STATIC_SCHEDULING"
  <2>1. task' = StaticChoice(pointers, itStatic).task /\ itStatic' = StaticChoice(pointers, itStatic).it
    BY <1>2 DEF DispatchCall, Returned
  <2>2. /\ given # <<>> /\ turn \in 0..Len(given) /\ IteratorDue
        /\ Task \subseteq Entries(given) /\ (names # <<>> => Entries(given) \subseteq Task)
    BY <1>1, <1>2 DEF SInv, StaticScheduleFollowed
  <2> DEFINE L == Len(given)
             P == Len(pointers)
  <2>3. L \in Nat \ {0}
    BY <1>1, <2>2 DEF Lists
  <2>4. /\ task' = pointers[itStatic]
        /\ itStatic' = IF itStatic = P THEN 1 ELSE itStatic + 1
    BY <2>1 DEF StaticChoice
  <2>5. PICK k \in {1, 2} : Laps(k)
    BY <2>2 DEF IteratorDue
  <2>6. /\ P = k * L
        /\ \A i \in 1..P : pointers[i] = given[IF i <= L THEN i ELSE i - L]
        /\ itStatic \in 1..P
        /\ itStatic = NextTurn \/ itStatic = NextTurn + L
        /\ NextTurn = IF turn >= L THEN 1 ELSE turn + 1
    BY <2>2, <2>5 DEF Laps, IteratorDue, NextTurn
  <2>7. P = L \/ P = L + L
    BY <2>3, <2>6
  <2>8. Laps(k)'
    BY <1>1, <2>5 DEF Laps
  <2>9. NextTurn \in 1..L /\ turn \in Nat
    <3> HIDE DEF L, P
    <3>1. turn \in 0..L
      BY <2>2 DEF L
    <3> QED  BY <2>3, <2>6, <3>1
  <2>10. task' = given[NextTurn]
    <3> HIDE DEF L, P
    <3>1. NextTurn = IF itStatic <= L THEN itStatic ELSE itStatic - L
      BY <2>3, <2>6, <2>7, <2>9
    <3> QED  BY <2>4, <2>6, <3>1
  <2>11. NextTurn' = IF NextTurn >= L THEN 1 ELSE NextTurn + 1
    BY <1>1 DEF NextTurn
  <2>12. /\ itStatic' \in 1..P
         /\ itStatic' = NextTurn' \/ itStatic' = NextTurn' + L
    <3> DEFINE nt == NextTurn
               nn == NextTurn'
               is == itStatic'
    <3>1. /\ nt \in 1..L /\ itStatic \in 1..P /\ (itStatic = nt \/ itStatic = nt + L)
          /\ nn = (IF nt >= L THEN 1 ELSE nt + 1)
          /\ is = (IF itStatic = P THEN 1 ELSE itStatic + 1)
      BY <2>4, <2>6, <2>9, <2>11
    <3> HIDE DEF nt, nn, is, L, P
    <3>2. is \in 1..P /\ (is = nn \/ is = nn + L)
      BY <2>3, <2>7, <3>1
    <3> QED  BY <3>2 DEF nn, is
  <2>13. IteratorDue'
    BY <1>1, <2>8, <2>12 DEF IteratorDue
  <2>14. turn' \in 0..Len(given) /\ task' = given[turn']
    BY <1>1, <2>9, <2>10
  <2> QED  BY <1>1, <1>2, <2>2, <2>13, <2>14 DEF SInv, StaticScheduleFollowed, Entries
<1>3. CASE policy # "STATIC_SCHEDULING"
  BY <1>1, <1>3 DEF SInv, StaticScheduleFollowed
<1> QED  BY <1>2, <1>3

LEMMA InvariantsAlways == Spec => [](IInv /\ SInv)
<1>1. IInv /\ UNCHANGED vars => IInv'
  BY DEF IInv, RotationBounded, PrioritiesSorted, ReadyTaskReturned, Returns, Precedes,
         Distance, Round, vars, configVars, callVars
<1>2. SInv /\ UNCHANGED vars => SInv'
  BY DEF SInv, IteratorDue, Laps, NextTurn, StaticScheduleFollowed, Entries,
         vars, configVars, callVars
<1> QED  BY InitInvariant, ElaborationKeepsInvariant, CallKeepsInvariant,
            StaticInit, ElaborationKeepsStatic, CallKeepsStatic, SettersKeepInvariant,
            SettersKeepStatic, <1>1, <1>2, PTL DEF Spec, Next

\* A static schedule that check_and_prepare_static_schedule accepts is followed
\* for ever, entry by entry, also when the names are appended to the pointers.
THEOREM StaticScheduleFollowedAlways == Spec => []StaticScheduleFollowed
<1>1. SInv => StaticScheduleFollowed
  BY DEF SInv
<1> QED  BY InvariantsAlways, <1>1, PTL

-----------------------------------------------------------------------------
\* A nonempty set of positions has a last one: the least distance to the end.
LEMMA LastExists ==
  ASSUME NEW n \in Nat, NEW S \in SUBSET (1..n), S # {}
  PROVE  \E k \in S : \A j \in S : j <= k
<1> DEFINE R == {n - k : k \in S}
<1>1. R \in SUBSET Nat /\ R # {}
  <2>1. \A k \in S : n - k \in Nat
    OBVIOUS
  <2> QED  BY <2>1
<1>2. Least(R) \in R /\ \A x \in R : Least(R) <= x
  BY <1>1, LeastIsLeast
<1>3. PICK k \in S : n - k = Least(R)
  BY <1>2
<1>4. ASSUME NEW j \in S  PROVE j <= k
  <2>1. n - k <= n - j
    BY <1>2, <1>3
  <2> HIDE DEF R
  <2> QED  BY <2>1
<1> QED  BY <1>4

\* EDF returns one of the tasks, whatever the deadlines.
LEMMA EdfChoicesType ==
  ASSUME NEW f \in BOOLEAN, NEW r \in SUBSET Task, NEW d \in [Task -> Nat]
  PROVE  EdfChoices(f, r, d) \subseteq Task
<1> DEFINE hits  == {k \in 1..Len(Assigned) : Assigned[k] \in r}
           first == Least(hits)
           beats == {k \in hits : d[Assigned[first]] > d[Assigned[k]]}
           last  == CHOOSE k \in beats : \A j \in beats : j <= k
<1>1. Len(Assigned) \in Nat \ {0} /\ \A i \in 1..Len(Assigned) : Assigned[i] \in Task
  BY ListsCoverTasks
<1>2. hits \in SUBSET Nat /\ hits \subseteq 1..Len(Assigned)
  BY <1>1
<1>3. hits # {} => first \in hits
  <2> HIDE DEF hits
  <2> QED  BY <1>2, LeastIsLeast
<1>4. beats # {} => last \in beats
  <2>1. beats \in SUBSET (1..Len(Assigned))
    OBVIOUS
  <2>2. beats # {} => \E k \in beats : \A j \in beats : j <= k
    <3> HIDE DEF beats
    <3> QED  BY <1>1, <2>1, LastExists
  <2> HIDE DEF beats
  <2> QED  BY <2>2
<1>5. EdfScan(r, d) = CASE hits = {} -> Assigned[1]
                        [] hits # {} /\ beats = {} -> Assigned[first]
                        [] hits # {} /\ beats # {} -> Assigned[last]
  BY DEF EdfScan
<1>6. beats \subseteq hits
  OBVIOUS
<1> HIDE DEF hits, first, beats, last
<1>7. EdfScan(r, d) \in Task
  <2>1. CASE hits = {}
    BY <1>1, <1>5, <2>1
  <2>2. CASE hits # {} /\ beats = {}
    BY <1>1, <1>2, <1>3, <1>5, <2>2
  <2>3. CASE hits # {} /\ beats # {}
    BY <1>1, <1>2, <1>4, <1>5, <1>6, <2>3
  <2> QED  BY <2>1, <2>2, <2>3
<1> QED  BY <1>7 DEF EdfChoices

LEMMA TypeOfSetters == TypeOK /\ (\E c \in SettingCalls : Set(c)) => TypeOK'
<1> SUFFICES ASSUME TypeOK, NEW c \in SettingCalls, Set(c)  PROVE TypeOK'
  OBVIOUS
<1>1. /\ settings' \in [Task -> Settings] /\ status' \in {"elaboration", "error"}
      /\ UNCHANGED <<pointers, byPriority, configVars, callVars>>
  BY SetType DEF TypeOK
<1> QED  BY <1>1 DEF TypeOK, configVars, callVars, Round

LEMMA TypeOfElaboration == TypeOK /\ IInv /\ SInv /\ EndOfElaboration => TypeOK'
<1> SUFFICES ASSUME TypeOK, IInv, SInv, EndOfElaboration  PROVE TypeOK'
  OBVIOUS
<1>1. UNCHANGED <<settings, configVars, callVars>> /\ itStatic = 1
  BY DEF EndOfElaboration, SInv
<1>2. pointers' \in Lists
  BY ElaborationKeepsStatic DEF SInv
<1>3. status' \in {"running", "error"}
  BY DEF EndOfElaboration, CheckAndPrepareStaticSchedule, SortTasks
<1>4. byPriority' \in Seq(Task)
  <2>1. byPriority' = byPriority \/ byPriority' \in SortedByPriority
    BY DEF EndOfElaboration, CheckAndPrepareStaticSchedule, SortTasks
  <2> QED  BY <2>1, SortedIsSorted DEF TypeOK
<1>5. itStatic' \in 1..(IF Len(pointers') = 0 THEN 1 ELSE Len(pointers'))
  <2>1. Len(pointers') \in Nat
    BY <1>2 DEF Lists
  <2> QED  BY <1>1, <2>1 DEF callVars
<1> QED  BY <1>1, <1>2, <1>3, <1>4, <1>5 DEF TypeOK, configVars, callVars, Round

LEMMA TypeOfCall == TypeOK /\ IInv /\ SInv /\ DispatchCall => TypeOK'
<1> SUFFICES ASSUME TypeOK, IInv, SInv, DispatchCall  PROVE TypeOK'
  OBVIOUS
<1>1. PICK r \in SUBSET Task, in \in EdfInputs :
        \E c \in Returned(r, in[1], in[2]) :
          /\ ready' = r /\ timeToDeadline' = in[1] /\ flag' = in[2]
          /\ task' = c.task /\ it' = c.it /\ itStatic' = c.itStatic
          /\ passed' = [t \in Task |-> IF t \notin r \/ t = c.task THEN 0
                                       ELSE Least({passed[t] + 1, Round})]
  BY DEF DispatchCall
<1>2. PICK c \in Returned(r, in[1], in[2]) :
        /\ ready' = r /\ timeToDeadline' = in[1] /\ flag' = in[2]
        /\ task' = c.task /\ it' = c.it /\ itStatic' = c.itStatic
        /\ passed' = [t \in Task |-> IF t \notin r \/ t = c.task THEN 0
                                     ELSE Least({passed[t] + 1, Round})]
  BY <1>1
<1>3. /\ UNCHANGED <<status, pointers, byPriority, settings, configVars>> /\ turn' = NextTurn
      /\ status = "running" /\ policy \in DispatchPolicy
  BY DispatchCallsAssumption DEF DispatchCall, TypeOK
<1>4. in[1] \in [Task -> 0..MaxTime] /\ in[2] \in BOOLEAN
  <2>1. timeToDeadline \in [Task -> 0..MaxTime]
    BY DEF TypeOK
  <2>2. CASE policy = "EARLIEST_DEADLINE_FIRST"
    <3>1. in \in [Task -> 0..MaxTime] \X BOOLEAN
      BY <2>2 DEF EdfInputs
    <3> QED  BY <3>1
  <2>3. CASE policy # "EARLIEST_DEADLINE_FIRST"
    <3>1. in = <<timeToDeadline, FALSE>>
      BY <2>3 DEF EdfInputs
    <3> QED  BY <2>1, <3>1
  <2> QED  BY <2>2, <2>3
<1>5. it' \in 1..Round
  BY CallKeepsInvariant DEF IInv
<1>6. turn' \in Nat
  <2>1. Len(given) \in Nat /\ turn \in Nat
    BY DEF TypeOK, Lists
  <2> QED  BY <1>3, <2>1 DEF NextTurn
<1>7. passed' \in [Task -> 0..Round]
  <2> SUFFICES ASSUME NEW t \in Task  PROVE Least({passed[t] + 1, Round}) \in 0..Round
    BY <1>2, RoundType
  <2> DEFINE S == {passed[t] + 1, Round}
  <2>1. passed[t] + 1 \in Nat /\ Round \in Nat
    BY RoundType DEF TypeOK
  <2>2. Least(S) \in S /\ \A j \in S : Least(S) <= j
    BY <2>1, LeastIsLeast
  <2>3. Least(S) \in Nat /\ Least(S) <= Round
    <3> HIDE DEF Least
    <3> QED  BY <2>1, <2>2
  <2> QED  BY <2>1, <2>3
<1>8. /\ task' \in Task \cup Foreign
      /\ itStatic' \in 1..(IF Len(pointers) = 0 THEN 1 ELSE Len(pointers))
  <2>1. CASE policy = "STATIC_SCHEDULING"
    <3>1. c.task = pointers[itStatic] /\ c.itStatic = IF itStatic = Len(pointers) THEN 1 ELSE itStatic + 1
      BY <1>2, <2>1 DEF Returned, StaticChoice
    <3>2. itStatic \in 1..Len(pointers) /\ pointers \in Seq(Task \cup Foreign)
      BY <1>3, <2>1 DEF SInv, IteratorDue, Lists
    <3>3. pointers[itStatic] \in Task \cup Foreign /\ Len(pointers) \in Nat
      BY <3>2
    <3> QED  BY <1>2, <3>1, <3>2, <3>3
  <2>2. CASE policy # "STATIC_SCHEDULING"
    <3>1. c.itStatic = itStatic /\ c.task \in Task
      <4>1. CASE policy = "CYCLE_EXECUTIVE"
        <5>1. c.itStatic = itStatic /\ c.task = CycleChoice(it, r).task
          BY <1>2, <4>1 DEF Returned
        <5>2. it \in 1..Len(Assigned)
          BY DEF TypeOK, Round
        <5> QED  BY <5>1, <5>2, CycleChoiceReady
      <4>2. CASE policy = "STATIC_PRIORITIES"
        <5>1. c.itStatic = itStatic /\ c.task = PriorityChoice(byPriority, it, r).task
          BY <1>2, <4>2 DEF Returned
        <5>2. byPriority \in Seq(Task) /\ \A t \in Task : \E i \in 1..Len(byPriority) : byPriority[i] = t
          BY <1>3, <4>2 DEF IInv, PrioritiesSorted
        <5>3. PriorityChoice(byPriority, it, r).task \in Task
          BY ONLY <5>2, r \in SUBSET Task, PriorityChoiceFirst
        <5> QED  BY <5>1, <5>3
      <4>3. CASE policy = "EARLIEST_DEADLINE_FIRST"
        <5>1. c.itStatic = itStatic /\ c.task \in EdfChoices(in[2], r, in[1])
          BY <1>2, <4>3 DEF Returned
        <5>2. in[1] \in [Task -> Nat]
          BY <1>4, DispatchCallsAssumption
        <5>3. EdfChoices(in[2], r, in[1]) \subseteq Task
          BY <1>4, <5>2, EdfChoicesType
        <5> QED  BY <5>1, <5>3
      <4> QED  BY <1>3, <2>2, <4>1, <4>2, <4>3 DEF DispatchPolicy
    <3> QED  BY <1>2, <3>1 DEF TypeOK
  <2> QED  BY <2>1, <2>2
<1> QED  BY <1>2, <1>3, <1>4, <1>5, <1>6, <1>7, <1>8 DEF TypeOK, configVars, Round

\* Every variable keeps a value of its kind: the iterators stay in the lists they
\* go round, dispatch() always returns one of the tasks, also with no READY task
\* and under EDF, and tasks_by_priority is never half sorted.
THEOREM CallsTypeCorrect == Spec => []TypeOK
<1>1. Init => TypeOK
  <2> SUFFICES ASSUME Init  PROVE TypeOK
    OBVIOUS
  <2>1. names \in Lists /\ pointers \in Lists /\ given \in Lists
    BY StaticInit DEF SInv
  <2>2. Len(pointers) \in Nat
    BY <2>1 DEF Lists
  <2>3. itStatic \in 1..(IF Len(pointers) = 0 THEN 1 ELSE Len(pointers))
    BY <2>2 DEF Init
  <2>4. Round \in Nat \ {0} /\ Assigned[1] \in Task
    BY RoundType
  <2>5. /\ it \in 1..Round /\ task \in Task \cup Foreign /\ turn \in Nat
        /\ passed \in [Task -> 0..Round]
    BY <2>4 DEF Init
  <2>6. timeToDeadline \in [Task -> 0..MaxTime]
    <3>1. 0 \in 0..MaxTime /\ timeToDeadline = [t \in Task |-> 0]
      BY DispatchCallsAssumption DEF Init
    <3> QED  BY <3>1
  <2>7. flag \in BOOLEAN /\ byPriority \in Seq(Task)
    <3>1. flag = FALSE /\ byPriority = <<>>
      BY DEF Init
    <3>2. <<>> \in Seq(Task)
      OBVIOUS
    <3> QED  BY <3>1, <3>2
  <2> QED  BY <2>1, <2>3, <2>5, <2>6, <2>7, DispatchCallsAssumption DEF Init, TypeOK
<1>2. TypeOK /\ UNCHANGED vars => TypeOK'
  BY DEF TypeOK, Round, vars, configVars, callVars
<1> QED  BY <1>1, <1>2, TypeOfSetters, TypeOfElaboration, TypeOfCall, InvariantsAlways, PTL DEF Spec, Next
=============================================================================
