--------------------------- MODULE DispatchProofs ---------------------------
(***************************************************************************)
(* What the decision operators of Dispatch return, for every task set,     *)
(* order, schedule and set of READY tasks.                                 *)
(***************************************************************************)
EXTENDS Dispatch, NumberProofs

\* A task is at some position of each of the three lists.
LEMMA ListsCoverTasks ==
  ASSUME NEW s \in {Assigned, ByPriority, StaticSchedule}
  PROVE  /\ s \in Seq(Task) /\ Len(s) \in Nat \ {0}
         /\ \A i \in 1..Len(s) : s[i] \in Task
         /\ \A t \in Task : \E i \in 1..Len(s) : s[i] = t
<1>1. s \in Seq(Task) /\ {s[i] : i \in 1..Len(s)} = Task
  BY TaskSetAssumption
<1>2. Len(s) \in Nat
  BY <1>1
<1>3. \A t \in Task : \E i \in 1..Len(s) : s[i] = t
  BY <1>1
<1>4. Len(s) # 0
  BY <1>2, <1>3, TaskSetAssumption
<1>5. \A i \in 1..Len(s) : s[i] \in Task
  BY <1>1
<1> QED  BY <1>1, <1>2, <1>3, <1>4, <1>5

\* STATIC_SCHEDULING returns a task and leaves an iterator of the schedule.
LEMMA StaticChoiceType ==
  ASSUME NEW it \in 1..Len(StaticSchedule)
  PROVE  /\ StaticChoice(StaticSchedule, it).task \in Task
         /\ StaticChoice(StaticSchedule, it).it \in 1..Len(StaticSchedule)
<1>1. /\ Len(StaticSchedule) \in Nat \ {0}
      /\ \A i \in 1..Len(StaticSchedule) : StaticSchedule[i] \in Task
  BY ListsCoverTasks
<1> QED  BY <1>1 DEF StaticChoice

\* STATIC_PRIORITIES returns the READY task that comes first in priority order,
\* and the first task of all when none is READY.
LEMMA PriorityChoiceFirst ==
  ASSUME NEW it, NEW ready \in SUBSET Task, NEW list \in Seq(Task),
         \A t \in Task : \E i \in 1..Len(list) : list[i] = t
  PROVE  /\ PriorityChoice(list, it, ready).task \in Task
         /\ PriorityChoice(list, it, ready).it = it
         /\ ready # {} =>
              \E i \in 1..Len(list) :
                /\ PriorityChoice(list, it, ready).task = list[i] /\ list[i] \in ready
                /\ \A j \in 1..i-1 : list[j] \notin ready
<1> DEFINE n    == Len(list)
           hits == {k \in 1..n : list[k] \in ready}
<1>1. n \in Nat /\ \A i \in 1..n : list[i] \in Task
  OBVIOUS
<1>2. n # 0
  BY <1>1, TaskSetAssumption
<1>3. PriorityChoice(list, it, ready) =
        [task |-> list[IF hits = {} THEN 1 ELSE Least(hits)], it |-> it]
  BY DEF PriorityChoice
<1>4. ready # {} => hits # {}
  OBVIOUS
<1>5. \A k : k \in hits <=> k \in 1..n /\ list[k] \in ready
  OBVIOUS
<1>6. hits \in SUBSET Nat
  BY <1>1
<1> HIDE DEF n, hits
<1>7. CASE hits = {}
  BY <1>1, <1>2, <1>3, <1>4, <1>7 DEF n
<1>8. CASE hits # {}
  <2> DEFINE m == Least(hits)
  <2>1. m \in hits /\ \A j \in hits : m <= j
    BY <1>6, <1>8, LeastIsLeast
  <2>2. PriorityChoice(list, it, ready) = [task |-> list[m], it |-> it]
    BY <1>3, <1>8
  <2> HIDE DEF m
  <2>3. m \in 1..n /\ list[m] \in ready
    BY <2>1, <1>5
  <2>4. ASSUME NEW j \in 1..m-1, list[j] \in ready  PROVE FALSE
    <3>1. j \in 1..n /\ j < m
      BY <1>1, <2>3
    <3>2. j \in hits
      BY <1>5, <2>4, <3>1, Zenon
    <3>3. j \in Int /\ m \in Int
      BY <2>3
    <3>4. m <= j
      BY <2>1, <3>2, Zenon
    <3> QED  BY <3>1, <3>3, <3>4
  <2>5. \A j \in 1..m-1 : list[j] \notin ready
    BY <2>4, Zenon
  <2>6. m \in 1..Len(list) /\ list[m] \in Task
    BY <1>1, <2>3, Zenon DEF n
  <2>7. /\ PriorityChoice(list, it, ready).task = list[m]
        /\ PriorityChoice(list, it, ready).it = it
    BY <2>2
  <2> QED  BY <2>3, <2>5, <2>6, <2>7, Zenon
<1> QED  BY <1>7, <1>8

\* In particular a task is returned from the list of TaskScheduling.
LEMMA PriorityChoiceType ==
  ASSUME NEW it, NEW ready \in SUBSET Task
  PROVE  /\ PriorityChoice(ByPriority, it, ready).task \in Task
         /\ PriorityChoice(ByPriority, it, ready).it = it
<1>1. /\ ByPriority \in Seq(Task)
      /\ \A t \in Task : \E i \in 1..Len(ByPriority) : ByPriority[i] = t
  BY ListsCoverTasks
<1> DEFINE hits == {k \in 1..Len(ByPriority) : ByPriority[k] \in ready}
<1>2. hits \in SUBSET Nat
  OBVIOUS
<1>3. hits # {} => Least(hits) \in hits
  BY <1>2, LeastIsLeast
<1>4. \A i \in 1..Len(ByPriority) : ByPriority[i] \in Task
  BY <1>1
<1>5. 1 \in 1..Len(ByPriority)
  BY ListsCoverTasks
<1>6. PriorityChoice(ByPriority, it, ready) =
        [task |-> ByPriority[IF hits = {} THEN 1 ELSE Least(hits)], it |-> it]
  BY DEF PriorityChoice
<1> QED  BY <1>3, <1>4, <1>5, <1>6

\* The task returned is the first of the list that is ready, when one is.
LEMMA PriorityPick ==
  ASSUME NEW pos, NEW ready \in SUBSET Task, ready # {}
  PROVE  \E i \in 1..Len(ByPriority) :
           /\ PriorityChoice(ByPriority, pos, ready).task = ByPriority[i]
           /\ ByPriority[i] \in ready
           /\ \A j \in 1..i-1 : ByPriority[j] \notin ready
<1>1. /\ ByPriority \in Seq(Task)
      /\ \A t \in Task : \E i \in 1..Len(ByPriority) : ByPriority[i] = t
  BY ListsCoverTasks
<1>2. \A list \in Seq(Task) :
        (\A t \in Task : \E i \in 1..Len(list) : list[i] = t) =>
          \E i \in 1..Len(list) :
            /\ PriorityChoice(list, pos, ready).task = list[i] /\ list[i] \in ready
            /\ \A j \in 1..i-1 : list[j] \notin ready
  <2> TAKE list \in Seq(Task)
  <2> HAVE \A t \in Task : \E i \in 1..Len(list) : list[i] = t
  <2> QED  BY PriorityChoiceFirst
<1> QED  BY <1>1, <1>2

\* Going past the end of a round once.
LEMMA WrapOnce ==
  ASSUME NEW n \in Nat \ {0}, NEW x \in Nat, x < n + n
  PROVE  (x < n => x % n = x) /\ (~(x < n) => x % n = x - n)
<1>1. ASSUME x < n  PROVE  x % n = x
  BY <1>1
<1>2. ASSUME ~(x < n)  PROVE  x % n = x - n
  <2> DEFINE q == x - n
  <2>1. q \in 0..n-1 /\ x = q + n
    BY <1>2
  <2> HIDE DEF q
  <2>2. (q + n) % n = q
    BY <2>1
  <2>3. x % n = q
    BY <2>1, <2>2
  <2> QED  BY <2>3 DEF q
<1> QED  BY <1>1, <1>2

\* The positions CYCLE_EXECUTIVE examines: going round the list from any
\* position reaches every other one within one round.
LEMMA RoundReachesAll ==
  ASSUME NEW n \in Nat \ {0}, NEW it \in 1..n
  PROVE  /\ \A k \in Nat : ((it + k - 1) % n) + 1 \in 1..n
         /\ \A p \in 1..n : \E k \in 0..n-1 : ((it + k - 1) % n) + 1 = p
<1>1. \A k \in Nat : ((it + k - 1) % n) + 1 \in 1..n
  OBVIOUS
<1>2. ASSUME NEW p \in 1..n
      PROVE  \E k \in 0..n-1 : ((it + k - 1) % n) + 1 = p
  <2>1. CASE it <= p
    <3>1. p - it \in 0..n-1 /\ it + (p - it) - 1 = p - 1
      BY <2>1
    <3>2. (p - 1) % n = p - 1
      OBVIOUS
    <3>3. ((it + (p - it) - 1) % n) + 1 = p
      BY <3>1, <3>2
    <3> QED  BY <3>1, <3>3, Zenon
  <2>2. CASE it > p
    <3>1. p - it + n \in 0..n-1 /\ it + (p - it + n) - 1 = p - 1 + n
      BY <2>2
    <3>2. (p - 1 + n) % n = p - 1
      OBVIOUS
    <3>3. ((it + (p - it + n) - 1) % n) + 1 = p
      BY <3>1, <3>2
    <3> QED  BY <3>1, <3>3, Zenon
  <2> QED  BY <2>1, <2>2
<1> QED  BY <1>1, <1>2

\* CYCLE_EXECUTIVE returns a READY task when there is one, and leaves an
\* iterator of the list.
LEMMA CycleChoiceReady ==
  ASSUME NEW it \in 1..Len(Assigned), NEW ready \in SUBSET Task
  PROVE  /\ CycleChoice(it, ready).task \in Task
         /\ CycleChoice(it, ready).it \in 1..Len(Assigned)
         /\ ready # {} => CycleChoice(it, ready).task \in ready
<1> DEFINE n     == Len(Assigned)
           At(k) == ((it + k - 1) % n) + 1
           hits  == {k \in 0..n-1 : Assigned[At(k)] \in ready}
           last  == IF hits = {} THEN n - 1 ELSE Least(hits)
<1>1. n \in Nat \ {0} /\ \A i \in 1..n : Assigned[i] \in Task
  BY ListsCoverTasks
<1>2. \A k \in Nat : At(k) \in 1..n
  BY <1>1, RoundReachesAll
<1>3. CycleChoice(it, ready) = [task |-> Assigned[At(last)], it |-> At(last + 1)]
  BY DEF CycleChoice
<1>4. hits \in SUBSET Nat
  BY <1>1
<1>5. hits # {} => Least(hits) \in hits
  <2> HIDE DEF hits
  <2> QED  BY <1>4, LeastIsLeast
<1>6. last \in Nat
  BY <1>1, <1>5
<1>7. ASSUME ready # {}  PROVE  hits # {}
  <2>1. PICK t \in ready : TRUE
    BY <1>7
  <2>2. PICK p \in 1..n : Assigned[p] = t
    BY ListsCoverTasks
  <2>3. PICK k \in 0..n-1 : At(k) = p
    BY <1>1, RoundReachesAll
  <2>4. k \in hits
    BY <2>1, <2>2, <2>3
  <2> QED  BY <2>4
<1>8. ready # {} => Assigned[At(last)] \in ready
  BY <1>5, <1>7
<1>9. At(last) \in 1..n /\ At(last + 1) \in 1..n
  <2> HIDE DEF last, At
  <2> QED  BY <1>2, <1>6
<1>10. Assigned[At(last)] \in Task
  <2> HIDE DEF last, At
  <2> QED  BY <1>1, <1>9
<1> HIDE DEF last, At
<1> QED  BY <1>3, <1>8, <1>9, <1>10
=============================================================================
