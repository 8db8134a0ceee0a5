----------------------- MODULE NetworkInterfaceProofs -----------------------
(***************************************************************************)
(* The network interface, for any links, sizes, delays, schedule and size  *)
(* of the buffer: its counters add up, and it serves the requests in the   *)
(* order it promises.                                                      *)
(***************************************************************************)
EXTENDS NetworkInterface, NumberProofs, FiniteSetTheorems, FunctionTheorems, SequenceTheorems

-----------------------------------------------------------------------------
(***************************************************************************)
(* The queue: insertion, removal and choice.                               *)
(***************************************************************************)
\* The messages of a queue other than the one at position i, moved up.
LEMMA WithoutProperties ==
  ASSUME NEW q \in Seq(Request), NEW i \in 1..Len(q)
  PROVE  /\ Without(q, i) \in Seq(Request)
         /\ Len(Without(q, i)) = Len(q) - 1
         /\ \A j \in 1..Len(q) - 1 : Without(q, i)[j] = IF j < i THEN q[j] ELSE q[j + 1]
<1> DEFINE a == SubSeq(q, 1, i - 1)
           b == SubSeq(q, i + 1, Len(q))
<1>0. Len(q) \in Nat /\ \A k \in 1..Len(q) : q[k] \in Request
  BY ElementOfSeq, LenProperties
<1>1. /\ a \in Seq(Request) /\ Len(a) = i - 1
      /\ \A j \in 1..i - 1 : a[j] = q[j]
  <2>1. \A k \in 1..(i - 1) : q[k] \in Request
    BY <1>0
  <2>2. /\ a \in Seq(Request) /\ Len(a) = IF 1 <= i - 1 THEN (i - 1) - 1 + 1 ELSE 0
        /\ \A j \in 1..(i - 1) - 1 + 1 : a[j] = q[1 + j - 1]
    BY <1>0, <2>1, SubSeqProperties
  <2> QED  BY <1>0, <2>2
<1>2. /\ b \in Seq(Request) /\ Len(b) = Len(q) - i
      /\ \A j \in 1..Len(q) - i : b[j] = q[i + j]
  <2>1. \A k \in (i + 1)..Len(q) : q[k] \in Request
    BY <1>0
  <2>2. /\ b \in Seq(Request) /\ Len(b) = IF i + 1 <= Len(q) THEN Len(q) - (i + 1) + 1 ELSE 0
        /\ \A j \in 1..Len(q) - (i + 1) + 1 : b[j] = q[(i + 1) + j - 1]
    BY <1>0, <2>1, SubSeqProperties
  <2> QED  BY <1>0, <2>2
<1> HIDE DEF a, b
<1>3. /\ a \o b \in Seq(Request) /\ Len(a \o b) = Len(a) + Len(b)
      /\ \A j \in 1..Len(a) + Len(b) : (a \o b)[j] = IF j <= Len(a) THEN a[j] ELSE b[j - Len(a)]
  BY <1>1, <1>2, ConcatProperties
<1>4. Len(a \o b) = Len(q) - 1
  BY <1>0, <1>1, <1>2, <1>3
<1>5. ASSUME NEW j \in 1..Len(q) - 1
      PROVE  (a \o b)[j] = IF j < i THEN q[j] ELSE q[j + 1]
  <2>1. CASE j < i
    BY <1>0, <1>1, <1>2, <1>3, <2>1
  <2>2. CASE j >= i
    <3>1. (a \o b)[j] = b[j - (i - 1)]
      BY <1>0, <1>1, <1>2, <1>3, <2>2
    <3>2. b[j - (i - 1)] = q[i + (j - (i - 1))]
      BY <1>0, <1>2, <2>2
    <3>3. i + (j - (i - 1)) = j + 1
      BY <1>0
    <3> QED  BY <1>0, <2>2, <3>1, <3>2, <3>3
  <2>3. j < i \/ j >= i
    BY <1>0
  <2> QED  BY <2>1, <2>2, <2>3
<1>6. Without(q, i) = a \o b
  BY DEF Without, a, b
<1> QED  BY <1>3, <1>4, <1>5, <1>6

\* The messages of link l in a queue, and in the queue without its i-th message.
LEMMA WithoutQueued ==
  ASSUME NEW q \in Seq(Request), NEW i \in 1..Len(q), NEW l \in Link
  PROVE  Queued(q, l) = Queued(Without(q, i), l) + One(q[i].from = l)
<1> DEFINE P == {k \in 1..Len(q) : q[k].from = l}
           r == Without(q, i)
           R == {k \in 1..Len(r) : r[k].from = l}
           f == [k \in R |-> IF k < i THEN k ELSE k + 1]
<1>1. /\ Len(q) \in Nat /\ Len(r) = Len(q) - 1
      /\ \A j \in 1..Len(q) - 1 : r[j] = IF j < i THEN q[j] ELSE q[j + 1]
  BY WithoutProperties, LenProperties
<1> HIDE DEF r
<1>2. f \in Bijection(R, P \ {i})
  <2>1. ASSUME NEW k \in R  PROVE f[k] \in P \ {i}
    BY <1>1
  <2>2. ASSUME NEW k \in R, NEW m \in R, f[k] = f[m]  PROVE k = m
    BY <1>1, <2>2
  <2>3. ASSUME NEW k \in P \ {i}  PROVE \E m \in R : f[m] = k
    <3>1. CASE k < i
      <4>1. k \in R /\ f[k] = k
        BY <1>1, <3>1
      <4> QED  BY <4>1
    <3>2. CASE k > i
      <4>1. k - 1 \in 1..Len(q) - 1 /\ ~(k - 1 < i) /\ (k - 1) + 1 = k
        BY <1>1, <3>2
      <4>2. r[k - 1] = q[k]
        BY <1>1, <4>1
      <4>3. k - 1 \in R
        BY <1>1, <4>1, <4>2
      <4>4. f[k - 1] = k
        BY <4>1, <4>3
      <4> QED  BY <4>3, <4>4
    <3> QED  BY <1>1, <3>1, <3>2
  <2>4. f \in [R -> P \ {i}]
    BY <2>1
  <2> HIDE DEF f, R, P
  <2> QED  BY <2>2, <2>3, <2>4, Fun_IsBij, Zenon
<1>3. IsFiniteSet(P) /\ IsFiniteSet(R)
  <2>1. IsFiniteSet(1..Len(q)) /\ IsFiniteSet(1..Len(r))
    BY <1>1, FS_Interval
  <2> QED  BY <2>1, FS_Subset
<1> HIDE DEF f, R, P
<1>4. Cardinality(P \ {i}) = Cardinality(R)
  <2>1. ExistsBijection(R, P \ {i})
    BY <1>2 DEF ExistsBijection
  <2> QED  BY <1>3, <2>1, FS_Bijection
<1>5. Cardinality(P \ {i}) = IF i \in P THEN Cardinality(P) - 1 ELSE Cardinality(P)
  BY <1>3, FS_RemoveElement
<1>6. i \in P <=> q[i].from = l
  BY DEF P
<1>7. Cardinality(P) \in Nat /\ Cardinality(R) \in Nat
  BY <1>3, FS_CardinalityType
<1>8. Queued(q, l) = Cardinality(P) /\ Queued(r, l) = Cardinality(R)
  BY DEF Queued, P, R
<1> QED  BY <1>4, <1>5, <1>6, <1>7, <1>8 DEF One, r

\* Where a request is inserted: behind all that were made before it or at its time.
LEMMA InsertedProperties ==
  ASSUME NEW q \in Seq(Request), NEW l \in Link, NEW a \in 0..MaxAge
  PROVE  \E p \in 1..Len(q) + 1 :
           /\ Inserted(q, l, a) \in Seq(Request)
           /\ Len(Inserted(q, l, a)) = Len(q) + 1
           /\ \A j \in 1..Len(q) + 1 : Inserted(q, l, a)[j] =
                IF j < p THEN q[j] ELSE IF j = p THEN [from |-> l, age |-> a] ELSE q[j - 1]
           /\ \A j \in 1..p - 1 : q[j].age >= a
           /\ p <= Len(q) => q[p].age < a
<1> DEFINE S == {i \in 1..Len(q) : q[i].age < a} \cup {Len(q) + 1}
           p == Least(S)
           m == [from |-> l, age |-> a]
           b == SubSeq(q, 1, p - 1)
           c == SubSeq(q, p, Len(q))
<1>0. Len(q) \in Nat /\ \A k \in 1..Len(q) : q[k] \in Request
  BY ElementOfSeq, LenProperties
<1>1. p \in S /\ \A j \in S : p <= j
  <2>1. S \in SUBSET Nat /\ S # {}
    BY <1>0
  <2> HIDE DEF S
  <2> QED  BY <2>1, LeastIsLeast
<1> HIDE DEF p
<1>2. p \in 1..Len(q) + 1
  BY <1>0, <1>1
<1>3. \A j \in 1..p - 1 : q[j].age >= a
  <2> TAKE j \in 1..p - 1
  <2>1. j \in 1..Len(q) /\ j \notin S
    BY <1>0, <1>1, <1>2
  <2>2. q[j].age \in 0..MaxAge /\ ~(q[j].age < a)
    BY <1>0, <2>1 DEF Request
  <2>3. MaxAge \in Nat
    BY NetworkInterfaceAssumption
  <2> QED  BY <2>2, <2>3
<1>4. p <= Len(q) => q[p].age < a
  BY <1>0, <1>1
<1>5. /\ b \in Seq(Request) /\ Len(b) = p - 1
      /\ \A j \in 1..p - 1 : b[j] = q[j]
  <2>1. \A k \in 1..(p - 1) : q[k] \in Request
    BY <1>0, <1>2
  <2>2. /\ b \in Seq(Request) /\ Len(b) = IF 1 <= p - 1 THEN (p - 1) - 1 + 1 ELSE 0
        /\ \A j \in 1..(p - 1) - 1 + 1 : b[j] = q[1 + j - 1]
    BY <1>2, <2>1, SubSeqProperties
  <2> QED  BY <1>2, <2>2
<1>6. /\ c \in Seq(Request) /\ Len(c) = Len(q) - p + 1
      /\ \A j \in 1..Len(q) - p + 1 : c[j] = q[p + j - 1]
  <2>1. \A k \in p..Len(q) : q[k] \in Request
    BY <1>0, <1>2
  <2>2. /\ c \in Seq(Request) /\ Len(c) = IF p <= Len(q) THEN Len(q) - p + 1 ELSE 0
        /\ \A j \in 1..Len(q) - p + 1 : c[j] = q[p + j - 1]
    BY <1>0, <1>2, <2>1, SubSeqProperties
  <2> QED  BY <1>0, <1>2, <2>2
<1>7. m \in Request /\ <<m>> \in Seq(Request) /\ Len(<<m>>) = 1 /\ <<m>>[1] = m
  BY DEF Request
<1> HIDE DEF b, c, m
<1> DEFINE bm == b \o <<m>>
<1>8. /\ bm \in Seq(Request) /\ Len(bm) = p
      /\ \A j \in 1..p : bm[j] = IF j <= p - 1 THEN b[j] ELSE <<m>>[j - (p - 1)]
  <2>1. /\ bm \in Seq(Request) /\ Len(bm) = Len(b) + Len(<<m>>)
        /\ \A j \in 1..Len(b) + Len(<<m>>) :
             bm[j] = IF j <= Len(b) THEN b[j] ELSE <<m>>[j - Len(b)]
    BY <1>5, <1>7, ConcatProperties
  <2>2. Len(b) + Len(<<m>>) = p
    BY <1>2, <1>5, <1>7
  <2> QED  BY <1>5, <2>1, <2>2
<1> HIDE DEF bm
<1> DEFINE r == bm \o c
<1>9. /\ r \in Seq(Request) /\ Len(r) = Len(q) + 1
      /\ \A j \in 1..Len(q) + 1 : r[j] = IF j <= p THEN bm[j] ELSE c[j - p]
  <2>1. /\ r \in Seq(Request) /\ Len(r) = Len(bm) + Len(c)
        /\ \A j \in 1..Len(bm) + Len(c) :
             r[j] = IF j <= Len(bm) THEN bm[j] ELSE c[j - Len(bm)]
    BY <1>6, <1>8, ConcatProperties
  <2>2. Len(bm) + Len(c) = Len(q) + 1
    BY <1>0, <1>2, <1>6, <1>8
  <2> QED  BY <1>8, <2>1, <2>2
<1>10. r = Inserted(q, l, a)
  BY DEF Inserted, r, bm, b, c, m, p
<1> HIDE DEF r
<1>11. ASSUME NEW j \in 1..Len(q) + 1
       PROVE  r[j] = IF j < p THEN q[j] ELSE IF j = p THEN m ELSE q[j - 1]
  <2>0. j < p \/ j = p \/ j > p
    BY <1>0, <1>2
  <2>1. CASE j < p
    BY <1>0, <1>2, <1>5, <1>8, <1>9, <2>1
  <2>2. CASE j = p
    <3>1. r[j] = <<m>>[p - (p - 1)]
      BY <1>0, <1>2, <1>8, <1>9, <2>2
    <3>2. p - (p - 1) = 1
      BY <1>2
    <3> QED  BY <1>7, <2>2, <3>1, <3>2, <1>2
  <2>3. CASE j > p
    <3>1. r[j] = c[j - p]
      BY <1>0, <1>2, <1>9, <2>3
    <3>2. c[j - p] = q[p + (j - p) - 1]
      BY <1>0, <1>2, <1>6, <2>3
    <3>3. p + (j - p) - 1 = j - 1
      BY <1>0, <1>2
    <3> QED  BY <1>0, <1>2, <2>3, <3>1, <3>2, <3>3
  <2> QED  BY <2>0, <2>1, <2>2, <2>3
<1> QED  BY <1>2, <1>3, <1>4, <1>9, <1>10, <1>11 DEF m

LEMMA InsertedQueued ==
  ASSUME NEW q \in Seq(Request), NEW l \in Link, NEW a \in 0..MaxAge, NEW k \in Link
  PROVE  Queued(Inserted(q, l, a), k) = Queued(q, k) + One(k = l)
<1> DEFINE r == Inserted(q, l, a)
<1>1. PICK p \in 1..Len(q) + 1 :
        /\ r \in Seq(Request) /\ Len(r) = Len(q) + 1
        /\ \A j \in 1..Len(q) + 1 : r[j] =
             IF j < p THEN q[j] ELSE IF j = p THEN [from |-> l, age |-> a] ELSE q[j - 1]
  BY InsertedProperties
<1> HIDE DEF r
<1>2. Len(q) \in Nat /\ p \in 1..Len(r)
  BY <1>1, LenProperties
<1>3. Without(r, p) = q
  <2>1. /\ Without(r, p) \in Seq(Request) /\ Len(Without(r, p)) = Len(q)
        /\ \A j \in 1..Len(q) : Without(r, p)[j] = IF j < p THEN r[j] ELSE r[j + 1]
    <3>1. Len(r) - 1 = Len(q)
      BY <1>1, <1>2
    <3> QED  BY <1>1, <1>2, <3>1, WithoutProperties
  <2>2. ASSUME NEW j \in 1..Len(q)  PROVE Without(r, p)[j] = q[j]
    <3>1. CASE j < p
      BY <1>1, <1>2, <2>1, <3>1
    <3>2. CASE j >= p
      <4>1. j + 1 \in 1..Len(q) + 1 /\ ~(j + 1 < p) /\ j + 1 # p /\ (j + 1) - 1 = j
        BY <1>2, <3>2
      <4>2. r[j + 1] = q[j]
        BY <1>1, <4>1
      <4> QED  BY <1>2, <2>1, <3>2, <4>2
    <3>3. j < p \/ j >= p
      BY <1>2
    <3> QED  BY <3>1, <3>2, <3>3
  <2> QED  BY <2>1, <2>2, SeqEqual
<1>4. r[p] = [from |-> l, age |-> a]
  BY <1>1, <1>2
<1>5. Queued(r, k) = Queued(Without(r, p), k) + One(r[p].from = k)
  BY <1>1, <1>2, WithoutQueued
<1> QED  BY <1>3, <1>4, <1>5 DEF r, One

LEMMA QueuedType ==
  ASSUME NEW q \in Seq(Request), NEW l  PROVE Queued(q, l) \in Nat
<1>1. IsFiniteSet(1..Len(q))
  BY LenProperties, FS_Interval
<1>2. IsFiniteSet({i \in 1..Len(q) : q[i].from = l})
  BY <1>1, FS_Subset
<1> QED  BY <1>2, FS_CardinalityType DEF Queued

\* dispatch() takes a request of the first request time and, with a static
\* schedule, one of the link the schedule names first.
LEMMA DispatchedProperties ==
  ASSUME NEW q \in Seq(Request), q # <<>>
  PROVE  /\ Dispatched(q) \in 1..Len(q)
         /\ q[Dispatched(q)].age = q[1].age
         /\ CommSchedule # <<>> =>
              \A j \in Synchronous(q) : Position(q[Dispatched(q)].from) <= Position(q[j].from)
<1> DEFINE N == 1..Len(CommSchedule)
           At(l) == {k \in N : CommSchedule[k] = l}
<1>0. /\ Len(q) \in Nat \ {0} /\ 1 \in Synchronous(q) /\ Synchronous(q) \in SUBSET (1..Len(q))
      /\ \A k \in 1..Len(q) : q[k] \in Request /\ q[k].from \in Link
      /\ Len(CommSchedule) \in Nat
  <2>1. Len(q) \in Nat \ {0}
    BY EmptySeq
  <2>2. \A k \in 1..Len(q) : q[k] \in Request
    BY ElementOfSeq
  <2>3. Len(CommSchedule) \in Nat
    BY NetworkInterfaceAssumption, LenProperties
  <2> QED  BY <2>1, <2>2, <2>3 DEF Synchronous, Request
<1>1. ASSUME NEW l \in Link, CommSchedule # <<>>
      PROVE  Position(l) \in At(l) /\ \A k \in At(l) : Position(l) <= k
  <2>1. At(l) \in SUBSET Nat
    BY <1>0
  <2>2. At(l) # {}
    <3>1. {CommSchedule[k] : k \in N} = Link
      BY <1>1, NetworkInterfaceAssumption
    <3>2. PICK k \in N : CommSchedule[k] = l
      BY <3>1
    <3> QED  BY <3>2
  <2> QED  BY <2>1, <2>2, LeastIsLeast DEF Position
<1>2. CASE Cardinality(Synchronous(q)) > 1 /\ CommSchedule # <<>>
  <2> DEFINE named == {k \in N : \E i \in Synchronous(q) : q[i].from = CommSchedule[k]}
             n == Least(named)
             C == {i \in Synchronous(q) : q[i].from = CommSchedule[n]}
  <2>1. ASSUME NEW j \in Synchronous(q)  PROVE Position(q[j].from) \in named
    BY <1>0, <1>1, <1>2
  <2>2. n \in named /\ \A k \in named : n <= k
    <3>1. named # {}
      BY <1>0, <2>1
    <3>2. named \in SUBSET Nat
      BY <1>0
    <3> HIDE DEF named
    <3> QED  BY <3>1, <3>2, LeastIsLeast
  <2> HIDE DEF n
  <2>3. Least(C) \in C
    <3>1. C # {} /\ C \in SUBSET Nat
      BY <1>0, <2>2
    <3> HIDE DEF C
    <3> QED  BY <3>1, LeastIsLeast
  <2>4. Dispatched(q) = Least(C)
    BY <1>2 DEF Dispatched, StaticCommDispatch, n
  <2>5. Dispatched(q) \in Synchronous(q) /\ q[Dispatched(q)].from = CommSchedule[n]
    BY <2>3, <2>4
  <2>6. Position(q[Dispatched(q)].from) <= n
    <3>1. q[Dispatched(q)].from \in Link
      BY <1>0, <2>5
    <3>2. n \in At(q[Dispatched(q)].from)
      BY <2>2, <2>5
    <3> QED  BY <1>1, <1>2, <3>1, <3>2
  <2>7. ASSUME NEW j \in Synchronous(q)
        PROVE  Position(q[Dispatched(q)].from) <= Position(q[j].from)
    <3>1. n <= Position(q[j].from)
      BY <2>1, <2>2
    <3>2. q[Dispatched(q)].from \in Link /\ q[j].from \in Link
      BY <1>0, <2>5
    <3>3. Position(q[Dispatched(q)].from) \in Nat /\ Position(q[j].from) \in Nat
      BY <1>0, <1>1, <1>2, <3>2
    <3>4. n \in Nat
      BY <1>0, <2>2
    <3> QED  BY <2>6, <3>1, <3>3, <3>4
  <2> QED  BY <1>0, <2>5, <2>7 DEF Synchronous
<1>3. CASE ~(Cardinality(Synchronous(q)) > 1 /\ CommSchedule # <<>>)
  <2>1. Dispatched(q) = 1
    BY <1>3 DEF Dispatched
  <2>2. ASSUME CommSchedule # <<>>, NEW j \in Synchronous(q)  PROVE j = 1
    <3>1. IsFiniteSet(Synchronous(q))
      <4>1. IsFiniteSet(1..Len(q))
        BY <1>0, FS_Interval
      <4> QED  BY <1>0, <4>1, FS_Subset
    <3>2. Cardinality(Synchronous(q)) \in Nat /\ Cardinality(Synchronous(q)) <= 1
      BY <1>3, <2>2, <3>1, FS_CardinalityType
    <3>3. Cardinality(Synchronous(q)) # 0
      BY <1>0, <3>1, FS_EmptySet
    <3>4. Cardinality(Synchronous(q)) = 1
      BY <3>2, <3>3
    <3>5. PICK x : Synchronous(q) = {x}
      BY <3>1, <3>4, FS_Singleton, Zenon
    <3> QED  BY <1>0, <3>5
  <2>3. ASSUME CommSchedule # <<>>  PROVE Position(q[1].from) \in Nat
    BY <1>0, <1>1, <2>3
  <2> QED  BY <1>0, <2>1, <2>2, <2>3
<1> QED  BY <1>2, <1>3

-----------------------------------------------------------------------------
(***************************************************************************)
(* Sums over the links.  The function that Total defines by recursion      *)
(* exists, and is known from the equation it satisfies.                    *)
(***************************************************************************)
Pick(S) == CHOOSE l \in S : TRUE

IsSum(g, bits) ==
  g = [S \in SUBSET Link |-> IF S = {} THEN 0 ELSE bits[Pick(S)] + g[S \ {Pick(S)}]]

\* A set of links but the one picked from it has one link less.
LEMMA PickRemoves ==
  ASSUME NEW S \in SUBSET Link
  PROVE  /\ Cardinality(S) \in Nat /\ (S = {} <=> Cardinality(S) = 0)
         /\ S # {} => /\ Pick(S) \in S /\ S \ {Pick(S)} \in SUBSET Link
                      /\ Cardinality(S \ {Pick(S)}) = Cardinality(S) - 1
<1>1. IsFiniteSet(S)
  BY NetworkInterfaceAssumption, FS_Subset
<1>2. Cardinality(S) \in Nat /\ (S = {} <=> Cardinality(S) = 0)
  BY <1>1, FS_CardinalityType, FS_EmptySet
<1>3. ASSUME S # {}  PROVE Pick(S) \in S
  BY <1>3 DEF Pick
<1>4. ASSUME S # {}  PROVE Cardinality(S \ {Pick(S)}) = Cardinality(S) - 1
  BY <1>1, <1>3, <1>4, FS_RemoveElement
<1> QED  BY <1>2, <1>3, <1>4

\* By induction on n there is a function that is right on sets of up to n links.
LEMMA SumExists ==
  ASSUME NEW bits \in [Link -> Nat]
  PROVE  \E g : IsSum(g, bits)
<1> DEFINE Sum(g, S) == IF S = {} THEN 0 ELSE bits[Pick(S)] + g[S \ {Pick(S)}]
           Right(g, n) == \A S \in SUBSET Link : Cardinality(S) <= n => g[S] = Sum(g, S)
           T == {n \in Nat : \E g \in [SUBSET Link -> Nat] : Right(g, n)}
<1>1. 0 \in T
  <2> DEFINE z == [S \in SUBSET Link |-> 0]
  <2>1. ASSUME NEW S \in SUBSET Link, Cardinality(S) <= 0  PROVE z[S] = Sum(z, S)
    <3>1. Cardinality(S) \in Nat
      BY PickRemoves
    <3>2. Cardinality(S) = 0
      BY <2>1, <3>1
    <3>3. S = {}
      BY <3>2, PickRemoves
    <3> QED  BY <3>3
  <2>2. z \in [SUBSET Link -> Nat]
    OBVIOUS
  <2> QED  BY <2>1, <2>2
<1>2. ASSUME NEW n \in T  PROVE n + 1 \in T
  <2>1. PICK g \in [SUBSET Link -> Nat] : Right(g, n)
    OBVIOUS
  <2> DEFINE h == [S \in SUBSET Link |-> IF Cardinality(S) <= n THEN g[S] ELSE Sum(g, S)]
  <2>2. ASSUME NEW S \in SUBSET Link  PROVE Sum(g, S) \in Nat
    <3>1. S # {} => Pick(S) \in Link /\ S \ {Pick(S)} \in SUBSET Link
      BY PickRemoves
    <3> QED  BY <3>1
  <2>3. h \in [SUBSET Link -> Nat]
    BY <2>2
  <2>4. ASSUME NEW S \in SUBSET Link, Cardinality(S) <= n + 1  PROVE h[S] = Sum(h, S)
    <3>1. h[S] = Sum(g, S)
      <4>1. CASE Cardinality(S) <= n
        BY <2>1, <4>1
      <4>2. CASE ~(Cardinality(S) <= n)
        BY <4>2
      <4> QED  BY <4>1, <4>2
    <3>2. CASE S = {}
      BY <3>1, <3>2
    <3>3. CASE S # {}
      <4>1. /\ S \ {Pick(S)} \in SUBSET Link
            /\ Cardinality(S \ {Pick(S)}) <= n
        BY <2>4, <3>3, PickRemoves
      <4>2. h[S \ {Pick(S)}] = g[S \ {Pick(S)}]
        BY <4>1
      <4> QED  BY <3>1, <3>3, <4>2
    <3> QED  BY <3>2, <3>3
  <2>5. Right(h, n + 1)
    BY <2>4
  <2>6. n + 1 \in Nat
    OBVIOUS
  <2> HIDE DEF h, Right
  <2> QED  BY <2>3, <2>5, <2>6
<1>3. T = Nat
  <2> HIDE DEF T
  <2>1. T \in SUBSET Nat
    BY DEF T
  <2> QED  BY <1>1, <1>2, <2>1, NaturalsFromZero
<1>4. Cardinality(Link) \in T
  BY <1>3, PickRemoves
<1>5. PICK g \in [SUBSET Link -> Nat] : Right(g, Cardinality(Link))
  BY <1>4
<1>6. ASSUME NEW S \in SUBSET Link  PROVE g[S] = Sum(g, S)
  <2>1. Cardinality(S) <= Cardinality(Link)
    BY NetworkInterfaceAssumption, FS_Subset
  <2> QED  BY <1>5, <2>1
<1>7. g = [S \in SUBSET Link |-> Sum(g, S)]
  BY <1>6
<1> QED  BY <1>7 DEF IsSum

LEMMA TotalIsSum ==
  ASSUME NEW bits \in [Link -> Nat]
  PROVE  \E g : IsSum(g, bits) /\ Total(bits) = g[Link]
<1> DEFINE G == CHOOSE g : IsSum(g, bits)
<1>1. IsSum(G, bits)
  BY SumExists
<1>2. Total(bits) = G[Link]
  BY DEF Total, IsSum, Pick
<1> QED  BY <1>1, <1>2

\* Where one link has s more, every sum with that link is s more.
LEMMA SumAdds ==
  ASSUME NEW bits \in [Link -> Nat], NEW more \in [Link -> Nat], NEW k \in Link, NEW s \in Nat,
         more[k] = bits[k] + s, \A l \in Link \ {k} : more[l] = bits[l],
         NEW g, IsSum(g, bits), NEW h, IsSum(h, more)
  PROVE  \A S \in SUBSET Link : g[S] \in Nat /\ h[S] = g[S] + IF k \in S THEN s ELSE 0
<1> DEFINE Adds(S) == g[S] \in Nat /\ h[S] = g[S] + IF k \in S THEN s ELSE 0
           T == {n \in Nat : \A S \in SUBSET Link : Cardinality(S) = n => Adds(S)}
<1>0. ASSUME NEW S \in SUBSET Link
      PROVE  /\ g[S] = IF S = {} THEN 0 ELSE bits[Pick(S)] + g[S \ {Pick(S)}]
             /\ h[S] = IF S = {} THEN 0 ELSE more[Pick(S)] + h[S \ {Pick(S)}]
  BY DEF IsSum
<1>1. 0 \in T
  <2>1. ASSUME NEW S \in SUBSET Link, Cardinality(S) = 0  PROVE Adds(S)
    <3>1. S = {}
      BY <2>1, PickRemoves
    <3>2. g[S] = 0 /\ h[S] = 0 /\ k \notin S
      BY <1>0, <3>1
    <3> QED  BY <3>2
  <2> QED  BY <2>1
<1>2. ASSUME NEW n \in T  PROVE n + 1 \in T
  <2>1. ASSUME NEW S \in SUBSET Link, Cardinality(S) = n + 1  PROVE Adds(S)
    <3> DEFINE l == Pick(S)
               R == S \ {l}
    <3>1. S # {} /\ l \in S /\ l \in Link /\ R \in SUBSET Link /\ Cardinality(R) = n
      BY <2>1, PickRemoves
    <3>2. g[S] = bits[l] + g[R] /\ h[S] = more[l] + h[R]
      BY <1>0, <3>1
    <3>3. g[R] \in Nat /\ h[R] = g[R] + IF k \in R THEN s ELSE 0
      BY <3>1
    <3>4. more[l] = bits[l] + IF l = k THEN s ELSE 0
      BY <3>1
    <3>5. (k \in S <=> k \in R \/ l = k) /\ ~(k \in R /\ l = k)
      BY <3>1
    <3>6. bits[l] \in Nat
      BY <3>1
    <3> HIDE DEF l, R
    <3> QED  BY <3>2, <3>3, <3>4, <3>5, <3>6
  <2> QED  BY <2>1
<1>3. T = Nat
  <2> HIDE DEF T
  <2>1. T \in SUBSET Nat
    BY DEF T
  <2> QED  BY <1>1, <1>2, <2>1, NaturalsFromZero
<1>4. ASSUME NEW S \in SUBSET Link  PROVE Adds(S)
  <2>1. Cardinality(S) \in Nat
    BY PickRemoves
  <2>2. Cardinality(S) \in T
    BY <1>3, <2>1
  <2> QED  BY <2>2
<1> QED  BY <1>4

\* A message of s bits more in the buffer is s bits more in the total.
LEMMA TotalAdds ==
  ASSUME NEW bits \in [Link -> Nat], NEW more \in [Link -> Nat], NEW k \in Link, NEW s \in Nat,
         more[k] = bits[k] + s, \A l \in Link \ {k} : more[l] = bits[l]
  PROVE  Total(bits) \in Nat /\ Total(more) = Total(bits) + s
<1>1. PICK g : IsSum(g, bits) /\ Total(bits) = g[Link]
  BY TotalIsSum
<1>2. PICK h : IsSum(h, more) /\ Total(more) = h[Link]
  BY TotalIsSum
<1>3. \A S \in SUBSET Link : g[S] \in Nat /\ h[S] = g[S] + IF k \in S THEN s ELSE 0
  BY <1>1, <1>2, SumAdds
<1> QED  BY <1>1, <1>2, <1>3

\* Nothing in the buffer.
LEMMA TotalZero ==
  ASSUME NEW bits \in [Link -> Nat], \A l \in Link : bits[l] = 0
  PROVE  Total(bits) = 0
<1>1. PICK g : IsSum(g, bits) /\ Total(bits) = g[Link]
  BY TotalIsSum
<1> DEFINE T == {n \in Nat : \A S \in SUBSET Link : Cardinality(S) = n => g[S] = 0}
<1>2. ASSUME NEW S \in SUBSET Link
      PROVE  g[S] = IF S = {} THEN 0 ELSE bits[Pick(S)] + g[S \ {Pick(S)}]
  BY <1>1 DEF IsSum
<1>3. 0 \in T
  BY <1>2, PickRemoves
<1>4. ASSUME NEW n \in T  PROVE n + 1 \in T
  <2>1. ASSUME NEW S \in SUBSET Link, Cardinality(S) = n + 1  PROVE g[S] = 0
    <3>1. /\ S # {} /\ Pick(S) \in Link /\ S \ {Pick(S)} \in SUBSET Link
          /\ Cardinality(S \ {Pick(S)}) = n
      BY <2>1, PickRemoves
    <3>2. g[S \ {Pick(S)}] = 0 /\ bits[Pick(S)] = 0
      BY <3>1
    <3> QED  BY <1>2, <3>1, <3>2
  <2> QED  BY <2>1
<1>5. T = Nat
  <2> HIDE DEF T
  <2>1. T \in SUBSET Nat
    BY DEF T
  <2> QED  BY <1>3, <1>4, <2>1, NaturalsFromZero
<1>6. Cardinality(Link) \in T
  BY <1>5, PickRemoves
<1> QED  BY <1>1, <1>6

\* One message more of link k in the buffer.
LEMMA MessageAdds ==
  ASSUME NEW m \in [Link -> Nat], NEW n \in [Link -> Nat], NEW k \in Link,
         n[k] = m[k] + 1, \A l \in Link \ {k} : n[l] = m[l]
  PROVE  /\ Total([l \in Link |-> m[l] * Size[l]]) \in Nat
         /\ Total([l \in Link |-> n[l] * Size[l]])
              = Total([l \in Link |-> m[l] * Size[l]]) + Size[k]
<1>0. Size \in [Link -> Nat]
  BY NetworkInterfaceAssumption
<1>1. PICK a \in [Link -> Nat] : a = [l \in Link |-> m[l] * Size[l]]
  <2>1. ASSUME NEW i \in Nat, NEW j \in Nat  PROVE i * j \in Nat
    OBVIOUS
  <2>2. [l \in Link |-> m[l] * Size[l]] \in [Link -> Nat]
    BY <1>0, <2>1
  <2> QED  BY <2>2
<1>2. PICK b \in [Link -> Nat] : b = [l \in Link |-> n[l] * Size[l]]
  <2>1. ASSUME NEW i \in Nat, NEW j \in Nat  PROVE i * j \in Nat
    OBVIOUS
  <2>2. [l \in Link |-> n[l] * Size[l]] \in [Link -> Nat]
    BY <1>0, <2>1
  <2> QED  BY <2>2
<1>3. PICK s \in Nat : s = Size[k]
  BY <1>0
<1>4. b[k] = a[k] + s
  <2>1. ASSUME NEW i \in Nat  PROVE (i + 1) * s = i * s + s
    OBVIOUS
  <2>2. b[k] = (m[k] + 1) * s /\ a[k] = m[k] * s
    BY <1>1, <1>2, <1>3
  <2> QED  BY <2>1, <2>2
<1>5. \A l \in Link \ {k} : b[l] = a[l]
  BY <1>1, <1>2
<1>6. Total(a) \in Nat /\ Total(b) = Total(a) + s
  BY <1>4, <1>5, TotalAdds
<1> QED  BY <1>1, <1>2, <1>3, <1>6

-----------------------------------------------------------------------------
(***************************************************************************)
(* The invariant.                                                          *)
(***************************************************************************)
\* TypeOK but for the bound on the messages sent and not read, which is a matter
\* of who calls the interface.
NetTyped ==
  /\ finite \in BOOLEAN /\ sendQueue \in Seq(Request)
  /\ room \in 0..Word - 1 /\ data \in 0..Word - 1
  /\ netifPc \in {"idle", "sending"} /\ transfer \in Link \cup {NoLink}
  /\ delay \in Nat
  /\ writerPc \in [Link -> {"out", "blocked"}] /\ age \in [Link -> 0..MaxAge]
  /\ pending \subseteq {"send_request_ev", "send_request_completed"}
  /\ runNetif \in BOOLEAN /\ runWriters \subseteq Link

\* cur_msg_req is a request while the process sends it.
TransferKnown == netifPc = "sending" <=> transfer \in Link

\* Only callers that wait for room are woken.
WokenBlocked == \A l \in runWriters : writerPc[l] = "blocked"

\* The queue is in the order of the requests.
QueueOrdered ==
  \A i, j \in 1..Len(sendQueue) : i < j => sendQueue[i].age >= sendQueue[j].age

\* Nobody waits for room in an infinite buffer.
InfiniteAdmits == ~finite => \A l \in Link : writerPc[l] = "out"

BufferInv ==
  /\ NetTyped /\ TransferKnown /\ WokenBlocked /\ BufferAccounted
  /\ QueueOrdered /\ InfiniteAdmits

\* Messages of a link whose transfer the interface has not completed.
InNetif(l) == Held(l) + One(writerPc[l] = "blocked")

\* Every message sent and not read waits for room, is in the buffer, or has its
\* transfer completed.
SentAccounted ==
  /\ completed \in [Link -> Nat] /\ outstanding \in [Link -> Nat]
  /\ \A l \in Link : outstanding[l] = completed[l] + InNetif(l)

LEMMA WordPositive == Word \in Nat \ {0} /\ BufferSize \in 0..Word - 1
<1>1. Word \in Nat /\ BufferSize \in Nat /\ BufferSize < Word
  BY NetworkInterfaceAssumption
<1> QED  BY <1>1

LEMMA HeldType ==
  ASSUME NetTyped, NEW l \in Link
  PROVE  Held(l) \in Nat /\ Held(l) = Queued(sendQueue, l) + One(transfer = l)
<1>1. Queued(sendQueue, l) \in Nat
  BY QueuedType DEF NetTyped
<1> QED  BY <1>1 DEF Held, One

\* A message enters the buffer.
LEMMA EnqueueHolds ==
  ASSUME NetTyped, NEW l \in Link, NEW a \in 0..MaxAge, Enqueue(l, a), UNCHANGED transfer
  PROVE  /\ sendQueue' \in Seq(Request)
         /\ \A k \in Link : Held(k)' = Held(k) + One(k = l)
         /\ HeldBits \in Nat /\ HeldBits' = HeldBits + Size[l]
<1>1. sendQueue \in Seq(Request) /\ sendQueue' = Inserted(sendQueue, l, a)
  BY DEF NetTyped, Enqueue
<1>2. sendQueue' \in Seq(Request)
  BY <1>1, InsertedProperties
<1>3. ASSUME NEW k \in Link  PROVE Held(k)' = Held(k) + One(k = l)
  <2>1. Queued(sendQueue', k) = Queued(sendQueue, k) + One(k = l)
    BY <1>1, InsertedQueued
  <2>2. Queued(sendQueue, k) \in Nat
    BY <1>1, QueuedType
  <2>3. Held(k)' = Queued(sendQueue', k) + One(transfer = k)
    BY DEF Held, One
  <2>4. Held(k) = Queued(sendQueue, k) + One(transfer = k)
    BY DEF Held, One
  <2> QED  BY <2>1, <2>2, <2>3, <2>4 DEF One
<1> DEFINE m == [k \in Link |-> Held(k)]
           n == [k \in Link |-> Held(k)']
<1>4. m \in [Link -> Nat]
  BY HeldType
<1>5. n \in [Link -> Nat] /\ n[l] = m[l] + 1 /\ \A k \in Link \ {l} : n[k] = m[k]
  BY <1>3, <1>4 DEF One
<1>6. HeldBits = Total([k \in Link |-> m[k] * Size[k]])
  BY DEF HeldBits
<1>7. HeldBits' = Total([k \in Link |-> n[k] * Size[k]])
  BY DEF HeldBits
<1> HIDE DEF m, n
<1> QED  BY <1>2, <1>3, <1>4, <1>5, <1>6, <1>7, MessageAdds

\* The process takes a request off the queue.
LEMMA DispatchMoves ==
  ASSUME NetTyped, Dispatch
  PROVE  /\ sendQueue' \in Seq(Request) /\ transfer' \in Link
         /\ \A k \in Link : Queued(sendQueue, k) = Held(k)'
<1> DEFINE i == Dispatched(sendQueue)
<1>1. /\ sendQueue \in Seq(Request) /\ sendQueue # <<>>
      /\ transfer' = sendQueue[i].from /\ sendQueue' = Without(sendQueue, i)
  BY DEF NetTyped, Dispatch
<1>2. i \in 1..Len(sendQueue)
  BY <1>1, DispatchedProperties
<1> HIDE DEF i
<1>3. transfer' \in Link
  <2>1. sendQueue[i] \in Request
    BY <1>1, <1>2, ElementOfSeq
  <2> QED  BY <1>1, <2>1 DEF Request
<1>4. sendQueue' \in Seq(Request)
  BY <1>1, <1>2, WithoutProperties
<1>5. ASSUME NEW k \in Link  PROVE Queued(sendQueue, k) = Held(k)'
  <2>1. Queued(sendQueue, k) = Queued(sendQueue', k) + One(transfer' = k)
    BY <1>1, <1>2, WithoutQueued
  <2> QED  BY <2>1 DEF Held, One
<1> QED  BY <1>3, <1>4, <1>5

\* The messages of the buffer are those of the queue when the process is idle.
LEMMA DispatchKeeps ==
  ASSUME NetTyped, Dispatch, transfer = NoLink
  PROVE  \A k \in Link : Held(k)' = Held(k)
<1> SUFFICES ASSUME NEW k \in Link  PROVE Held(k)' = Held(k)
  OBVIOUS
<1>1. transfer # k
  BY NetworkInterfaceAssumption
<1>2. Held(k) = Queued(sendQueue, k) /\ Queued(sendQueue, k) \in Nat
  <2>1. Queued(sendQueue, k) \in Nat
    BY QueuedType DEF NetTyped
  <2> QED  BY <1>1, <2>1 DEF Held, One
<1> QED  BY <1>2, DispatchMoves

\* The message in transfer leaves the buffer, whether another follows or not.
LEMMA TransferLeaves ==
  ASSUME NetTyped, transfer \in Link, Dispatch \/ WaitForRequest
  PROVE  /\ sendQueue' \in Seq(Request) /\ transfer' \in Link \cup {NoLink}
         /\ \A k \in Link : Held(k) = Held(k)' + One(k = transfer) /\ Held(k)' \in Nat
         /\ HeldBits' \in Nat /\ HeldBits = HeldBits' + Size[transfer]
<1>0. sendQueue \in Seq(Request)
  BY DEF NetTyped
<1>1. sendQueue' \in Seq(Request) /\ transfer' \in Link \cup {NoLink}
  <2>1. CASE Dispatch
    BY <2>1, DispatchMoves
  <2>2. CASE WaitForRequest
    BY <1>0, <2>2 DEF WaitForRequest
  <2> QED  BY <2>1, <2>2
<1>2. ASSUME NEW k \in Link  PROVE Held(k)' = Queued(sendQueue, k)
  <2>1. CASE Dispatch
    BY <2>1, DispatchMoves
  <2>2. CASE WaitForRequest
    <3>1. sendQueue' = sendQueue /\ transfer' # k
      BY <2>2, NetworkInterfaceAssumption DEF WaitForRequest
    <3>2. Queued(sendQueue, k) \in Nat
      BY <1>0, QueuedType
    <3> QED  BY <3>1, <3>2 DEF Held, One
  <2> QED  BY <2>1, <2>2
<1>3. ASSUME NEW k \in Link  PROVE Held(k) = Held(k)' + One(k = transfer) /\ Held(k)' \in Nat
  <2>1. Queued(sendQueue, k) \in Nat
    BY <1>0, QueuedType
  <2>2. Held(k) = Queued(sendQueue, k) + One(transfer = k)
    BY HeldType
  <2> QED  BY <1>2, <2>1, <2>2 DEF One
<1> DEFINE m == [k \in Link |-> Held(k)']
           n == [k \in Link |-> Held(k)]
<1>4. m \in [Link -> Nat]
  BY <1>3
<1>5. /\ n \in [Link -> Nat]
      /\ n[transfer] = m[transfer] + 1 /\ \A k \in Link \ {transfer} : n[k] = m[k]
  BY <1>3, HeldType DEF One
<1>6. HeldBits' = Total([k \in Link |-> m[k] * Size[k]])
  BY DEF HeldBits
<1>7. HeldBits = Total([k \in Link |-> n[k] * Size[k]])
  BY DEF HeldBits
<1> HIDE DEF m, n
<1> QED  BY <1>1, <1>3, <1>4, <1>5, <1>6, <1>7, MessageAdds

-----------------------------------------------------------------------------
(***************************************************************************)
(* The steps of the interface keep the invariant, whoever calls it; each   *)
(* lemma also says how many messages of a link the interface has after it. *)
(***************************************************************************)
LEMMA SameHeld ==
  ASSUME \A k \in Link : Held(k)' = Held(k)
  PROVE  HeldBits' = HeldBits
<1>1. [k \in Link |-> Held(k)' * Size[k]] = [k \in Link |-> Held(k) * Size[k]]
  OBVIOUS
<1> QED  BY <1>1 DEF HeldBits

\* The insertion keeps the order of the requests.
LEMMA InsertedOrdered ==
  ASSUME NEW q \in Seq(Request), NEW l \in Link, NEW a \in 0..MaxAge,
         \A i, j \in 1..Len(q) : i < j => q[i].age >= q[j].age
  PROVE  \A i, j \in 1..Len(Inserted(q, l, a)) :
           i < j => Inserted(q, l, a)[i].age >= Inserted(q, l, a)[j].age
<1> DEFINE r == Inserted(q, l, a)
<1>0. Len(q) \in Nat /\ \A k \in 1..Len(q) : q[k].age \in Nat
  <2>1. \A k \in 1..Len(q) : q[k] \in Request
    BY ElementOfSeq
  <2>2. MaxAge \in Nat
    BY NetworkInterfaceAssumption
  <2> QED  BY <2>1, <2>2, LenProperties DEF Request
<1>1. PICK p \in 1..Len(q) + 1 :
        /\ Len(r) = Len(q) + 1
        /\ \A j \in 1..Len(q) + 1 : r[j] =
             IF j < p THEN q[j] ELSE IF j = p THEN [from |-> l, age |-> a] ELSE q[j - 1]
        /\ \A j \in 1..p - 1 : q[j].age >= a
        /\ p <= Len(q) => q[p].age < a
  BY InsertedProperties
<1> HIDE DEF r
<1>2. ASSUME NEW k \in 1..Len(q), p <= k  PROVE q[k].age <= a
  <2>1. q[p].age < a /\ q[p].age \in Nat /\ p \in 1..Len(q)
    BY <1>0, <1>1, <1>2
  <2>2. q[p].age >= q[k].age
    <3>1. CASE p = k
      BY <1>0, <3>1
    <3>2. CASE p < k
      BY <2>1, <3>2
    <3> QED  BY <1>0, <1>2, <3>1, <3>2
  <2> QED  BY <1>0, <2>1, <2>2
<1>3. ASSUME NEW i \in 1..Len(q) + 1, NEW j \in 1..Len(q) + 1, i < j
      PROVE  r[i].age >= r[j].age
  <2>1. CASE j < p
    <3>1. r[i] = q[i] /\ r[j] = q[j] /\ i \in 1..Len(q) /\ j \in 1..Len(q)
      BY <1>0, <1>1, <1>3, <2>1
    <3> QED  BY <1>3, <3>1
  <2>2. CASE j = p
    <3>1. r[i] = q[i] /\ r[j].age = a /\ i \in 1..p - 1
      BY <1>0, <1>1, <1>3, <2>2
    <3> QED  BY <1>1, <3>1
  <2>3. CASE j > p
    <3>1. r[j] = q[j - 1] /\ j - 1 \in 1..Len(q)
      BY <1>0, <1>1, <2>3
    <3>2. CASE i < p
      <4>1. r[i] = q[i] /\ i \in 1..Len(q) /\ i < j - 1
        BY <1>0, <1>1, <1>3, <2>3, <3>2
      <4> QED  BY <3>1, <4>1
    <3>3. CASE i = p
      <4>1. r[i].age = a /\ p <= j - 1
        BY <1>0, <1>1, <2>3, <3>3
      <4> QED  BY <1>0, <1>2, <3>1, <4>1
    <3>4. CASE i > p
      <4>1. r[i] = q[i - 1] /\ i - 1 \in 1..Len(q) /\ i - 1 < j - 1
        BY <1>0, <1>1, <1>3, <3>4
      <4> QED  BY <3>1, <4>1
    <3> QED  BY <1>0, <3>2, <3>3, <3>4
  <2> QED  BY <1>0, <2>1, <2>2, <2>3
<1> QED  BY <1>0, <1>1, <1>3 DEF r

\* The removal keeps it too.
LEMMA WithoutOrdered ==
  ASSUME NEW q \in Seq(Request), NEW i \in 1..Len(q),
         \A j, k \in 1..Len(q) : j < k => q[j].age >= q[k].age
  PROVE  \A j, k \in 1..Len(Without(q, i)) : j < k => Without(q, i)[j].age >= Without(q, i)[k].age
<1>1. /\ Len(q) \in Nat /\ Len(Without(q, i)) = Len(q) - 1
      /\ \A j \in 1..Len(q) - 1 : Without(q, i)[j] = IF j < i THEN q[j] ELSE q[j + 1]
  BY WithoutProperties, LenProperties
<1>2. ASSUME NEW j \in 1..Len(q) - 1
      PROVE  \E m \in 1..Len(q) : /\ Without(q, i)[j] = q[m]
                                   /\ m = IF j < i THEN j ELSE j + 1
  BY <1>1
<1>3. ASSUME NEW j \in 1..Len(q) - 1, NEW k \in 1..Len(q) - 1, j < k
      PROVE  Without(q, i)[j].age >= Without(q, i)[k].age
  <2>1. PICK m \in 1..Len(q) : Without(q, i)[j] = q[m] /\ m = IF j < i THEN j ELSE j + 1
    BY <1>2
  <2>2. PICK n \in 1..Len(q) : Without(q, i)[k] = q[n] /\ n = IF k < i THEN k ELSE k + 1
    BY <1>2
  <2>3. m < n
    BY <1>1, <1>3, <2>1, <2>2
  <2> QED  BY <2>1, <2>2, <2>3
<1> QED  BY <1>1, <1>3

\* The two counters of the buffer, when its messages add up to h bits.
Counters(f, h, d, r) ==
  /\ d = h % Word
  /\ f => d = h /\ d <= BufferSize /\ r = BufferSize - d

\* A message of s bits that fits is let in.
LEMMA CountersGrow ==
  ASSUME NEW f \in BOOLEAN, NEW h \in Nat, NEW d \in 0..Word - 1, NEW r \in 0..Word - 1,
         NEW s \in Nat, Counters(f, h, d, r), f => s <= r,
         NEW D, D = (d + s) % Word, NEW R, R = (r - s) % Word
  PROVE  Counters(f, h + s, D, R) /\ D \in 0..Word - 1 /\ R \in 0..Word - 1
<1>0. Word \in Nat \ {0} /\ BufferSize \in 0..Word - 1
  BY WordPositive
<1>1. D \in 0..Word - 1 /\ R \in 0..Word - 1
  BY <1>0, Division
<1>2. D = (h + s) % Word
  <2>1. h \in Int /\ s \in Int /\ d = h % Word
    BY DEF Counters
  <2>2. ((h % Word) + s) % Word = (h + s) % Word
    BY <1>0, <2>1, RemainderAdds
  <2> QED  BY <2>1, <2>2
<1>3. ASSUME f  PROVE D = h + s /\ D <= BufferSize /\ R = BufferSize - D
  <2>1. d = h /\ r = BufferSize - d /\ s <= r
    BY <1>3 DEF Counters
  <2>2. d + s \in 0..Word - 1 /\ r - s \in 0..Word - 1 /\ d + s <= BufferSize
    BY <1>0, <2>1
  <2>3. D = d + s /\ R = r - s
    BY <1>0, <2>2, RemainderSmall
  <2> QED  BY <1>0, <2>1, <2>2, <2>3
<1>4. Counters(f, h + s, D, R)
  BY <1>2, <1>3, Zenon DEF Counters
<1> QED  BY <1>1, <1>4

\* One of s bits has been sent.
LEMMA CountersShrink ==
  ASSUME NEW f \in BOOLEAN, NEW h \in Nat, NEW d \in 0..Word - 1, NEW r \in 0..Word - 1,
         NEW s \in Nat, Counters(f, h + s, d, r),
         NEW D, D = (d - s) % Word, NEW R, R = (r + s) % Word
  PROVE  Counters(f, h, D, R) /\ D \in 0..Word - 1 /\ R \in 0..Word - 1
<1>0. Word \in Nat \ {0} /\ BufferSize \in 0..Word - 1
  BY WordPositive
<1>1. D \in 0..Word - 1 /\ R \in 0..Word - 1
  BY <1>0, Division
<1>2. D = h % Word
  <2>1. /\ -s \in Int /\ h + s \in Int /\ (h + s) + (-s) = h /\ d + (-s) = d - s
        /\ d = (h + s) % Word
    BY DEF Counters
  <2>2. (((h + s) % Word) + (-s)) % Word = ((h + s) + (-s)) % Word
    BY <1>0, <2>1, RemainderAdds
  <2> QED  BY <2>1, <2>2
<1>3. ASSUME f  PROVE D = h /\ D <= BufferSize /\ R = BufferSize - D
  <2>1. d = h + s /\ d <= BufferSize /\ r = BufferSize - d
    BY <1>3 DEF Counters
  <2>2. d - s \in 0..Word - 1 /\ r + s \in 0..Word - 1 /\ d - s = h /\ h <= BufferSize
    BY <1>0, <2>1
  <2>3. D = d - s /\ R = r + s
    BY <1>0, <2>2, RemainderSmall
  <2> QED  BY <1>0, <2>1, <2>2, <2>3
<1>4. Counters(f, h, D, R)
  BY <1>2, <1>3, Zenon DEF Counters
<1> QED  BY <1>1, <1>4

\* The counters of the interface after either.
LEMMA AccountedGrows ==
  ASSUME NEW s \in Nat, NEW h \in Nat, h = HeldBits, BufferAccounted,
         finite \in BOOLEAN, data \in 0..Word - 1, room \in 0..Word - 1, finite => s <= room,
         HeldBits' = h + s, finite' = finite,
         data' = (data + s) % Word, room' = (room - s) % Word
  PROVE  BufferAccounted' /\ room' \in 0..Word - 1 /\ data' \in 0..Word - 1
<1>1. PICK f \in BOOLEAN, d \in 0..Word - 1, r \in 0..Word - 1 : f = finite /\ d = data /\ r = room
  OBVIOUS
<1>2. PICK D, R : D = data' /\ R = room'
  OBVIOUS
<1>3. Counters(f, h, d, r)
  BY <1>1 DEF BufferAccounted, Counters
<1>4. D = (d + s) % Word /\ R = (r - s) % Word /\ (f => s <= r)
  BY <1>1, <1>2
<1>5. Counters(f, h + s, D, R) /\ D \in 0..Word - 1 /\ R \in 0..Word - 1
  BY <1>3, <1>4, CountersGrow
<1> QED  BY <1>1, <1>2, <1>5 DEF BufferAccounted, Counters

LEMMA AccountedShrinks ==
  ASSUME NEW s \in Nat, NEW h \in Nat, h = HeldBits', BufferAccounted,
         finite \in BOOLEAN, data \in 0..Word - 1, room \in 0..Word - 1,
         HeldBits = h + s, finite' = finite,
         data' = (data - s) % Word, room' = (room + s) % Word
  PROVE  BufferAccounted' /\ room' \in 0..Word - 1 /\ data' \in 0..Word - 1
<1>1. PICK f \in BOOLEAN, d \in 0..Word - 1, r \in 0..Word - 1 : f = finite /\ d = data /\ r = room
  OBVIOUS
<1>2. PICK D, R : D = data' /\ R = room'
  OBVIOUS
<1>3. Counters(f, h + s, d, r)
  BY <1>1 DEF BufferAccounted, Counters
<1>4. D = (d - s) % Word /\ R = (r + s) % Word
  BY <1>1, <1>2
<1>5. Counters(f, h, D, R) /\ D \in 0..Word - 1 /\ R \in 0..Word - 1
  BY <1>3, <1>4, CountersShrink
<1> QED  BY <1>1, <1>2, <1>5 DEF BufferAccounted, Counters

\* What request_sending does of the buffer, at the call or when it is woken.
Admit(l, a) == IF HasRoomFor(l) THEN Enqueue(l, a) ELSE Block(l)

LEMMA AdmitKeeps ==
  ASSUME BufferInv, NEW l \in Link, NEW a \in 0..MaxAge, Admit(l, a), UNCHANGED netifVars,
         pending' \subseteq {"send_request_ev", "send_request_completed"},
         UNCHANGED runNetif, runWriters' \subseteq runWriters \ {l}
  PROVE  /\ BufferInv'
         /\ \A k \in Link : InNetif(k)' = InNetif(k) + One(k = l /\ writerPc[k] = "out")
         /\ \A k \in Link \ {l} : writerPc'[k] = writerPc[k]
<1>0. /\ NetTyped /\ BufferAccounted /\ TransferKnown /\ WokenBlocked
      /\ QueueOrdered /\ InfiniteAdmits
  BY DEF BufferInv
<1>1. Size[l] \in Nat
  BY NetworkInterfaceAssumption
<1>2. MaxAge \in Nat
  BY NetworkInterfaceAssumption
<1>3. TransferKnown'
  BY <1>0 DEF TransferKnown, netifVars
<1>4. \A k \in Link : Held(k) \in Nat
  BY <1>0, HeldType
<1>5. CASE HasRoomFor(l) /\ Enqueue(l, a)
  <2>1. /\ sendQueue' \in Seq(Request)
        /\ \A k \in Link : Held(k)' = Held(k) + One(k = l)
        /\ HeldBits \in Nat /\ HeldBits' = HeldBits + Size[l]
    BY <1>0, <1>5, EnqueueHolds DEF netifVars
  <2>2. BufferAccounted' /\ room' \in 0..Word - 1 /\ data' \in 0..Word - 1
    <3>1. /\ data' = (data + Size[l]) % Word /\ room' = (room - Size[l]) % Word
          /\ finite' = finite /\ (finite => Size[l] <= room)
          /\ data \in 0..Word - 1 /\ room \in 0..Word - 1 /\ finite \in BOOLEAN
      BY <1>0, <1>5 DEF HasRoomFor, Enqueue, NetTyped
    <3>2. PICK h \in Nat, s \in Nat : h = HeldBits /\ s = Size[l]
      BY <1>1, <2>1
    <3> QED  BY <1>0, <2>1, <3>1, <3>2, AccountedGrows
  <2>3. writerPc' \in [Link -> {"out", "blocked"}] /\ age' \in [Link -> 0..MaxAge]
    BY <1>0, <1>2, <1>5 DEF Enqueue, NetTyped
  <2>4. NetTyped'
    BY <1>0, <1>5, <2>1, <2>2, <2>3 DEF NetTyped, Enqueue, netifVars
  <2>5. QueueOrdered'
    BY <1>0, <1>5, InsertedOrdered DEF QueueOrdered, NetTyped, Enqueue
  <2>6. InfiniteAdmits'
    BY <1>0, <1>5 DEF InfiniteAdmits, Enqueue, NetTyped
  <2>7. WokenBlocked'
    BY <1>0, <1>5 DEF WokenBlocked, Enqueue, NetTyped
  <2>8. /\ writerPc'[l] = "out" /\ writerPc[l] \in {"out", "blocked"}
        /\ \A k \in Link \ {l} : writerPc'[k] = writerPc[k]
    BY <1>0, <1>5 DEF Enqueue, NetTyped
  <2>9. ASSUME NEW k \in Link
        PROVE  InNetif(k)' = InNetif(k) + One(k = l /\ writerPc[k] = "out")
    BY <1>4, <2>1, <2>8 DEF InNetif, One
  <2> QED  BY <1>3, <2>2, <2>4, <2>5, <2>6, <2>7, <2>8, <2>9 DEF BufferInv
<1>6. CASE ~HasRoomFor(l) /\ Block(l)
  <2>1. \A k \in Link : Held(k)' = Held(k)
    BY <1>6 DEF Block, bufferVars, netifVars, Held, Queued
  <2>2. HeldBits' = HeldBits
    BY <2>1, SameHeld
  <2>3. BufferAccounted'
    BY <1>0, <1>6, <2>2 DEF BufferAccounted, Block, bufferVars
  <2>4. writerPc' \in [Link -> {"out", "blocked"}]
    BY <1>0, <1>6 DEF Block, NetTyped
  <2>5. NetTyped'
    BY <1>0, <1>6, <2>4 DEF NetTyped, Block, bufferVars, netifVars
  <2>6. QueueOrdered'
    BY <1>0, <1>6 DEF QueueOrdered, Block, bufferVars
  <2>7. InfiniteAdmits'
    BY <1>6 DEF InfiniteAdmits, HasRoomFor, Block, bufferVars
  <2>8. WokenBlocked'
    BY <1>0, <1>6 DEF WokenBlocked, Block, NetTyped
  <2>9. /\ writerPc'[l] = "blocked" /\ writerPc[l] \in {"out", "blocked"}
        /\ \A k \in Link \ {l} : writerPc'[k] = writerPc[k]
    BY <1>0, <1>6 DEF Block, NetTyped
  <2>10. ASSUME NEW k \in Link
         PROVE  InNetif(k)' = InNetif(k) + One(k = l /\ writerPc[k] = "out")
    BY <1>4, <2>1, <2>9 DEF InNetif, One
  <2> QED  BY <1>3, <2>3, <2>5, <2>6, <2>7, <2>8, <2>9, <2>10 DEF BufferInv
<1> QED  BY <1>5, <1>6 DEF Admit

LEMMA NotifiedKeeps ==
  ASSUME BufferInv, Notified
  PROVE  BufferInv' /\ \A k \in Link : InNetif(k)' = InNetif(k)
<1>0. /\ NetTyped /\ BufferAccounted /\ TransferKnown /\ QueueOrdered /\ InfiniteAdmits
      /\ UNCHANGED <<netifPc, transfer, delay, finite, sendQueue, room, data, writerPc, age>>
  BY DEF BufferInv, Notified, netifVars, bufferVars, writerVars
<1>1. \A k \in Link : Held(k)' = Held(k)
  BY <1>0 DEF Held, Queued
<1>2. HeldBits' = HeldBits
  BY <1>1, SameHeld
<1>3. BufferAccounted'
  BY <1>0, <1>2 DEF BufferAccounted
<1>4. NetTyped'
  BY <1>0 DEF NetTyped, Notified
<1>5. WokenBlocked'
  BY <1>0 DEF WokenBlocked, Notified
<1>6. TransferKnown' /\ QueueOrdered' /\ InfiniteAdmits'
  BY <1>0 DEF TransferKnown, QueueOrdered, InfiniteAdmits
<1>7. \A k \in Link : InNetif(k)' = InNetif(k)
  BY <1>0, <1>1 DEF InNetif
<1> QED  BY <1>3, <1>4, <1>5, <1>6, <1>7 DEF BufferInv

\* Time passes: every request is one unit older.
LEMMA ElapsedKeeps ==
  ASSUME BufferInv, Elapsed, runWriters = {}
  PROVE  BufferInv' /\ \A k \in Link : InNetif(k)' = InNetif(k)
<1>0. /\ NetTyped /\ BufferAccounted /\ TransferKnown /\ QueueOrdered /\ InfiniteAdmits
      /\ UNCHANGED <<netifPc, transfer, finite, room, data, writerPc, pending, runWriters>>
  BY DEF BufferInv, Elapsed
<1>1. MaxAge \in Nat
  BY NetworkInterfaceAssumption
<1>2. /\ sendQueue \in Seq(Request) /\ Len(sendQueue) \in Nat
      /\ \A i \in 1..Len(sendQueue) : sendQueue[i] \in Request
  BY <1>0, ElementOfSeq, LenProperties DEF NetTyped
<1>3. /\ \A i \in 1..Len(sendQueue) : sendQueue[i].age < MaxAge
      /\ \A l \in Link : writerPc[l] = "blocked" => age[l] < MaxAge
  BY DEF Elapsed, Ages
<1> DEFINE r == [i \in 1..Len(sendQueue) |-> [sendQueue[i] EXCEPT !.age = @ + 1]]
<1>4. ASSUME NEW i \in 1..Len(sendQueue)
      PROVE  /\ r[i] \in Request
             /\ r[i].from = sendQueue[i].from /\ r[i].age = sendQueue[i].age + 1
  BY <1>1, <1>2, <1>3 DEF Request
<1>5. r \in Seq(Request) /\ Len(r) = Len(sendQueue)
  <2>1. r \in [1..Len(sendQueue) -> Request]
    BY <1>4
  <2> HIDE DEF r
  <2>2. r \in Seq(Request)
    BY <1>2, <2>1
  <2> QED  BY <1>2, <2>1, <2>2, LenProperties
<1>6. sendQueue' = r
  BY DEF Elapsed
<1> HIDE DEF r
<1>7. ASSUME NEW k \in Link  PROVE Held(k)' = Held(k)
  <2>1. {i \in 1..Len(r) : r[i].from = k} = {i \in 1..Len(sendQueue) : sendQueue[i].from = k}
    BY <1>4, <1>5
  <2> QED  BY <1>0, <1>6, <2>1 DEF Held, Queued
<1>8. HeldBits' = HeldBits
  BY <1>7, SameHeld
<1>9. BufferAccounted'
  BY <1>0, <1>8 DEF BufferAccounted
<1>10. NetTyped'
  <2>1. delay' \in Nat /\ runNetif' \in BOOLEAN
    BY <1>0 DEF NetTyped, Elapsed
  <2>2. age' \in [Link -> 0..MaxAge]
    <3>1. ASSUME NEW l \in Link  PROVE (IF writerPc[l] = "blocked" THEN age[l] + 1 ELSE 0) \in 0..MaxAge
      BY <1>0, <1>1, <1>3 DEF NetTyped
    <3> QED  BY <3>1 DEF Elapsed
  <2> QED  BY <1>0, <1>5, <1>6, <2>1, <2>2 DEF NetTyped
<1>11. QueueOrdered'
  <2>1. ASSUME NEW i \in 1..Len(r), NEW j \in 1..Len(r), i < j  PROVE r[i].age >= r[j].age
    <3>1. /\ i \in 1..Len(sendQueue) /\ j \in 1..Len(sendQueue)
          /\ sendQueue[i].age >= sendQueue[j].age
      BY <1>0, <1>5, <2>1 DEF QueueOrdered
    <3>2. sendQueue[i].age \in Nat /\ sendQueue[j].age \in Nat
      BY <1>1, <1>2, <3>1 DEF Request
    <3> QED  BY <1>4, <3>1, <3>2
  <2> QED  BY <1>6, <2>1 DEF QueueOrdered
<1>12. TransferKnown' /\ InfiniteAdmits' /\ WokenBlocked'
  BY <1>0 DEF TransferKnown, InfiniteAdmits, WokenBlocked
<1>13. \A k \in Link : InNetif(k)' = InNetif(k)
  BY <1>0, <1>7 DEF InNetif
<1> QED  BY <1>9, <1>10, <1>11, <1>12, <1>13 DEF BufferInv

LEMMA RequestSendingKeeps ==
  ASSUME BufferInv, NEW l \in Link, RequestSending(l)
  PROVE  /\ BufferInv'
         /\ \A k \in Link : InNetif(k)' = InNetif(k) + One(k = l)
         /\ \A k \in Link \ {l} : writerPc'[k] = writerPc[k]
<1>0. NetTyped /\ WokenBlocked /\ writerPc[l] = "out" /\ UNCHANGED netifVars
  BY DEF BufferInv, RequestSending
<1>1. /\ pending' \subseteq {"send_request_ev", "send_request_completed"}
      /\ UNCHANGED runNetif /\ runWriters' \subseteq runWriters \ {l}
  BY <1>0 DEF RequestSending, NetTyped, WokenBlocked
<1>2. Admit(l, 0) /\ 0 \in 0..MaxAge
  BY NetworkInterfaceAssumption DEF RequestSending, Admit
<1>3. /\ BufferInv'
      /\ \A k \in Link : InNetif(k)' = InNetif(k) + One(k = l /\ writerPc[k] = "out")
      /\ \A k \in Link \ {l} : writerPc'[k] = writerPc[k]
  BY <1>0, <1>1, <1>2, AdmitKeeps
<1> QED  BY <1>0, <1>3 DEF One

LEMMA WriterWokenKeeps ==
  ASSUME BufferInv, NEW l \in Link, WriterWoken(l)
  PROVE  /\ BufferInv'
         /\ \A k \in Link : InNetif(k)' = InNetif(k)
         /\ \A k \in Link \ {l} : writerPc'[k] = writerPc[k]
<1>0. NetTyped /\ WokenBlocked /\ l \in runWriters /\ UNCHANGED netifVars
  BY DEF BufferInv, WriterWoken
<1>1. /\ pending' \subseteq {"send_request_ev", "send_request_completed"}
      /\ UNCHANGED runNetif /\ runWriters' \subseteq runWriters \ {l}
  BY <1>0 DEF WriterWoken, NetTyped
<1>2. writerPc[l] = "blocked"
  BY <1>0 DEF WokenBlocked
<1>3. Admit(l, age[l]) /\ age[l] \in 0..MaxAge
  BY <1>0 DEF WriterWoken, Admit, NetTyped
<1>4. /\ BufferInv'
      /\ \A k \in Link : InNetif(k)' = InNetif(k) + One(k = l /\ writerPc[k] = "out")
      /\ \A k \in Link \ {l} : writerPc'[k] = writerPc[k]
  BY <1>0, <1>1, <1>3, AdmitKeeps
<1>5. ASSUME NEW k \in Link  PROVE InNetif(k) \in Nat
  BY <1>0, HeldType DEF InNetif, One
<1> QED  BY <1>2, <1>4, <1>5 DEF One

\* The order of the queue and its type after a request was taken off it, or none.
LEMMA DispatchOrdered ==
  ASSUME NetTyped, QueueOrdered, Dispatch \/ WaitForRequest
  PROVE  /\ QueueOrdered' /\ sendQueue' \in Seq(Request)
         /\ netifPc' \in {"idle", "sending"} /\ transfer' \in Link \cup {NoLink}
         /\ TransferKnown' /\ delay' \in Nat
         /\ pending' \subseteq {"send_request_ev", "send_request_completed"}
<1>1. CASE Dispatch
  <2> DEFINE i == Dispatched(sendQueue)
  <2>1. /\ sendQueue \in Seq(Request) /\ sendQueue # <<>> /\ sendQueue' = Without(sendQueue, i)
        /\ netifPc' = "sending" /\ delay' \in Delays[transfer']
        /\ pending' \subseteq {"send_request_ev", "send_request_completed"}
    BY <1>1 DEF NetTyped, Dispatch
  <2>2. i \in 1..Len(sendQueue)
    BY <2>1, DispatchedProperties
  <2> HIDE DEF i
  <2>3. QueueOrdered'
    BY <2>1, <2>2, WithoutOrdered DEF QueueOrdered
  <2>4. sendQueue' \in Seq(Request) /\ transfer' \in Link
    BY <1>1, DispatchMoves
  <2>5. delay' \in Nat
    BY <2>1, <2>4, NetworkInterfaceAssumption
  <2> QED  BY <2>1, <2>3, <2>4, <2>5 DEF TransferKnown
<1>2. CASE WaitForRequest
  BY <1>2, NetworkInterfaceAssumption DEF WaitForRequest, NetTyped, QueueOrdered, TransferKnown
<1> QED  BY <1>1, <1>2

LEMMA NetifWokenKeeps ==
  ASSUME BufferInv, NetifWoken
  PROVE  BufferInv' /\ \A k \in Link : InNetif(k)' = InNetif(k)
<1>0. /\ NetTyped /\ BufferAccounted /\ TransferKnown /\ QueueOrdered /\ WokenBlocked
      /\ InfiniteAdmits /\ Dispatch /\ runNetif' = FALSE
      /\ UNCHANGED <<finite, room, data, writerPc, age, runWriters>>
  BY DEF BufferInv, NetifWoken, writerVars
<1>1. transfer = NoLink
  BY <1>0 DEF NetifWoken, TransferKnown, NetTyped
<1>2. \A k \in Link : Held(k)' = Held(k)
  BY <1>0, <1>1, DispatchKeeps
<1>3. HeldBits' = HeldBits
  BY <1>2, SameHeld
<1>4. BufferAccounted'
  BY <1>0, <1>3 DEF BufferAccounted
<1>5. /\ QueueOrdered' /\ sendQueue' \in Seq(Request)
      /\ netifPc' \in {"idle", "sending"} /\ transfer' \in Link \cup {NoLink}
      /\ TransferKnown' /\ delay' \in Nat
      /\ pending' \subseteq {"send_request_ev", "send_request_completed"}
  BY <1>0, DispatchOrdered
<1>6. NetTyped'
  BY <1>0, <1>5 DEF NetTyped
<1>7. InfiniteAdmits' /\ WokenBlocked'
  BY <1>0 DEF InfiniteAdmits, WokenBlocked
<1>8. \A k \in Link : InNetif(k)' = InNetif(k)
  BY <1>0, <1>2 DEF InNetif
<1> QED  BY <1>4, <1>5, <1>6, <1>7, <1>8 DEF BufferInv

LEMMA NetifCompletesKeeps ==
  ASSUME BufferInv, NetifCompletes
  PROVE  /\ BufferInv' /\ transfer \in Link
         /\ \A k \in Link : InNetif(k) = InNetif(k)' + One(k = transfer) /\ InNetif(k)' \in Nat
<1>0. /\ NetTyped /\ BufferAccounted /\ TransferKnown /\ QueueOrdered /\ WokenBlocked
      /\ InfiniteAdmits /\ (Dispatch \/ WaitForRequest) /\ runNetif' = FALSE
      /\ UNCHANGED <<finite, writerPc, age, runWriters>>
  BY DEF BufferInv, NetifCompletes, writerVars
<1>1. transfer \in Link
  BY DEF NetifCompletes, TransferKnown, BufferInv
<1>2. /\ \A k \in Link : Held(k) = Held(k)' + One(k = transfer) /\ Held(k)' \in Nat
      /\ HeldBits' \in Nat /\ HeldBits = HeldBits' + Size[transfer]
  BY <1>0, <1>1, TransferLeaves
<1>3. BufferAccounted' /\ room' \in 0..Word - 1 /\ data' \in 0..Word - 1
  <2>1. /\ finite \in BOOLEAN /\ data \in 0..Word - 1 /\ room \in 0..Word - 1
        /\ finite' = finite
        /\ data' = (data - Size[transfer]) % Word /\ room' = (room + Size[transfer]) % Word
    BY <1>0 DEF NetTyped, NetifCompletes
  <2>2. PICK h \in Nat, s \in Nat : h = HeldBits' /\ s = Size[transfer]
    BY <1>1, <1>2, NetworkInterfaceAssumption
  <2> QED  BY <1>0, <1>2, <2>1, <2>2, AccountedShrinks
<1>4. /\ QueueOrdered' /\ sendQueue' \in Seq(Request)
      /\ netifPc' \in {"idle", "sending"} /\ transfer' \in Link \cup {NoLink}
      /\ TransferKnown' /\ delay' \in Nat
      /\ pending' \subseteq {"send_request_ev", "send_request_completed"}
  BY <1>0, DispatchOrdered
<1>5. NetTyped'
  BY <1>0, <1>3, <1>4 DEF NetTyped
<1>6. InfiniteAdmits' /\ WokenBlocked'
  BY <1>0 DEF InfiniteAdmits, WokenBlocked
<1>7. ASSUME NEW k \in Link
      PROVE  InNetif(k) = InNetif(k)' + One(k = transfer) /\ InNetif(k)' \in Nat
  BY <1>0, <1>2 DEF InNetif, One
<1> QED  BY <1>1, <1>3, <1>4, <1>5, <1>6, <1>7 DEF BufferInv

\* A step that leaves the interface alone.
LEMMA BufferStutter ==
  ASSUME BufferInv, UNCHANGED <<netifVars, bufferVars, writerVars, pending, runNetif, runWriters>>
  PROVE  BufferInv' /\ \A k \in Link : InNetif(k)' = InNetif(k)
<1>0. /\ NetTyped /\ BufferAccounted /\ TransferKnown /\ QueueOrdered /\ WokenBlocked
      /\ InfiniteAdmits
      /\ UNCHANGED <<netifPc, transfer, delay, finite, sendQueue, room, data, writerPc, age,
                     pending, runNetif, runWriters>>
  BY DEF BufferInv, netifVars, bufferVars, writerVars
<1>1. \A k \in Link : Held(k)' = Held(k)
  BY <1>0 DEF Held, Queued
<1>2. HeldBits' = HeldBits
  BY <1>1, SameHeld
<1>3. BufferAccounted'
  BY <1>0, <1>2 DEF BufferAccounted
<1>4. NetTyped'
  BY <1>0 DEF NetTyped
<1>5. TransferKnown' /\ QueueOrdered' /\ InfiniteAdmits' /\ WokenBlocked'
  BY <1>0 DEF TransferKnown, QueueOrdered, InfiniteAdmits, WokenBlocked
<1>6. \A k \in Link : InNetif(k)' = InNetif(k)
  BY <1>0, <1>1 DEF InNetif
<1> QED  BY <1>3, <1>4, <1>5, <1>6 DEF BufferInv

\* The simulation starts with an empty buffer.
LEMMA InitKeeps ==
  ASSUME NEW posted \in [Link -> Nat], InitWith(posted)
  PROVE  BufferInv /\ SentAccounted
<1>0. Word \in Nat \ {0} /\ BufferSize \in 0..Word - 1 /\ MaxAge \in Nat
  BY WordPositive, NetworkInterfaceAssumption
<1>1. NetTyped
  <2>1. finite \in BOOLEAN /\ room \in 0..Word - 1 /\ data \in 0..Word - 1
    BY <1>0, NetworkInterfaceAssumption DEF InitWith
  <2>2. writerPc \in [Link -> {"out", "blocked"}] /\ age \in [Link -> 0..MaxAge]
    BY <1>0 DEF InitWith
  <2>3. sendQueue \in Seq(Request)
    BY DEF InitWith
  <2> QED  BY <2>1, <2>2, <2>3 DEF NetTyped, InitWith
<1>2. /\ TransferKnown /\ WokenBlocked /\ QueueOrdered /\ InfiniteAdmits
  BY NetworkInterfaceAssumption DEF InitWith, TransferKnown, WokenBlocked, QueueOrdered, InfiniteAdmits
<1>3. ASSUME NEW k \in Link  PROVE Held(k) = 0
  <2>1. sendQueue = <<>> /\ transfer # k
    BY NetworkInterfaceAssumption DEF InitWith
  <2>2. {i \in 1..Len(sendQueue) : sendQueue[i].from = k} = {}
    BY <2>1
  <2>3. Queued(sendQueue, k) = 0
    BY <2>2, FS_EmptySet DEF Queued
  <2> QED  BY <2>1, <2>3 DEF Held, One
<1>4. HeldBits = 0
  <2> DEFINE bits == [l \in Link |-> Held(l) * Size[l]]
  <2>1. \A l \in Link : bits[l] = 0
    BY <1>3, NetworkInterfaceAssumption
  <2>2. bits \in [Link -> Nat]
    BY <2>1
  <2> HIDE DEF bits
  <2>3. Total(bits) = 0
    BY <2>1, <2>2, TotalZero
  <2> QED  BY <2>3 DEF HeldBits, bits
<1>5. BufferAccounted
  <2>1. 0 % Word = 0
    BY <1>0, RemainderSmall
  <2> QED  BY <1>0, <1>4, <2>1 DEF BufferAccounted, InitWith
<1>6. SentAccounted
  <2>1. ASSUME NEW l \in Link  PROVE outstanding[l] = completed[l] + InNetif(l)
    BY <1>3 DEF InitWith, InNetif, One
  <2> QED  BY <2>1 DEF SentAccounted, InitWith
<1> QED  BY <1>1, <1>2, <1>5, <1>6 DEF BufferInv

\* The steps of the interface itself.
NetifStep ==
  \/ Notified \/ (Elapsed /\ runWriters = {}) \/ NetifWoken \/ NetifCompletes
  \/ \E l \in Link : RequestSending(l) \/ WriterWoken(l) \/ Read(l)

\* Any of them keeps both parts of the invariant.
LEMMA NetifStepKeeps ==
  ASSUME BufferInv, SentAccounted, NetifStep
  PROVE  BufferInv' /\ SentAccounted'
<1>0. \A k \in Link : InNetif(k) \in Nat
  BY HeldType DEF BufferInv, InNetif, One
<1>1. CASE Notified
  BY <1>1, NotifiedKeeps DEF SentAccounted, Notified, channelVars
<1>2. CASE Elapsed /\ runWriters = {}
  BY <1>2, ElapsedKeeps DEF SentAccounted, Elapsed, channelVars
<1>3. CASE NetifWoken
  BY <1>3, NetifWokenKeeps DEF SentAccounted, NetifWoken, channelVars
<1>4. CASE NetifCompletes
  <2>1. /\ BufferInv' /\ transfer \in Link
        /\ \A k \in Link : InNetif(k) = InNetif(k)' + One(k = transfer) /\ InNetif(k)' \in Nat
    BY <1>4, NetifCompletesKeeps
  <2>2. /\ completed' \in [Link -> Nat] /\ outstanding' = outstanding
        /\ \A k \in Link : completed'[k] = completed[k] + One(k = transfer)
    BY <1>4, <2>1 DEF SentAccounted, NetifCompletes, One
  <2>3. \A k \in Link : completed[k] \in Nat /\ One(k = transfer) \in Nat
    BY DEF SentAccounted, One
  <2>4. ASSUME NEW k \in Link  PROVE outstanding'[k] = completed'[k] + InNetif(k)'
    <3>1. outstanding[k] = completed[k] + InNetif(k)
      BY DEF SentAccounted
    <3> QED  BY <2>1, <2>2, <2>3, <3>1
  <2> QED  BY <2>1, <2>2, <2>4 DEF SentAccounted
<1>5. ASSUME NEW l \in Link, RequestSending(l)  PROVE BufferInv' /\ SentAccounted'
  <2>1. BufferInv' /\ \A k \in Link : InNetif(k)' = InNetif(k) + One(k = l)
    BY <1>5, RequestSendingKeeps
  <2>2. /\ outstanding' \in [Link -> Nat] /\ completed' = completed
        /\ \A k \in Link : outstanding'[k] = outstanding[k] + One(k = l)
    BY <1>5 DEF SentAccounted, RequestSending, One
  <2>3. ASSUME NEW k \in Link  PROVE outstanding'[k] = completed'[k] + InNetif(k)'
    <3>1. outstanding[k] = completed[k] + InNetif(k) /\ completed[k] \in Nat
      BY DEF SentAccounted
    <3> QED  BY <1>0, <2>1, <2>2, <3>1 DEF One
  <2> QED  BY <2>1, <2>2, <2>3 DEF SentAccounted
<1>6. ASSUME NEW l \in Link, WriterWoken(l)  PROVE BufferInv' /\ SentAccounted'
  BY <1>6, WriterWokenKeeps DEF SentAccounted, WriterWoken, channelVars
<1>7. ASSUME NEW l \in Link, Read(l)  PROVE BufferInv' /\ SentAccounted'
  <2>1. BufferInv' /\ \A k \in Link : InNetif(k)' = InNetif(k)
    BY <1>7, BufferStutter DEF Read
  <2>2. outstanding[l] = completed[l] + InNetif(l) /\ completed[l] > 0
    BY <1>7 DEF SentAccounted, Read
  <2>3. /\ completed' \in [Link -> Nat] /\ outstanding' \in [Link -> Nat]
        /\ \A k \in Link : /\ completed'[k] = completed[k] - One(k = l)
                           /\ outstanding'[k] = outstanding[k] - One(k = l)
    BY <1>0, <1>7, <2>2 DEF SentAccounted, Read, One
  <2>4. ASSUME NEW k \in Link  PROVE outstanding'[k] = completed'[k] + InNetif(k)'
    <3>1. outstanding[k] = completed[k] + InNetif(k) /\ completed[k] \in Nat
      BY DEF SentAccounted
    <3> QED  BY <1>0, <2>1, <2>3, <3>1 DEF One
  <2> QED  BY <2>1, <2>3, <2>4 DEF SentAccounted
<1> QED  BY <1>1, <1>2, <1>3, <1>4, <1>5, <1>6, <1>7 DEF NetifStep

\* Only dispatch() takes a request off the queue.
LEMMA OnlyDispatchShrinks ==
  ASSUME NetTyped, NetifStep \/ UNCHANGED sendQueue, Len(sendQueue') < Len(sendQueue)
  PROVE  Dispatch
<1>0. sendQueue \in Seq(Request) /\ Len(sendQueue) \in Nat
  BY LenProperties DEF NetTyped
<1>1. ASSUME NEW l \in Link, NEW a \in 0..MaxAge, Admit(l, a)  PROVE FALSE
  <2>1. CASE Enqueue(l, a)
    <3>1. Len(sendQueue') = Len(sendQueue) + 1
      BY <1>0, <2>1, InsertedProperties DEF Enqueue
    <3> QED  BY <1>0, <3>1
  <2>2. CASE Block(l)
    BY <1>0, <2>2 DEF Block, bufferVars
  <2> QED  BY <1>1, <2>1, <2>2 DEF Admit
<1>2. ASSUME NEW l \in Link, RequestSending(l)  PROVE FALSE
  <2>1. Admit(l, 0) /\ 0 \in 0..MaxAge
    BY <1>2, NetworkInterfaceAssumption DEF RequestSending, Admit
  <2> QED  BY <1>1, <2>1
<1>3. ASSUME NEW l \in Link, WriterWoken(l)  PROVE FALSE
  <2>1. Admit(l, age[l]) /\ age[l] \in 0..MaxAge
    BY <1>3 DEF WriterWoken, Admit, NetTyped
  <2> QED  BY <1>1, <2>1
<1>4. ASSUME Elapsed  PROVE FALSE
  <2>1. Len(sendQueue') = Len(sendQueue)
    BY <1>0, <1>4 DEF Elapsed
  <2> QED  BY <1>0, <2>1
<1>5. ASSUME UNCHANGED sendQueue  PROVE FALSE
  BY <1>0, <1>5
<1>6. ASSUME NetifCompletes  PROVE Dispatch
  BY <1>5, <1>6 DEF NetifCompletes, WaitForRequest
<1>7. ASSUME NetifWoken  PROVE Dispatch
  BY <1>7 DEF NetifWoken
<1>8. ASSUME NEW l \in Link, Notified \/ Read(l)  PROVE FALSE
  BY <1>5, <1>8 DEF Notified, Read, bufferVars
<1>9. \E l \in Link : TRUE
  BY NetworkInterfaceAssumption
<1> QED  BY <1>2, <1>3, <1>4, <1>5, <1>6, <1>7, <1>8, <1>9 DEF NetifStep

\* In an infinite buffer the request that dispatch() takes is among the oldest.
LEMMA DispatchesOldest ==
  ASSUME BufferInv, BufferInv', ~finite, Len(sendQueue') < Len(sendQueue)
  PROVE  \A a \in Ages : a <= sendQueue[Dispatched(sendQueue)].age
<1>0. /\ sendQueue \in Seq(Request) /\ Len(sendQueue) \in Nat /\ Len(sendQueue') \in Nat
      /\ \A i \in 1..Len(sendQueue) : sendQueue[i] \in Request
  BY LenProperties, ElementOfSeq DEF BufferInv, NetTyped
<1>1. sendQueue # <<>> /\ 1 \in 1..Len(sendQueue)
  BY <1>0
<1>2. sendQueue[Dispatched(sendQueue)].age = sendQueue[1].age
  BY <1>0, <1>1, DispatchedProperties
<1>3. ASSUME NEW i \in 1..Len(sendQueue)  PROVE sendQueue[i].age <= sendQueue[1].age
  <2>0. MaxAge \in Nat /\ sendQueue[i] \in Request /\ sendQueue[1] \in Request
    BY <1>0, <1>1, NetworkInterfaceAssumption
  <2>1. sendQueue[i].age \in Nat /\ sendQueue[1].age \in Nat
    BY <2>0 DEF Request
  <2>2. CASE i = 1
    BY <2>1, <2>2
  <2>3. CASE 1 < i
    BY <1>1, <2>1, <2>3 DEF BufferInv, QueueOrdered
  <2> QED  BY <1>0, <2>2, <2>3
<1>4. Ages = {sendQueue[i].age : i \in 1..Len(sendQueue)}
  BY DEF Ages, BufferInv, InfiniteAdmits
<1> QED  BY <1>2, <1>3, <1>4

\* Of the requests of one time it takes the first of the static schedule.
LEMMA DispatchesScheduled ==
  ASSUME BufferInv, NetifStep \/ UNCHANGED sendQueue, Len(sendQueue') < Len(sendQueue),
         CommSchedule # <<>>
  PROVE  \A i \in Synchronous(sendQueue) : Position(transfer') <= Position(sendQueue[i].from)
<1>1. NetTyped /\ sendQueue \in Seq(Request)
  BY DEF BufferInv, NetTyped
<1>2. Dispatch
  BY <1>1, OnlyDispatchShrinks
<1>3. sendQueue # <<>> /\ transfer' = sendQueue[Dispatched(sendQueue)].from
  BY <1>2 DEF Dispatch
<1> QED  BY <1>1, <1>3, DispatchedProperties

-----------------------------------------------------------------------------
(***************************************************************************)
(* The interface, called by tasks that send and read as they like.         *)
(***************************************************************************)
NetInv == BufferInv /\ SentAccounted /\ \A l \in Link : outstanding[l] <= MaxOutstanding

LEMMA NetInvHolds == Spec => []NetInv
<1>1. Init => NetInv
  <2> SUFFICES ASSUME Init  PROVE NetInv
    OBVIOUS
  <2>1. [l \in Link |-> 0] \in [Link -> Nat]
    OBVIOUS
  <2>2. BufferInv /\ SentAccounted
    BY <2>1, InitKeeps DEF Init
  <2>3. \A l \in Link : outstanding[l] <= MaxOutstanding
    BY NetworkInterfaceAssumption DEF Init, InitWith
  <2> QED  BY <2>2, <2>3 DEF NetInv
<1>2. NetInv /\ [Next]_vars => NetInv'
  <2> SUFFICES ASSUME NetInv, [Next]_vars  PROVE NetInv'
    OBVIOUS
  <2>0. BufferInv /\ SentAccounted /\ MaxOutstanding \in Nat
    BY NetworkInterfaceAssumption DEF NetInv
  <2>1. CASE Next
    <3>1. NetifStep
      BY <2>1 DEF Next, Progress, NetifStep, DeltaCycle, Tick, EvaluationOver
    <3>2. BufferInv' /\ SentAccounted'
      BY <2>0, <3>1, NetifStepKeeps
    <3>3. ASSUME NEW l \in Link, RequestSending(l)
          PROVE  \A k \in Link : outstanding'[k] <= MaxOutstanding
      BY <2>0, <3>3 DEF NetInv, SentAccounted, RequestSending
    <3>4. ASSUME NEW l \in Link, Read(l)
          PROVE  \A k \in Link : outstanding'[k] <= MaxOutstanding
      BY <2>0, <3>4 DEF NetInv, SentAccounted, Read
    <3>5. ASSUME UNCHANGED outstanding
          PROVE  \A k \in Link : outstanding'[k] <= MaxOutstanding
      BY <3>5 DEF NetInv
    <3>6. \A k \in Link : outstanding'[k] <= MaxOutstanding
      BY <3>1, <3>3, <3>4, <3>5
         DEF NetifStep, Notified, Elapsed, NetifWoken, NetifCompletes, WriterWoken, channelVars
    <3> QED  BY <3>2, <3>6 DEF NetInv
  <2>2. CASE UNCHANGED vars
    <3>1. BufferInv' /\ \A k \in Link : InNetif(k)' = InNetif(k)
      BY <2>0, <2>2, BufferStutter DEF vars
    <3> QED  BY <2>2, <3>1 DEF vars, channelVars, NetInv, SentAccounted
  <2> QED  BY <2>1, <2>2
<1> QED  BY <1>1, <1>2, PTL DEF Spec

\* Every variable of the interface keeps to its kind; in particular the two
\* unsigned counters stay below 2^32 and no reader takes what was not sent.
THEOREM NetifTypeCorrect == Spec => []TypeOK
<1>1. NetInv => TypeOK
  <2> SUFFICES ASSUME NetInv  PROVE TypeOK
    OBVIOUS
  <2>1. outstanding \in [Link -> 0..MaxOutstanding]
    BY NetworkInterfaceAssumption DEF NetInv, SentAccounted
  <2> QED  BY <2>1 DEF NetInv, SentAccounted, BufferInv, NetTyped, TypeOK
<1> QED  BY <1>1, NetInvHolds, PTL

\* cur_data_in_tx_buffer is what the messages held add up to, modulo 2^32, and in a
\* finite buffer neither counter ever wraps around, for any sizes and delays.
THEOREM BufferCorrect == Spec => []BufferAccounted
<1>1. NetInv => BufferAccounted
  BY DEF NetInv, BufferInv
<1> QED  BY <1>1, NetInvHolds, PTL

\* No request is served before one made earlier, in an infinite buffer.
THEOREM OldestServedFirst == Spec => ServedInRequestOrder
<1>1. NetInv /\ NetInv' /\ [Next]_vars =>
        [~finite /\ Len(sendQueue') < Len(sendQueue) =>
           LET i == Dispatched(sendQueue)
           IN  \A a \in Ages : a <= sendQueue[i].age]_vars
  BY DispatchesOldest DEF NetInv
<1> QED  BY <1>1, NetInvHolds, PTL DEF Spec, ServedInRequestOrder

\* Concurrent requests are served in the order of the static schedule.
THEOREM ScheduleFollowed == Spec => ConcurrentInScheduleOrder
<1>1. NetInv /\ [Next]_vars =>
        [Len(sendQueue') < Len(sendQueue) /\ CommSchedule # <<>> =>
           \A i \in Synchronous(sendQueue) :
             Position(transfer') <= Position(sendQueue[i].from)]_vars
  <2>1. Next => NetifStep
    BY DEF Next, Progress, NetifStep, DeltaCycle, Tick, EvaluationOver
  <2> QED  BY <2>1, DispatchesScheduled DEF NetInv
<1> QED  BY <1>1, NetInvHolds, PTL DEF Spec, ConcurrentInScheduleOrder
=============================================================================
