---------------------------- MODULE TdmaBusProofs ----------------------------
(***************************************************************************)
(* Safety of the TDMA bus for any number of senders and slots, any slot,   *)
(* guard and cycle times, any channels and any allocation of the slots.    *)
(***************************************************************************)
EXTENDS TdmaBus, NumberProofs, FiniteSetTheorems

LEMMA ConstantTypes ==
  /\ NChannels \in Nat \ {0} /\ Payload \in Nat \ {0} /\ BitTime \in Nat \ {0}
  /\ SlotTime \in Nat \ {0} /\ Word \in Nat \ {0} /\ Word > NChannels + NChannels
  /\ GuardTimes \subseteq Nat /\ CycleTimes \subseteq Nat
  /\ Sizes \subseteq Nat \ {0}
  /\ \A c \in Channels : c.link \in Sender /\ c.size \in Sizes
<1>1. /\ NChannels \in Nat \ {0} /\ Payload \in Nat \ {0} /\ BitTime \in Nat \ {0}
      /\ Word \in Nat /\ Word > 2 * NChannels
      /\ GuardTimes \subseteq Nat /\ CycleTimes \subseteq Nat
      /\ \A c \in Channels : c.link \in Sender /\ c.size \in Nat \ {0}
  BY TdmaAssumption
<1>2. SlotTime \in Nat \ {0}
  <2>1. Payload * BitTime \in Nat /\ Payload * BitTime >= 1
    BY <1>1
  <2> QED  BY <2>1 DEF SlotTime
<1>3. Word \in Nat \ {0} /\ Word > NChannels + NChannels
  BY <1>1
<1> QED  BY <1>1, <1>2, <1>3 DEF Sizes

-----------------------------------------------------------------------------
\* The quotient rounded up.
LEMMA CeilingBounds ==
  ASSUME NEW a \in Nat \ {0}, NEW b \in Nat \ {0}
  PROVE  /\ Ceiling(a, b) \in Nat \ {0}
         /\ (Ceiling(a, b) - 1) * b < a /\ a <= Ceiling(a, b) * b
<1>1. PICK q \in Int, r \in 0..b - 1 : q = a \div b /\ r = a % b /\ a = q * b + r
  BY Division
<1>2. q >= 0
  <2> SUFFICES ASSUME q <= -1  PROVE FALSE
    OBVIOUS
  <2>1. q * b <= (-1) * b
    BY ProductMonotone
  <2>2. PICK x \in Int : x = q * b
    OBVIOUS
  <2>3. x <= -b
    BY <2>1, <2>2
  <2> QED  BY <1>1, <2>2, <2>3
<1>3. CASE r # 0
  <2>1. Ceiling(a, b) = q + 1
    BY <1>1, <1>3 DEF Ceiling
  <2>2. (q + 1) * b = q * b + b /\ (q + 1 - 1) * b = q * b
    OBVIOUS
  <2>3. PICK x \in Int : x = q * b
    OBVIOUS
  <2>4. x < a /\ a <= x + b
    BY <1>1, <1>3, <2>3
  <2> QED  BY <1>2, <2>1, <2>2, <2>3, <2>4
<1>4. CASE r = 0
  <2>1. Ceiling(a, b) = q /\ a = q * b
    BY <1>1, <1>4 DEF Ceiling
  <2>2. q # 0
    BY <2>1
  <2>3. (q - 1) * b = q * b - b
    OBVIOUS
  <2>4. PICK x \in Int : x = q * b
    OBVIOUS
  <2>5. x - b < a /\ a <= x
    BY <2>1, <2>4
  <2> QED  BY <1>2, <2>1, <2>2, <2>3, <2>4, <2>5
<1> QED  BY <1>3, <1>4

\* The start of the n-th slot of a sender with the k slots from f on, in cycles
\* of length c and slots, with their guard time, of length w.
Start(f, k, w, c, n) == (n \div k) * c + (f + (n % k)) * w

\* Slot n is slot r of those of the sender in cycle q.
IsSlot(n, k, q, r) == n = q * k + r

LEMMA StartSplit ==
  ASSUME NEW k \in Nat \ {0}, NEW q \in Nat, NEW r \in 0..k - 1, NEW n \in Nat, IsSlot(n, k, q, r),
         NEW f \in Nat, NEW w \in Nat, NEW c \in Nat
  PROVE  Start(f, k, w, c, n) = q * c + (f + r) * w
<1>1. n \div k = q
  BY QuotientUnique DEF IsSlot
<1>2. n % k = r
  BY RemainderUnique DEF IsSlot
<1> QED  BY <1>1, <1>2 DEF Start

LEMMA Decomposition ==
  ASSUME NEW k \in Nat \ {0}, NEW n \in Nat
  PROVE  \E q \in Nat, r \in 0..k - 1 : n = q * k + r
<1>1. PICK q \in Int, r \in 0..k - 1 : n = q * k + r
  <2>1. n \div k \in Int /\ n % k \in 0..k - 1 /\ n = (n \div k) * k + (n % k)
    BY Division
  <2> QED  BY <2>1
<1>2. q >= 0
  <2> SUFFICES ASSUME q <= -1  PROVE FALSE
    OBVIOUS
  <2>1. q * k <= (-1) * k
    BY ProductMonotone
  <2>2. PICK x \in Int : x = q * k
    OBVIOUS
  <2>3. x <= -k
    BY <2>1, <2>2
  <2> QED  BY <1>1, <2>2, <2>3
<1> QED  BY <1>1, <1>2

LEMMA StartType ==
  ASSUME NEW k \in Nat \ {0}, NEW n \in Nat, NEW f \in Nat, NEW w \in Nat, NEW c \in Nat
  PROVE  Start(f, k, w, c, n) \in Nat
<1>1. PICK q \in Nat, r \in 0..k - 1 : n = q * k + r
  BY Decomposition
<1>2. IsSlot(n, k, q, r)
  BY <1>1 DEF IsSlot
<1>3. Start(f, k, w, c, n) = q * c + (f + r) * w
  BY <1>2, StartSplit
<1>4. q * c \in Nat /\ (f + r) * w \in Nat
  BY ProductType
<1> QED  BY <1>3, <1>4

\* From a slot to the l-th one after it the bus skips at most the rest of a cycle.
LEMMA StartGap ==
  ASSUME NEW k \in Nat \ {0}, NEW n \in Nat, NEW l \in 1..k, NEW f \in Nat, NEW w \in Nat,
         NEW c \in Nat, k * w <= c
  PROVE  Start(f, k, w, c, n + l) <= Start(f, k, w, c, n) + c - (k - l) * w
<1>1. PICK q \in Nat, r \in 0..k - 1 : n = q * k + r
  BY Decomposition
<1>2. Start(f, k, w, c, n) = q * c + (f + r) * w
  <2>1. IsSlot(n, k, q, r)
    BY <1>1 DEF IsSlot
  <2> QED  BY <2>1, StartSplit
<1>3. PICK x \in Nat, fw \in Nat, rw \in Nat, lw \in Nat, kw \in Nat :
        x = q * c /\ fw = f * w /\ rw = r * w /\ lw = l * w /\ kw = k * w
  BY ProductType
<1>4. /\ (f + r) * w = fw + rw /\ (k - l) * w = kw - lw
      /\ (f + (r + l)) * w = fw + rw + lw /\ (f + (r + l - k)) * w = fw + rw + lw - kw
      /\ (q + 1) * c = x + c /\ kw <= c
  BY <1>3
<1>5. Start(f, k, w, c, n) = x + (fw + rw)
  BY <1>2, <1>3, <1>4
<1>6. CASE r + l < k
  <2>1. n + l = q * k + (r + l) /\ r + l \in 0..k - 1
    BY <1>1, <1>6
  <2>2. Start(f, k, w, c, n + l) = q * c + (f + (r + l)) * w
    <3>1. PICK m \in Nat, s \in 0..k - 1 : m = n + l /\ s = r + l
      BY <2>1
    <3>2. IsSlot(m, k, q, s)
      BY <2>1, <3>1 DEF IsSlot
    <3>3. Start(f, k, w, c, m) = q * c + (f + s) * w
      BY <3>2, StartSplit
    <3> QED  BY <3>1, <3>3
  <2>3. Start(f, k, w, c, n + l) = x + (fw + rw + lw)
    BY <1>3, <1>4, <2>2
  <2> QED  BY <1>3, <1>4, <1>5, <2>3
<1>7. CASE ~(r + l < k)
  <2>1. n + l = (q + 1) * k + (r + l - k) /\ r + l - k \in 0..k - 1
    BY <1>1, <1>7
  <2>2. Start(f, k, w, c, n + l) = (q + 1) * c + (f + (r + l - k)) * w
    <3>1. PICK m \in Nat, p \in Nat, s \in 0..k - 1 : m = n + l /\ p = q + 1 /\ s = r + l - k
      BY <2>1
    <3>2. IsSlot(m, k, p, s)
      BY <2>1, <3>1 DEF IsSlot
    <3>3. Start(f, k, w, c, m) = p * c + (f + s) * w
      BY <3>2, StartSplit
    <3> QED  BY <3>1, <3>3
  <2>3. Start(f, k, w, c, n + l) = (x + c) + (fw + rw + lw - kw)
    BY <1>3, <1>4, <2>2
  <2> QED  BY <1>3, <1>4, <1>5, <2>3
<1> QED  BY <1>6, <1>7

\* N slots with their guard time fit in the cycle.
Fits(N, w, c) == N * w <= c

\* The first slot of the sender from the time at of cycle 0 on.
FirstFrom(f, k, w, c, at) == Least({n \in 0..k : Start(f, k, w, c, n) >= at})

\* Whatever the time of the cycle a message is ready at, the l-th slot of its
\* (j + 1)-th cycle starts less than so much later.
LEMMA LastSlotStarts ==
  ASSUME NEW k \in Nat \ {0}, NEW f \in Nat, NEW w \in Nat, NEW c \in Nat, NEW N \in Nat,
         f + k <= N, Fits(N, w, c), NEW at \in 0..c - 1, NEW l \in 1..k, NEW j \in Nat,
         NEW first, first = FirstFrom(f, k, w, c, at)
  PROVE  /\ first \in Nat
         /\ Start(f, k, w, c, first + (j * k + l) - 1) <= at + j * c + c - (k - l) * w
<1> DEFINE S(n)   == Start(f, k, w, c, n)
           slots  == {n \in 0..k : S(n) >= at}
<1>1. PICK fw \in Nat, lw \in Nat, kw \in Nat, nw \in Nat, jc \in Nat :
        fw = f * w /\ lw = l * w /\ kw = k * w /\ nw = N * w /\ jc = j * c
  BY ProductType
<1>2. /\ (k - l) * w = kw - lw /\ (f + (l - 1)) * w = fw + lw - w /\ (f + k) * w = fw + kw
      /\ nw <= c
  BY <1>1 DEF Fits
<1>3. fw + kw <= nw /\ kw <= c
  <2>1. (f + k) * w <= N * w
    BY ProductMonotone
  <2> QED  BY <1>1, <1>2, <2>1
<1>4. \A n \in Nat : S(n) \in Nat
  BY StartType
<1>5. S(k) >= at
  <2>1. IsSlot(k, k, 1, 0)
    BY DEF IsSlot
  <2>2. S(k) = 1 * c + (f + 0) * w
    BY <2>1, StartSplit
  <2> QED  BY <1>1, <2>2
<1>6. first \in slots /\ \A n \in slots : first <= n
  <2>1. slots \in SUBSET Nat /\ k \in slots
    BY <1>5
  <2> HIDE DEF slots
  <2>2. Least(slots) \in slots /\ \A n \in slots : Least(slots) <= n
    BY <2>1, LeastIsLeast
  <2>3. first = Least(slots)
    BY DEF slots, FirstFrom
  <2> QED  BY <2>2, <2>3
<1>7. first \in 0..k
  BY <1>6
<1> HIDE DEF S
<1>8. PICK e \in 0..k : e = first
  BY <1>7
<1>9. PICK x \in Nat : x = j * k
  BY ProductType
<1>10. PICK last \in Nat : last = e + (x + l) - 1
  <2>1. e + (x + l) - 1 \in Nat
    OBVIOUS
  <2> QED  BY <2>1
<1>11. PICK i \in Nat : i = e + l - 1
  <2>1. e + l - 1 \in Nat
    OBVIOUS
  <2> QED  BY <2>1
<1>12. S(last) = S(i) + jc
  <2>1. PICK q \in Nat, r \in 0..k - 1 : i = q * k + r
    BY Decomposition
  <2>2. IsSlot(i, k, q, r)
    BY <2>1 DEF IsSlot
  <2>3. S(i) = q * c + (f + r) * w
    BY <2>2, StartSplit DEF S
  <2>4. PICK p \in Nat : p = q + j
    OBVIOUS
  <2>5. p * k = q * k + x /\ p * c = q * c + jc
    BY <1>1, <1>9, <2>4
  <2>6. PICK y \in Nat, z \in Nat, v \in Nat : y = q * k /\ z = q * c /\ v = (f + r) * w
    BY ProductType
  <2>7. last = i + x
    BY <1>10, <1>11
  <2>8. IsSlot(last, k, p, r)
    BY <2>1, <2>5, <2>6, <2>7 DEF IsSlot
  <2>9. S(last) = p * c + (f + r) * w
    BY <2>8, StartSplit DEF S
  <2> QED  BY <2>3, <2>5, <2>6, <2>9
<1>13. S(i) \in Nat
  BY <1>4
<1>14. S(i) <= at + c - (kw - lw)
  <2>1. CASE e = 0
    <3>1. IsSlot(i, k, 0, i) /\ i \in 0..k - 1 /\ i = l - 1
      BY <1>11, <2>1 DEF IsSlot
    <3>2. S(i) = 0 * c + (f + i) * w
      BY <3>1, StartSplit DEF S
    <3>3. S(i) = fw + lw - w
      BY <1>2, <3>1, <3>2
    <3> QED  BY <1>1, <1>2, <1>3, <3>3
  <2>2. CASE e # 0
    <3>1. PICK p \in Nat : p = e - 1
      BY <2>2
    <3>2. p \notin slots /\ p \in 0..k
      BY <1>6, <1>8, <3>1
    <3>3. S(p) < at /\ S(p) \in Nat
      BY <1>4, <3>2
    <3>4. i = p + l
      BY <1>11, <3>1
    <3>5. k * w <= c
      BY <1>1, <1>3
    <3>6. S(p + l) <= S(p) + c - (k - l) * w
      BY <3>5, StartGap DEF S
    <3>7. PICK y \in Nat, z \in Nat : y = S(p) /\ z = S(i)
      BY <1>13, <3>3
    <3>8. z <= y + c - (kw - lw) /\ y < at
      BY <1>2, <3>3, <3>4, <3>6, <3>7
    <3>9. z <= at + c - (kw - lw)
      BY <3>8
    <3> QED  BY <3>7, <3>9
  <2> QED  BY <2>1, <2>2
<1>15. S(last) <= at + jc + c - (kw - lw)
  <2>1. PICK z \in Nat : z = S(i)
    BY <1>13
  <2> QED  BY <1>12, <1>14, <2>1
<1>16. S(first + (j * k + l) - 1) <= at + j * c + c - (k - l) * w
  BY <1>1, <1>2, <1>8, <1>9, <1>10, <1>15
<1> QED  BY <1>7, <1>16 DEF S

\* A message is some full cycles of the slots of its sender, some slots of a last
\* cycle and some bits of the last of them.
LEMMA MessageSplit ==
  ASSUME NEW m \in Nat \ {0}, NEW k \in Nat \ {0}
  PROVE  /\ SlotsRequired(m) \in Nat \ {0}
         /\ Ceiling(SlotsRequired(m), k) - 1 \in Nat
         /\ LastCycleSlots(m, k) \in 1..k
         /\ SlotsRequired(m) = (Ceiling(SlotsRequired(m), k) - 1) * k + LastCycleSlots(m, k)
         /\ LastBits(m) \in 1..Payload
<1>1. /\ SlotsRequired(m) \in Nat \ {0}
      /\ (SlotsRequired(m) - 1) * Payload < m /\ m <= SlotsRequired(m) * Payload
  BY ConstantTypes, CeilingBounds DEF SlotsRequired
<1>2. PICK s \in Nat \ {0} : s = SlotsRequired(m)
  BY <1>1
<1>3. /\ Ceiling(s, k) \in Nat \ {0}
      /\ (Ceiling(s, k) - 1) * k < s /\ s <= Ceiling(s, k) * k
  BY CeilingBounds
<1>4. PICK j \in Nat : j = Ceiling(s, k) - 1
  BY <1>3
<1>5. PICK x \in Nat : x = j * k
  BY ProductType
<1>6. Ceiling(s, k) * k = x + k
  <2>1. Ceiling(s, k) = j + 1
    BY <1>3, <1>4
  <2> QED  BY <1>5, <2>1
<1>7. LastCycleSlots(m, k) = s - x
  BY <1>2, <1>4, <1>5 DEF LastCycleSlots
<1>8. x < s /\ s <= x + k
  BY <1>3, <1>4, <1>5, <1>6
<1>9. LastCycleSlots(m, k) \in 1..k /\ s = x + LastCycleSlots(m, k)
  BY <1>7, <1>8
<1>10. LastBits(m) \in 1..Payload
  <2>1. PICK y \in Int : y = (s - 1) * Payload
    BY ConstantTypes
  <2>2. s * Payload = y + Payload
    BY <2>1, ConstantTypes
  <2>3. LastBits(m) = m - y /\ y < m /\ m <= y + Payload
    BY <1>1, <1>2, <2>1, <2>2 DEF LastBits
  <2> QED  BY <2>3, ConstantTypes
<1> QED  BY <1>1, <1>2, <1>4, <1>5, <1>9, <1>10

-----------------------------------------------------------------------------
LEMMA ProductSpreads ==
  ASSUME NEW k \in Int, NEW l \in Int, NEW T \in Int, NEW g \in Int
  PROVE  /\ (k - l) * (T + g) = (k * T - l * T) + (k * g - l * g)
         /\ (k - 1) * T = k * T - T /\ k * (T + g) = k * T + k * g
OBVIOUS

\* The cycle has room for all the slots with their guard times.
CycleFits ==
  /\ guard \in Nat /\ cycle \in Nat /\ level \in 0..2
  /\ cycle >= NChannels * (SlotTime + guard)

\* The maximum delay leaves out the slots of the sender that follow the last one
\* used, and nothing else of the cycles that a message takes at most.
LEMMA DelayBound ==
  ASSUME NEW k \in 1..NChannels, NEW m \in Sizes, CycleFits,
         NEW w \in Nat, w = SlotTime + guard,
         NEW j \in Nat, j = Ceiling(SlotsRequired(m), k) - 1,
         NEW l \in 1..k, l = LastCycleSlots(m, k)
  PROVE  /\ MaxOffset(k) \in Nat /\ MaxP2Pdelay(m, k) \in Nat
         /\ MaxP2Pdelay(m, k) >= j * cycle + cycle - (k - l) * w + LastBits(m) * BitTime
<1>1. PICK c \in Nat, g \in Nat, T \in Nat \ {0} : c = cycle /\ g = guard /\ T = SlotTime
  BY ConstantTypes DEF CycleFits
<1>0. k \in Nat /\ l \in Nat
  BY ConstantTypes
<1>2. w = T + g /\ NChannels \in Nat /\ NChannels * w <= c
  BY <1>1, ConstantTypes DEF CycleFits
<1>3. PICK jc \in Nat, kT \in Nat, lT \in Nat, kg \in Nat, lg \in Nat :
        jc = j * c /\ kT = k * T /\ lT = l * T /\ kg = k * g /\ lg = l * g
  <2>1. j * c \in Nat /\ k * T \in Nat /\ l * T \in Nat /\ k * g \in Nat /\ l * g \in Nat
    BY <1>0, ProductType
  <2> QED  BY <2>1
<1>4. /\ (k - l) * w = (kT - lT) + (kg - lg) /\ (k - 1) * T = kT - T /\ (l - 1) * T = lT - T
      /\ k * w = kT + kg
  BY <1>0, <1>2, <1>3, ProductSpreads
<1>5. lT <= kT /\ lg <= kg
  BY <1>3, ProductMonotone
<1>6. kT + kg <= c
  <2>1. k * w <= NChannels * w
    BY <1>2, ProductMonotone
  <2>2. PICK x \in Int : x = NChannels * w
    BY <1>2
  <2> QED  BY <1>2, <1>4, <2>1, <2>2
<1>7. T <= lT /\ g <= lg
  <2>1. 1 * T <= l * T /\ 1 * g <= l * g
    BY ProductMonotone
  <2> QED  BY <1>3, <2>1
<1>8. PICK b \in Nat : b = LastBits(m) * BitTime /\ b <= T
  <2>1. LastBits(m) \in 1..Payload /\ BitTime \in Nat /\ Payload \in Nat
    BY MessageSplit, ConstantTypes
  <2>2. LastBits(m) * BitTime <= Payload * BitTime
    BY <2>1, ProductMonotone
  <2>3. LastBits(m) * BitTime \in Nat
    BY <2>1, ProductType
  <2> QED  BY <1>1, <2>2, <2>3 DEF SlotTime
<1>9. MaxOffset(k) = c - (kT - T) /\ MaxOffset(k) \in Nat
  BY <1>1, <1>4, <1>6 DEF MaxOffset
<1>10. j * cycle + cycle - (k - l) * w + LastBits(m) * BitTime = jc + c - ((kT - lT) + (kg - lg)) + b
  BY <1>1, <1>3, <1>4, <1>8
<1>11. CASE level = 0
  <2>1. DataDelayL0(m, k) = jc + (lT - T) + b
    BY <1>1, <1>3, <1>4, <1>8 DEF DataDelayL0, LastBits
  <2>2. MaxP2Pdelay(m, k) = (c - (kT - T)) + (jc + (lT - T) + b)
    BY <1>9, <1>11, <2>1 DEF MaxP2Pdelay
  <2> QED  BY <1>5, <1>6, <1>7, <1>9, <1>10, <2>2
<1>12. CASE level = 1
  <2>1. DataDelayL1(m, k) = jc + lT
    BY <1>1, <1>3 DEF DataDelayL1
  <2>2. MaxP2Pdelay(m, k) = (c - (kT - T)) + (jc + lT)
    BY <1>9, <1>12, <2>1 DEF MaxP2Pdelay
  <2> QED  BY <1>5, <1>6, <1>7, <1>8, <1>9, <1>10, <2>2
<1>13. CASE level = 2
  <2>1. Ceiling(SlotsRequired(m), k) + 1 = j + 2
    <3>1. PICK s \in Nat \ {0} : s = SlotsRequired(m)
      BY MessageSplit, ConstantTypes
    <3>2. Ceiling(s, k) \in Nat
      BY CeilingBounds, ConstantTypes
    <3> QED  BY <3>1, <3>2
  <2>2. (j + 2) * c = jc + c + c
    BY <1>3
  <2>3. MaxP2Pdelay(m, k) = jc + c + c
    BY <1>1, <1>13, <2>1, <2>2 DEF MaxP2Pdelay
  <2> QED  BY <1>5, <1>6, <1>7, <1>8, <1>9, <1>10, <2>3
<1> QED  BY <1>11, <1>12, <1>13 DEF CycleFits

\* The maximum delay covers the transmission of a message in slots within the cycle.
LEMMA DelayCovers ==
  ASSUME NEW s \in Sender, NEW m \in Sizes, CycleFits, NEW at \in 0..cycle - 1,
         alloc[s].first \in Nat, alloc[s].slots \in 1..NChannels,
         alloc[s].first + alloc[s].slots <= NChannels
  PROVE  /\ TransmissionTime(s, m, at) \in Int
         /\ MaxP2Pdelay(m, alloc[s].slots) >= TransmissionTime(s, m, at)
<1>1. PICK f \in Nat, k \in 1..NChannels : f = alloc[s].first /\ k = alloc[s].slots
  OBVIOUS
<1>2. PICK c \in Nat, w \in Nat : c = cycle /\ w = SlotTime + guard
  BY ConstantTypes DEF CycleFits
<1>3. NChannels \in Nat /\ NChannels * w <= c /\ f + k <= NChannels /\ k \in Nat \ {0} /\ at \in 0..c - 1
  BY <1>1, <1>2, ConstantTypes DEF CycleFits
<1>4. m \in Nat \ {0}
  BY ConstantTypes
<1>5. PICK j \in Nat, l \in 1..k : j = Ceiling(SlotsRequired(m), k) - 1 /\ l = LastCycleSlots(m, k)
  BY <1>3, <1>4, MessageSplit
<1>6. SlotsRequired(m) = j * k + l
  BY <1>3, <1>4, <1>5, MessageSplit
<1>7. \A n : SlotStart(s, n) = Start(f, k, w, c, n)
  BY <1>1, <1>2 DEF SlotStart, Start
<1>8. FirstSlot(s, at) = FirstFrom(f, k, w, c, at) /\ Fits(NChannels, w, c)
  BY <1>1, <1>3, <1>7 DEF FirstSlot, FirstFrom, Fits
<1>9. PICK first : first = FirstSlot(s, at)
  OBVIOUS
<1>10. /\ first \in Nat
       /\ Start(f, k, w, c, first + (j * k + l) - 1) <= at + j * c + c - (k - l) * w
  BY <1>3, <1>8, <1>9, LastSlotStarts
<1>11. PICK b \in Nat : b = LastBits(m) * BitTime
  <2>1. LastBits(m) \in 1..Payload
    BY <1>3, <1>4, MessageSplit
  <2>2. BitTime \in Nat /\ Payload \in Nat
    BY ConstantTypes
  <2>3. LastBits(m) \in Nat
    BY <2>1, <2>2
  <2> QED  BY <2>2, <2>3, ProductType
<1>12. PICK x \in Int : x = j * c + c - (k - l) * w
  <2>1. j * c + c - (k - l) * w \in Int
    BY <1>3
  <2> QED  BY <2>1
<1>13. PICK z \in Nat : z = Start(f, k, w, c, first + (j * k + l) - 1)
  <2>1. first + (j * k + l) - 1 \in Nat
    <3>1. PICK y \in Nat : y = j * k
      BY <1>3, ProductType
    <3> QED  BY <1>3, <1>10, <3>1
  <2>2. PICK n \in Nat : n = first + (j * k + l) - 1
    BY <2>1
  <2>3. Start(f, k, w, c, n) \in Nat
    BY <1>3, StartType
  <2> QED  BY <2>2, <2>3
<1>14. z <= at + x
  BY <1>3, <1>10, <1>12, <1>13
<1>15. TransmissionTime(s, m, at) = z + b - at
  <2>1. SlotStart(s, FirstSlot(s, at) + SlotsRequired(m) - 1) = z
    BY <1>6, <1>7, <1>9, <1>13
  <2> QED  BY <1>11, <2>1 DEF TransmissionTime
<1>16. MaxP2Pdelay(m, k) \in Nat /\ MaxP2Pdelay(m, k) >= x + b
  <2>1. /\ MaxP2Pdelay(m, k) \in Nat
        /\ MaxP2Pdelay(m, k) >= j * cycle + cycle - (k - l) * w + LastBits(m) * BitTime
    BY <1>2, <1>5, DelayBound
  <2> QED  BY <1>2, <1>11, <1>12, <2>1
<1> QED  BY <1>1, <1>3, <1>14, <1>15, <1>16

-----------------------------------------------------------------------------
(***************************************************************************)
(* The inductive invariant.                                                *)
(***************************************************************************)
\* As long as nobody has chosen a first slot the bus hands its slots out in
\* order: what is free is the one range behind the slots allocated.
AutoAllocated ==
  ~manual =>
    /\ free = IF nAllocated = NChannels THEN <<>>
              ELSE <<[first |-> nAllocated, last |-> NChannels - 1]>>
    /\ \A s \in Senders : alloc[s].first + alloc[s].slots <= nAllocated
    /\ \A s, u \in Senders : s # u => \/ alloc[s].first + alloc[s].slots <= alloc[u].first
                                      \/ alloc[u].first + alloc[u].slots <= alloc[s].first

\* The cycle that before_end_of_elaboration has checked goes on being long enough.
Checked == Elaborated => cycle >= NChannels * (SlotTime + guard)

\* Nothing of a link is known before the slots have been allocated.
Untouched ==
  status = "elaboration" =>
    toMap = Channels /\ answer = NoAnswer /\ \A s \in Sender, m \in Sizes : ~info[s][m].known

\* The maximum delay of the link for the message size.
MaxDelay(s, m) == MaxP2Pdelay(m, alloc[s].slots)
Cached(s, m)   == info[s][m].known /\ info[s][m].max = MaxDelay(s, m)

\* A channel that is mapped has slots; in the worst case every entry is right.
Mapped ==
  Elaborated =>
    /\ status = "running" => toMap = {}
    /\ status = "mapping" => answer = NoAnswer
    /\ \A c \in Channels \ toMap : alloc[c.link].slots > 0
    /\ worstCase => \A s \in Sender, m \in Sizes : info[s][m].known => Cached(s, m)

\* A delay answered in the worst case is the maximum one of a link in use.
AnswerRight ==
  status = "running" /\ answer # NoAnswer =>
    /\ answer.link \in Sender /\ answer.size \in Sizes /\ InUse(answer.link, answer.size)
    /\ answer.kind = "max" => answer.delay = MaxDelay(answer.link, answer.size)

Inv == TypeOK /\ AutoAllocated /\ Checked /\ Untouched /\ Mapped /\ AnswerRight

LEMMA InitInv == Init => Inv
<1> SUFFICES ASSUME Init  PROVE Inv
  OBVIOUS
<1>1. status = "elaboration" /\ ~Elaborated
  BY DEF Init, Elaborated
<1>2. Senders = {}
  BY DEF Init, Senders
<1>3. [first |-> 0, last |-> NChannels - 1] \in [first : 0..(Word - 1), last : 0..(NChannels - 1)]
  BY ConstantTypes
<1>4. free \in Seq([first : 0..(Word - 1), last : 0..(NChannels - 1)])
  BY <1>3 DEF Init
<1>5. NoSlots \in [first : 0..(Word - 1), slots : 0..NChannels]
  BY ConstantTypes DEF NoSlots
<1>6. NoInfo \in [known : BOOLEAN, max : Nat] /\ ~NoInfo.known
  BY DEF NoInfo
<1>7. nAllocated \in 0..NChannels /\ 0 # NChannels
  BY ConstantTypes DEF Init
<1>8. TypeOK
  <2>1. alloc \in [Sender -> [first : 0..(Word - 1), slots : 0..NChannels]]
    <3> HIDE DEF NoSlots
    <3> QED  BY <1>5 DEF Init
  <2>2. info \in [Sender -> [Sizes -> [known : BOOLEAN, max : Nat]]]
    BY <1>6 DEF Init
  <2>3. guard \in Nat /\ cycle \in Nat /\ level \in 0..2 /\ worstCase \in BOOLEAN
    BY DEF Init
  <2> QED  BY <1>1, <1>4, <1>7, <2>1, <2>2, <2>3 DEF Init, TypeOK
<1>9. AutoAllocated
  BY <1>2, <1>7 DEF Init, AutoAllocated
<1>10. Untouched
  BY <1>6 DEF Init, Untouched
<1> QED  BY <1>1, <1>8, <1>9, <1>10 DEF Inv, Checked, Mapped, AnswerRight

LEMMA RangeType ==
  ASSUME TypeOK, NEW i \in 1..Len(free)
  PROVE  /\ free[i] \in [first : 0..(Word - 1), last : 0..(NChannels - 1)]
         /\ free[i].first \in 0..(Word - 1) /\ free[i].first \in Nat
<1> DEFINE R == [first : 0..(Word - 1), last : 0..(NChannels - 1)]
<1>1. free \in Seq(R)
  BY DEF TypeOK
<1>2. free[i] \in R
  <2> HIDE DEF R
  <2> QED  BY <1>1
<1> QED  BY <1>2, ConstantTypes

\* A range of the table that gives slots leaves a table of its kind.
LEMMA TakenType ==
  ASSUME TypeOK, NEW i \in 1..Len(free), NEW first \in Nat, NEW req \in Nat
  PROVE  Taken(i, first, req) \in Seq([first : 0..(Word - 1), last : 0..(NChannels - 1)])
<1> DEFINE R == [first : 0..(Word - 1), last : 0..(NChannels - 1)]
<1>1. free \in Seq(R)
  BY DEF TypeOK
<1>2. (first + req) % Word \in 0..(Word - 1)
  <2>1. PICK x \in Nat : x = first + req
    OBVIOUS
  <2>2. x \in Int /\ Word \in Nat \ {0}
    BY ConstantTypes
  <2>3. x % Word \in 0..(Word - 1)
    BY <2>2, Division
  <2> QED  BY <2>1, <2>3
<1>3. free[i] \in R
  BY RangeType
<1>4. [free[i] EXCEPT !.first = (first + req) % Word] \in R
  BY <1>2, <1>3
<1> HIDE DEF R
<1>5. SubSeq(free, 1, i - 1) \o SubSeq(free, i + 1, Len(free)) \in Seq(R)
  BY <1>1
<1>6. [free EXCEPT ![i].first = (first + req) % Word] \in Seq(R)
  BY <1>1, <1>4
<1> QED  BY <1>5, <1>6 DEF Taken, R

\* An allocation touches nothing of what the later phases rely on.
LEMMA StillElaborating ==
  ASSUME Inv, status = "elaboration", UNCHANGED allocFrame,
         status' \in {"elaboration", "error", "endless_loop"}
  PROVE  Checked' /\ Untouched' /\ Mapped' /\ AnswerRight'
<1>1. ~Elaborated' /\ status' # "running"
  BY DEF Elaborated
<1>2. Untouched'
  BY DEF Inv, Untouched, allocFrame
<1> QED  BY <1>1, <1>2 DEF Checked, Mapped, AnswerRight

LEMMA TablesKept ==
  ASSUME Inv, UNCHANGED <<free, alloc, nAllocated, manual>>
  PROVE  AutoAllocated'
BY DEF Inv, AutoAllocated, Senders

\* A request that is refused changes the status at most.
LEMMA RefusedInv ==
  ASSUME Inv, status = "elaboration", UNCHANGED allocFrame,
         status' \in {"elaboration", "error", "endless_loop"},
         UNCHANGED <<free, alloc, nAllocated>>, manual' \in BOOLEAN, manual => manual'
  PROVE  Inv'
<1>1. TypeOK'
  BY DEF Inv, TypeOK, allocFrame
<1>2. AutoAllocated'
  BY DEF Inv, AutoAllocated, Senders, TypeOK
<1> QED  BY <1>1, <1>2, StillElaborating DEF Inv

\* A request that is granted keeps the types.
LEMMA GrantedType ==
  ASSUME Inv, status = "elaboration", UNCHANGED allocFrame, manual' \in BOOLEAN,
         NEW s \in Sender, NEW req \in 1..NChannels, ~TooManySlots(req),
         NEW first \in 0..(Word - 1), Allocated(s, first, req),
         NEW i \in 1..Len(free), NEW taken \in Nat, NEW number \in Nat, free' = Taken(i, taken, number)
  PROVE  TypeOK'
<1>1. free' \in Seq([first : 0..(Word - 1), last : 0..(NChannels - 1)])
  BY TakenType DEF Inv
<1>2. alloc' \in [Sender -> [first : 0..(Word - 1), slots : 0..NChannels]]
  BY ConstantTypes DEF Inv, TypeOK, Allocated
<1>3. nAllocated' \in 0..NChannels
  BY ConstantTypes DEF Inv, TypeOK, Allocated, TooManySlots
<1> QED  BY <1>1, <1>2, <1>3 DEF Inv, TypeOK, allocFrame, Allocated

\* The range that automatic allocation finds.
LEMMA AutoRange ==
  ASSUME Inv, ~manual, nAllocated # NChannels
  PROVE  /\ free = <<[first |-> nAllocated, last |-> NChannels - 1]>>
         /\ Len(free) = 1 /\ Visited = {1} /\ free[1].first = nAllocated
         /\ Room(free[1]) = NChannels - nAllocated
<1>1. free = <<[first |-> nAllocated, last |-> NChannels - 1]>>
  BY DEF Inv, AutoAllocated
<1>2. Len(free) = 1 /\ free[1] = [first |-> nAllocated, last |-> NChannels - 1]
  BY <1>1
<1>3. Visited = {1}
  <2>1. 1 % 2 = 1
    BY RemainderSmall
  <2>2. 1..Len(free) = {1}
    BY <1>2
  <2> QED  BY <2>1, <2>2 DEF Visited
<1>4. free[1].first = nAllocated /\ free[1].last = NChannels - 1
  BY <1>2
<1>5. PICK x \in 0..Word - 1 : x = NChannels - nAllocated
  <2>1. NChannels - nAllocated \in 0..Word - 1
    BY ConstantTypes DEF Inv, TypeOK
  <2> QED  BY <2>1
<1>6. free[1].last - free[1].first + 1 = x
  BY <1>4, <1>5, ConstantTypes DEF Inv, TypeOK
<1>7. x % Word = x
  BY ConstantTypes, RemainderSmall
<1> QED  BY <1>1, <1>2, <1>3, <1>4, <1>5, <1>6, <1>7 DEF Room

LEMMA AllocateInv ==
  ASSUME Inv, NEW s \in Sender, NEW req \in 1..NChannels, Allocate(s, req)
  PROVE  Inv'
<1> DEFINE fits == {i \in Visited : req <= Room(free[i])}
           i == Least(fits)
<1>1. status = "elaboration" /\ UNCHANGED manual /\ UNCHANGED allocFrame /\ manual' \in BOOLEAN
  BY DEF Allocate, Inv, TypeOK
<1>2. CASE TooManySlots(req)
  <2>1. status' = "error" /\ UNCHANGED <<free, alloc, nAllocated>>
    BY <1>2 DEF Allocate
  <2> QED  BY <1>1, <2>1, RefusedInv
<1>3. CASE ~TooManySlots(req) /\ fits = {}
  <2>1. NotAllocated
    BY <1>3 DEF Allocate
  <2>2. status' \in {"elaboration", "error", "endless_loop"} /\ UNCHANGED <<free, alloc, nAllocated>>
    BY <2>1 DEF NotAllocated
  <2> QED  BY <1>1, <2>2, RefusedInv
<1>4. CASE ~TooManySlots(req) /\ fits # {}
  <2>1. free' = Taken(i, free[i].first, req) /\ Allocated(s, free[i].first, req)
    BY <1>4 DEF Allocate
  <2>2. i \in fits
    <3>1. fits \in SUBSET Nat
      BY DEF Visited, Inv, TypeOK
    <3> HIDE DEF fits
    <3> QED  BY <1>4, <3>1, LeastIsLeast
  <2>3. i \in 1..Len(free) /\ i \in Visited
    BY <2>2 DEF Visited
  <2> HIDE DEF i, fits
  <2>4. free[i].first \in 0..(Word - 1) /\ free[i].first \in Nat
    BY <2>3, RangeType DEF Inv
  <2>5. TypeOK'
    <3>1. PICK e \in 1..Len(free), first \in 0..(Word - 1) : e = i /\ first = free[i].first
      BY <2>3, <2>4
    <3>2. free' = Taken(e, first, req) /\ Allocated(s, first, req) /\ first \in Nat /\ req \in Nat
      BY <2>1, <2>4, <3>1
    <3> QED  BY <1>1, <1>4, <3>2, GrantedType
  <2>6. ASSUME ~manual'  PROVE /\ free' = IF nAllocated' = NChannels THEN <<>>
                                        ELSE <<[first |-> nAllocated', last |-> NChannels - 1]>>
                             /\ alloc' = [alloc EXCEPT ![s] = [first |-> nAllocated, slots |-> req]]
                             /\ nAllocated' = nAllocated + req
    <3>1. ~manual /\ nAllocated # NChannels
      BY <1>1, <1>4, <2>6, ConstantTypes DEF TooManySlots, Inv, TypeOK
    <3>2. i = 1 /\ free[i].first = nAllocated
      BY <2>3, <3>1, AutoRange
    <3>3. nAllocated' = nAllocated + req /\ alloc' = [alloc EXCEPT ![s] = [first |-> nAllocated, slots |-> req]]
      BY <2>1, <3>2 DEF Allocated
    <3>4. PICK n \in Nat : n = nAllocated /\ n + req <= NChannels
      BY <1>4, ConstantTypes DEF Inv, TypeOK, TooManySlots
    <3>5. free' = Taken(1, n, req) /\ free = <<[first |-> n, last |-> NChannels - 1]>>
          /\ Len(free) = 1 /\ Room(free[1]) = NChannels - n
      BY <2>1, <3>1, <3>2, <3>4, AutoRange
    <3>6. CASE req = NChannels - n
      <4>1. free' = SubSeq(free, 1, 0) \o SubSeq(free, 2, 1)
        BY <3>5, <3>6 DEF Taken
      <4>2. SubSeq(free, 1, 0) = <<>> /\ SubSeq(free, 2, 1) = <<>>
        BY DEF Inv, TypeOK
      <4>3. free' = <<>>
        BY <4>1, <4>2
      <4>4. nAllocated' = NChannels
        BY <3>3, <3>4, <3>6, ConstantTypes
      <4> QED  BY <3>3, <4>3, <4>4
    <3>7. CASE req # NChannels - n
      <4>1. (n + req) % Word = n + req
        <5>1. PICK x \in 0..Word - 1 : x = n + req
          <6>1. n + req \in 0..Word - 1
            BY <3>4, ConstantTypes
          <6> QED  BY <6>1
        <5>2. x % Word = x
          BY ConstantTypes, RemainderSmall
        <5> QED  BY <5>1, <5>2
      <4>2. free' = [free EXCEPT ![1].first = n + req]
        BY <3>5, <3>7, <4>1 DEF Taken
      <4>3. free' = <<[first |-> n + req, last |-> NChannels - 1]>>
        BY <3>5, <4>2
      <4>4. nAllocated' = n + req /\ nAllocated' # NChannels
        BY <3>3, <3>4, <3>7, ConstantTypes
      <4> QED  BY <3>3, <4>3, <4>4
    <3> QED  BY <3>6, <3>7
  <2>7. AutoAllocated'
    <3> SUFFICES ASSUME ~manual'
                 PROVE  /\ \A v \in Senders' : alloc'[v].first + alloc'[v].slots <= nAllocated'
                        /\ \A v, u \in Senders' :
                             v # u => \/ alloc'[v].first + alloc'[v].slots <= alloc'[u].first
                                      \/ alloc'[u].first + alloc'[u].slots <= alloc'[v].first
      BY <2>6 DEF AutoAllocated
    <3>1. ~manual /\ alloc' = [alloc EXCEPT ![s] = [first |-> nAllocated, slots |-> req]]
          /\ nAllocated' = nAllocated + req
      BY <1>1, <2>6
    <3>2. \A v \in Sender : alloc'[v] = IF v = s THEN [first |-> nAllocated, slots |-> req] ELSE alloc[v]
      BY <3>1 DEF Inv, TypeOK
    <3>3. \A v \in Senders' : v # s => v \in Senders /\ alloc'[v] = alloc[v]
      BY <3>2 DEF Senders
    <3>4. alloc'[s].first = nAllocated /\ alloc'[s].slots = req
      BY <3>2
    <3>5. \A v \in Senders : alloc[v].first \in Nat /\ alloc[v].slots \in Nat
      BY ConstantTypes DEF Inv, TypeOK, Senders
    <3>6. nAllocated \in Nat /\ req \in Nat
      BY ConstantTypes DEF Inv, TypeOK
    <3>7. \A v \in Senders : alloc[v].first + alloc[v].slots <= nAllocated
      BY <3>1 DEF Inv, AutoAllocated
    <3>8. \A v, u \in Senders : v # u => \/ alloc[v].first + alloc[v].slots <= alloc[u].first
                                         \/ alloc[u].first + alloc[u].slots <= alloc[v].first
      BY <3>1 DEF Inv, AutoAllocated
    <3>9. ASSUME NEW v \in Senders'  PROVE alloc'[v].first + alloc'[v].slots <= nAllocated'
      <4>1. CASE v = s
        BY <3>1, <3>4, <3>6, <4>1
      <4>2. CASE v # s
        BY <3>1, <3>3, <3>5, <3>6, <3>7, <4>2
      <4> QED  BY <4>1, <4>2
    <3>10. ASSUME NEW v \in Senders', NEW u \in Senders', v # u
           PROVE  \/ alloc'[v].first + alloc'[v].slots <= alloc'[u].first
                  \/ alloc'[u].first + alloc'[u].slots <= alloc'[v].first
      <4>1. CASE v = s
        BY <3>3, <3>4, <3>7, <3>10, <4>1
      <4>2. CASE u = s
        BY <3>3, <3>4, <3>7, <3>10, <4>2
      <4>3. CASE v # s /\ u # s
        BY <3>3, <3>8, <3>10, <4>3
      <4> QED  BY <4>1, <4>2, <4>3
    <3> QED  BY <3>9, <3>10
  <2>8. status' \in {"elaboration", "error", "endless_loop"}
    BY <1>1, <2>1 DEF Allocated
  <2> QED  BY <1>1, <2>5, <2>7, <2>8, StillElaborating DEF Inv
<1> QED  BY <1>2, <1>3, <1>4

LEMMA AllocateManuallyInv ==
  ASSUME Inv, NEW s \in Sender, NEW req \in 1..NChannels, NEW first \in 0..(NChannels - 1),
         AllocateManually(s, req, first)
  PROVE  Inv'
<1> DEFINE fits == {i \in Visited : req \in free[i].first..free[i].last /\ first <= Room(free[i])}
           i == Least(fits)
<1>1. status = "elaboration" /\ manual' = TRUE /\ manual' \in BOOLEAN /\ UNCHANGED allocFrame
  BY DEF AllocateManually
<1>2. CASE TooManySlots(req)
  <2>1. status' = "error" /\ UNCHANGED <<free, alloc, nAllocated>>
    BY <1>2 DEF AllocateManually
  <2> QED  BY <1>1, <2>1, RefusedInv
<1>3. CASE ~TooManySlots(req) /\ fits = {}
  <2>1. NotAllocated
    BY <1>3 DEF AllocateManually
  <2>2. status' \in {"elaboration", "error", "endless_loop"} /\ UNCHANGED <<free, alloc, nAllocated>>
    BY <2>1 DEF NotAllocated
  <2> QED  BY <1>1, <2>2, RefusedInv
<1>4. CASE ~TooManySlots(req) /\ fits # {}
  <2>1. free' = Taken(i, req, first) /\ Allocated(s, first, req)
    BY <1>4 DEF AllocateManually
  <2>2. i \in fits
    <3>1. fits \in SUBSET Nat
      BY DEF Visited, Inv, TypeOK
    <3> HIDE DEF fits
    <3> QED  BY <1>4, <3>1, LeastIsLeast
  <2>3. i \in 1..Len(free)
    BY <2>2 DEF Visited
  <2>4. first \in 0..(Word - 1) /\ first \in Nat /\ req \in Nat
    BY ConstantTypes
  <2> HIDE DEF i, fits
  <2>5. TypeOK'
    BY <1>1, <1>4, <2>1, <2>3, <2>4, GrantedType
  <2>6. AutoAllocated'
    BY <1>1 DEF AutoAllocated
  <2>7. status' \in {"elaboration", "error", "endless_loop"}
    BY <1>1, <2>1 DEF Allocated
  <2> QED  BY <1>1, <2>5, <2>6, <2>7, StillElaborating DEF Inv
<1> QED  BY <1>2, <1>3, <1>4

LEMMA ElaborateInv ==
  ASSUME Inv, Elaborate
  PROVE  Inv'
<1>1. status = "elaboration" /\ UNCHANGED <<free, alloc, nAllocated, manual, worstCase, toMap, info, answer>>
  BY DEF Elaborate
<1>2. guard' \in Nat /\ level' \in 0..2
  BY ConstantTypes DEF Elaborate
<1>3. PICK needed \in Nat : needed = NChannels * (SlotTime + guard')
  <2>1. PICK g \in Nat, T \in Nat : g = guard' /\ T = SlotTime
    BY <1>2, ConstantTypes
  <2>2. T + g \in Nat /\ NChannels \in Nat
    BY ConstantTypes
  <2>3. NChannels * (T + g) \in Nat
    BY <2>2, ProductType
  <2> QED  BY <2>1, <2>3
<1>4. PICK c \in CycleTimes :
        /\ cycle' = IF c = 0 THEN needed ELSE c
        /\ status' = IF nAllocated <= NChannels /\ cycle' >= needed /\ AllocationChecked
                     THEN "mapping" ELSE "error"
  BY <1>3 DEF Elaborate
<1>5. cycle' \in Nat
  BY <1>4, ConstantTypes
<1>6. TypeOK'
  BY <1>1, <1>2, <1>4, <1>5 DEF Inv, TypeOK
<1>7. AutoAllocated'
  BY <1>1, TablesKept
<1>8. Checked'
  <2> SUFFICES ASSUME status' = "mapping"  PROVE cycle' >= needed
    BY <1>3, <1>4 DEF Checked, Elaborated
  <2> QED  BY <1>4
<1>9. toMap' = Channels /\ answer' = NoAnswer /\ \A s \in Sender, m \in Sizes : ~info'[s][m].known
  BY <1>1 DEF Inv, Untouched
<1>10. status' \in {"mapping", "error"}
  BY <1>4
<1>11. Untouched' /\ AnswerRight'
  BY <1>10 DEF Untouched, AnswerRight
<1>12. Mapped'
  BY <1>9, <1>10 DEF Mapped
<1> QED  BY <1>6, <1>7, <1>8, <1>11, <1>12 DEF Inv

-----------------------------------------------------------------------------
LEMMA DelayKept ==
  ASSUME UNCHANGED <<cycle, guard, level, alloc>>, NEW s, NEW m
  PROVE  MaxDelay(s, m)' = MaxDelay(s, m)
BY DEF MaxDelay, MaxP2Pdelay, MaxOffset, DataDelayL0, DataDelayL1

\* The tests of the elaboration, as facts on the cycle and the slots of a channel
\* that is mapped.
LEMMA CycleChecked ==
  ASSUME Inv, Elaborated
  PROVE  CycleFits
BY DEF Inv, TypeOK, Checked, CycleFits

LEMMA DelayType ==
  ASSUME Inv, Elaborated, NEW s \in Sender, alloc[s].slots # 0, NEW m \in Sizes
  PROVE  MaxDelay(s, m) \in Nat /\ MaxOffset(alloc[s].slots) \in Nat
<1>1. PICK k \in 1..NChannels : k = alloc[s].slots
  BY ConstantTypes DEF Inv, TypeOK
<1>2. m \in Nat \ {0} /\ k \in Nat \ {0}
  BY ConstantTypes
<1>3. PICK j \in Nat, l \in 1..k : j = Ceiling(SlotsRequired(m), k) - 1 /\ l = LastCycleSlots(m, k)
  BY <1>2, MessageSplit
<1>4. PICK w \in Nat : w = SlotTime + guard
  BY ConstantTypes DEF Inv, TypeOK
<1>5. MaxOffset(k) \in Nat /\ MaxP2Pdelay(m, k) \in Nat
  BY <1>3, <1>4, CycleChecked, DelayBound
<1> QED  BY <1>1, <1>5 DEF MaxDelay

LEMMA CheckedKept ==
  ASSUME Checked, Elaborated' => Elaborated, UNCHANGED <<cycle, guard>>
  PROVE  Checked'
BY DEF Checked

\* The tables of cached delays.
InfoTable == [Sender -> [Sizes -> [known : BOOLEAN, max : Nat]]]

LEMMA EntryType ==
  ASSUME NEW table \in InfoTable, NEW s \in Sender, NEW m \in Sizes
  PROVE  table[s][m].max \in Nat
<1> DEFINE I == [known : BOOLEAN, max : Nat]
<1>1. table[s][m] \in I
  <2>1. table \in [Sender -> [Sizes -> I]]
    BY DEF InfoTable
  <2> HIDE DEF I
  <2> QED  BY <2>1
<1> QED  BY <1>1

\* add_link leaves a table of its kind that knows nothing of the link.
LEMMA AddLinkType ==
  ASSUME TypeOK, NEW s \in Sender
  PROVE  /\ AddLink(s) \in [Sender -> [Sizes -> [known : BOOLEAN, max : Nat]]]
         /\ AddLink(s) \in InfoTable /\ \A m \in Sizes : AddLink(s)[s][m] = NoInfo
<1> DEFINE I == [known : BOOLEAN, max : Nat]
           new == [m \in Sizes |-> NoInfo]
<1>1. NoInfo \in I
  BY DEF NoInfo
<1>2. info \in [Sender -> [Sizes -> I]]
  BY DEF TypeOK
<1>3. AddLink(s) = [info EXCEPT ![s] = new]
  BY DEF AddLink
<1>4. new \in [Sizes -> I]
  <2> HIDE DEF I, NoInfo
  <2> QED  BY <1>1
<1>5. \A m \in Sizes : new[m] = NoInfo
  OBVIOUS
<1> HIDE DEF I, new
<1>6. AddLink(s) \in [Sender -> [Sizes -> I]] /\ AddLink(s)[s] = new
  BY <1>2, <1>3, <1>4
<1> QED  BY <1>5, <1>6 DEF I, InfoTable

\* set_MaxP2Pdelay leaves a table of its kind.
LEMMA SetMaxType ==
  ASSUME NEW table \in InfoTable, NEW s \in Sender, NEW m \in Sizes, MaxDelay(s, m) \in Nat
  PROVE  SetMaxP2Pdelay(table, s, m) \in InfoTable
<1> DEFINE I == [known : BOOLEAN, max : Nat]
           entry == [known |-> TRUE, max |-> MaxDelay(s, m)]
<1>1. entry \in I /\ table \in [Sender -> [Sizes -> I]]
  BY DEF InfoTable
<1>2. SetMaxP2Pdelay(table, s, m) = [table EXCEPT ![s][m] = entry]
  BY DEF SetMaxP2Pdelay, MaxDelay
<1> HIDE DEF I, entry
<1>3. SetMaxP2Pdelay(table, s, m) \in [Sender -> [Sizes -> I]]
  BY <1>1, <1>2
<1> QED  BY <1>3 DEF I, InfoTable

LEMMA MapChannelInv ==
  ASSUME Inv, NEW c \in toMap, MapChannel(c)
  PROVE  Inv'
<1>1. /\ status = "mapping" /\ Elaborated /\ toMap' = toMap \ {c}
      /\ UNCHANGED <<free, alloc, nAllocated, manual, guard, cycle, level, worstCase, answer>>
  BY DEF MapChannel, Elaborated
<1>2. c \in Channels /\ c.link \in Sender /\ c.size \in Sizes
  BY ConstantTypes DEF Inv, TypeOK
<1>3. AutoAllocated'
  BY <1>1, TablesKept
<1>4. CASE alloc[c.link].slots = 0
  <2>1. status' = "error" /\ info' = AddLink(c.link)
    BY <1>4 DEF MapChannel
  <2>2. TypeOK'
    BY <1>1, <1>2, <2>1, AddLinkType DEF Inv, TypeOK
  <2>3. ~Elaborated' /\ status' # "elaboration" /\ status' # "running"
    BY <2>1 DEF Elaborated
  <2> QED  BY <1>3, <2>2, <2>3 DEF Inv, Checked, Untouched, Mapped, AnswerRight
<1>5. CASE alloc[c.link].slots # 0
  <2>1. /\ status' = IF toMap' = {} THEN "running" ELSE status
        /\ info' = SetMaxP2Pdelay(AddLink(c.link), c.link, c.size)
    BY <1>5 DEF MapChannel
  <2>2. status' \in {"mapping", "running"} /\ (status' = "running" => toMap' = {})
    BY <1>1, <2>1
  <2>3. MaxDelay(c.link, c.size) \in Nat
    BY <1>1, <1>2, <1>5, DelayType
  <2>4. AddLink(c.link) \in InfoTable /\ \A m \in Sizes : AddLink(c.link)[c.link][m] = NoInfo
    BY <1>2, AddLinkType DEF Inv
  <2>5. /\ \A s \in Sender : s # c.link => info'[s] = info[s]
        /\ \A m \in Sizes : info'[c.link][m] = IF m = c.size THEN [known |-> TRUE, max |-> MaxDelay(c.link, m)]
                                               ELSE NoInfo
    <3>1. \A s \in Sender : s # c.link => AddLink(c.link)[s] = info[s]
      BY <1>2 DEF AddLink, Inv, TypeOK
    <3>2. PICK table : table = AddLink(c.link) /\ table \in InfoTable
      BY <2>4
    <3>3. info' = [table EXCEPT ![c.link][c.size] = [known |-> TRUE, max |-> MaxDelay(c.link, c.size)]]
      BY <2>1, <3>2 DEF SetMaxP2Pdelay, MaxDelay
    <3> QED  BY <1>2, <2>4, <3>1, <3>2, <3>3 DEF InfoTable
  <2>6. info' \in InfoTable
    BY <1>2, <2>1, <2>3, <2>4, SetMaxType
  <2>7. TypeOK'
    BY <1>1, <2>2, <2>6 DEF Inv, TypeOK, InfoTable
  <2>8. Checked'
    BY <1>1, CheckedKept DEF Inv
  <2>9. \A s \in Sender, m \in Sizes : MaxDelay(s, m)' = MaxDelay(s, m)
    BY <1>1, DelayKept
  <2>10. \A m \in Sizes : info'[c.link][m].known => m = c.size
    <3>1. ~NoInfo.known
      BY DEF NoInfo
    <3> QED  BY <2>5, <3>1
  <2>11. Cached(c.link, c.size)'
    <3>1. info'[c.link][c.size] = [known |-> TRUE, max |-> MaxDelay(c.link, c.size)]
      BY <1>2, <2>5
    <3> QED  BY <1>2, <2>9, <3>1 DEF Cached
  <2>12. \A s \in Sender, m \in Sizes : s # c.link => (Cached(s, m)' <=> Cached(s, m))
    BY <2>5, <2>9 DEF Cached
  <2>13. ASSUME NEW d \in Channels \ toMap'
         PROVE  alloc'[d.link].slots > 0
    <3>1. CASE d.link = c.link
      BY <1>1, <1>2, <1>5, <3>1, ConstantTypes DEF Inv, TypeOK
    <3>2. CASE d.link # c.link
      BY <1>1, <3>2 DEF Inv, Mapped
    <3> QED  BY <3>1, <3>2
  <2>14. ASSUME worstCase', NEW s \in Sender, NEW m \in Sizes, info'[s][m].known
         PROVE  Cached(s, m)'
    <3>1. CASE s = c.link
      BY <2>10, <2>11, <2>14, <3>1
    <3>2. CASE s # c.link
      <4>1. info[s][m].known /\ worstCase
        BY <1>1, <2>5, <2>14, <3>2
      <4>2. Cached(s, m)
        BY <1>1, <4>1 DEF Inv, Mapped
      <4> QED  BY <2>12, <3>2, <4>2
    <3> QED  BY <3>1, <3>2
  <2>15. answer' = NoAnswer
    BY <1>1 DEF Inv, Mapped
  <2>16. Mapped'
    BY <2>2, <2>13, <2>14, <2>15 DEF Mapped
  <2>17. Untouched' /\ AnswerRight'
    BY <2>2, <2>15 DEF Untouched, AnswerRight
  <2> QED  BY <1>3, <2>7, <2>8, <2>16, <2>17 DEF Inv
<1> QED  BY <1>4, <1>5

\* A link in use has slots once all the channels are mapped.
LEMMA UsedLink ==
  ASSUME Inv, status = "running", NEW s \in Sender, NEW m \in Sizes, InUse(s, m)
  PROVE  alloc[s].slots \in 1..NChannels
<1>1. Elaborated /\ toMap = {}
  BY DEF Elaborated, Inv, Mapped
<1>2. PICK c \in Channels : c.link = s /\ c.size = m
  BY DEF InUse
<1>3. alloc[s].slots > 0
  BY <1>1, <1>2 DEF Inv, Mapped
<1> QED  BY <1>3, ConstantTypes DEF Inv, TypeOK

LEMMA GetMaxInv ==
  ASSUME Inv, NEW s \in Sender, NEW m \in Sizes, GetMax(s, m)
  PROVE  Inv'
<1>1. /\ status = "running" /\ Elaborated /\ InUse(s, m) /\ worstCase
      /\ UNCHANGED <<status, free, alloc, nAllocated, manual, guard, cycle, level, worstCase, toMap>>
  BY DEF GetMax, Elaborated
<1>2. alloc[s].slots \in 1..NChannels
  BY <1>1, UsedLink
<1>3. MaxDelay(s, m) \in Nat
  BY <1>1, <1>2, DelayType, ConstantTypes
<1>4. \A u \in Sender, n \in Sizes : MaxDelay(u, n)' = MaxDelay(u, n)
  BY <1>1, DelayKept
<1>5. /\ info' = IF info[s][m].known THEN info
                 ELSE [info EXCEPT ![s][m] = [known |-> TRUE, max |-> MaxDelay(s, m)]]
      /\ answer' = [kind |-> "max", link |-> s, size |-> m, at |-> 0, delay |-> info'[s][m].max]
  BY DEF GetMax, SetMaxP2Pdelay, Answered, MaxDelay
<1>6. info' \in InfoTable
  BY <1>3, <1>5 DEF Inv, TypeOK, InfoTable
<1>7. \A u \in Sender, n \in Sizes : (u # s \/ n # m) => info'[u][n] = info[u][n]
  BY <1>5 DEF Inv, TypeOK
<1>8. \A u \in Sender, n \in Sizes : info[u][n].known => Cached(u, n)
  BY <1>1 DEF Inv, Mapped
<1>9. Cached(s, m)'
  <2>1. CASE info[s][m].known
    BY <1>4, <1>5, <1>8, <2>1 DEF Cached
  <2>2. CASE ~info[s][m].known
    <3>1. info'[s][m] = [known |-> TRUE, max |-> MaxDelay(s, m)]
      BY <1>5, <2>2 DEF Inv, TypeOK
    <3> QED  BY <1>4, <3>1 DEF Cached
  <2> QED  BY <2>1, <2>2
<1>10. \A u \in Sender, n \in Sizes : (Cached(u, n) => Cached(u, n)') /\ (info'[u][n].known => Cached(u, n)')
  BY <1>4, <1>7, <1>8, <1>9 DEF Cached
<1>11. TypeOK'
  <2>1. answer' \in DelayAnswer
    BY <1>5, <1>6, EntryType DEF DelayAnswer
  <2> QED  BY <1>1, <1>6, <2>1 DEF Inv, TypeOK, InfoTable
<1>12. AutoAllocated'
  BY <1>1, TablesKept
<1>13. Checked' /\ Untouched'
  BY <1>1, CheckedKept DEF Inv, Untouched
<1>14. Mapped'
  BY <1>1, <1>10 DEF Inv, Mapped
<1>15. AnswerRight'
  <2>1. /\ answer'.link = s /\ answer'.size = m /\ answer'.kind = "max"
        /\ answer'.delay = info'[s][m].max
    BY <1>5
  <2>2. answer'.delay = MaxDelay(s, m)'
    BY <1>9, <2>1 DEF Cached
  <2> QED  BY <1>1, <1>4, <2>1, <2>2 DEF AnswerRight, InUse
<1> QED  BY <1>11, <1>12, <1>13, <1>14, <1>15 DEF Inv

LEMMA GetCurrentInv ==
  ASSUME Inv, NEW s \in Sender, NEW m \in Sizes, NEW at \in 0..(cycle - 1), GetCurrent(s, m, at)
  PROVE  Inv'
<1>1. /\ status = "running" /\ Elaborated /\ InUse(s, m) /\ ~worstCase
      /\ UNCHANGED <<free, alloc, nAllocated, manual, guard, cycle, level, worstCase, toMap>>
      /\ status' \in {"running", "error"}
  BY DEF GetCurrent, Elaborated
<1>2. /\ info' = IF info[s][m].known THEN info ELSE [info EXCEPT ![s][m].known = TRUE]
      /\ \E offset \in IF level = 0 THEN {CurrentOffset(alloc[s].first, at)}
                       ELSE 0..MaxOffset(alloc[s].slots) :
           answer' = [kind |-> "current", link |-> s, size |-> m, at |-> at, delay |-> offset + info'[s][m].max]
  BY DEF GetCurrent, Answered
<1>3. alloc[s].slots \in 1..NChannels
  BY <1>1, UsedLink
<1>4. CurrentOffset(alloc[s].first, at) \in Nat /\ MaxOffset(alloc[s].slots) \in Nat
  <2>1. PICK f \in Nat, T \in Nat, c \in Nat : f = alloc[s].first /\ T = SlotTime /\ c = cycle
    BY ConstantTypes DEF Inv, TypeOK
  <2>2. PICK x \in Nat : x = f * T
    BY ProductType
  <2>3. at \in 0..c - 1
    BY <2>1
  <2>4. CurrentOffset(f, at) = IF at <= x THEN x - at ELSE c - at + x
    BY <2>1, <2>2 DEF CurrentOffset
  <2>5. CurrentOffset(f, at) \in Nat
    BY <2>3, <2>4
  <2> QED  BY <1>1, <1>3, <2>1, <2>5, DelayType, ConstantTypes
<1>5. PICK offset \in Nat :
        answer' = [kind |-> "current", link |-> s, size |-> m, at |-> at, delay |-> offset + info'[s][m].max]
  BY <1>2, <1>4
<1>6. info' \in InfoTable
  <2> DEFINE I == [known : BOOLEAN, max : Nat]
             entry == [info[s][m] EXCEPT !.known = TRUE]
  <2>1. info \in [Sender -> [Sizes -> I]]
    BY DEF Inv, TypeOK
  <2>2. entry \in I
    <3>1. info[s][m] \in I
      <4> HIDE DEF I
      <4> QED  BY <2>1
    <3> QED  BY <3>1
  <2>3. info' = info \/ info' = [info EXCEPT ![s][m] = entry]
    BY <1>2
  <2> HIDE DEF I, entry
  <2>4. info' \in [Sender -> [Sizes -> I]]
    BY <2>1, <2>2, <2>3
  <2> QED  BY <2>4 DEF I, InfoTable
<1>7. TypeOK'
  <2>1. offset + info'[s][m].max \in Nat
    BY <1>6, EntryType
  <2>2. answer' \in DelayAnswer
    <3>1. PICK d \in Nat : d = offset + info'[s][m].max
      BY <2>1
    <3>2. at \in Nat
      BY DEF Inv, TypeOK
    <3> QED  BY <1>5, <3>1, <3>2 DEF DelayAnswer
  <2> QED  BY <1>1, <1>6, <2>2 DEF Inv, TypeOK, InfoTable
<1>8. AutoAllocated'
  BY <1>1, TablesKept
<1>9. Checked' /\ Untouched'
  BY <1>1, CheckedKept DEF Inv, Untouched
<1>10. Mapped'
  BY <1>1 DEF Inv, Mapped
<1>11. AnswerRight'
  BY <1>1, <1>5 DEF AnswerRight, InUse
<1> QED  BY <1>7, <1>8, <1>9, <1>10, <1>11 DEF Inv

LEMMA DelaySpentInv ==
  ASSUME Inv, DelaySpent
  PROVE  Inv'
<1>1. /\ status = "running" /\ answer' = NoAnswer
      /\ UNCHANGED <<status, free, alloc, nAllocated, manual, guard, cycle, level, worstCase, toMap, info>>
  BY DEF DelaySpent
<1>2. TypeOK'
  BY <1>1 DEF Inv, TypeOK
<1>3. AutoAllocated' /\ Checked' /\ Untouched'
  BY <1>1, TablesKept, CheckedKept DEF Inv, Untouched, Elaborated
<1>4. \A u, n : Cached(u, n)' <=> Cached(u, n)
  BY <1>1, DelayKept DEF Cached
<1>5. Mapped'
  BY <1>1, <1>4 DEF Inv, Mapped, Elaborated
<1>6. AnswerRight'
  BY <1>1 DEF AnswerRight
<1> QED  BY <1>2, <1>3, <1>5, <1>6 DEF Inv

LEMMA StutterInv == Inv /\ UNCHANGED vars => Inv'
<1> SUFFICES ASSUME Inv, UNCHANGED vars  PROVE Inv'
  OBVIOUS
<1>1. UNCHANGED <<status, free, alloc, nAllocated, manual, guard, cycle, level, worstCase, toMap, info, answer>>
  BY DEF vars
<1>2. TypeOK'
  BY <1>1 DEF Inv, TypeOK
<1>3. AutoAllocated' /\ Checked' /\ Untouched'
  BY <1>1, TablesKept, CheckedKept DEF Inv, Untouched, Elaborated
<1>4. \A u, n : MaxDelay(u, n)' = MaxDelay(u, n) /\ (Cached(u, n)' <=> Cached(u, n))
  BY <1>1, DelayKept DEF Cached
<1>5. Mapped'
  BY <1>1, <1>4 DEF Inv, Mapped, Elaborated
<1>6. AnswerRight'
  BY <1>1, <1>4 DEF Inv, AnswerRight, InUse
<1> QED  BY <1>2, <1>3, <1>5, <1>6 DEF Inv

LEMMA InvAlways == Spec => []Inv
<1>1. Inv /\ [Next]_vars => Inv'
  <2> SUFFICES ASSUME Inv, [Next]_vars  PROVE Inv'
    OBVIOUS
  <2>1. ASSUME NEW s \in Sender, NEW req \in 1..NChannels, Allocate(s, req)  PROVE Inv'
    BY <2>1, AllocateInv
  <2>2. ASSUME NEW s \in Sender, NEW req \in 1..NChannels, NEW first \in 0..(NChannels - 1),
               AllocateManually(s, req, first)
        PROVE  Inv'
    BY <2>2, AllocateManuallyInv
  <2>3. CASE Elaborate
    BY <2>3, ElaborateInv
  <2>4. ASSUME NEW c \in toMap, MapChannel(c)  PROVE Inv'
    BY <2>4, MapChannelInv
  <2>5. ASSUME NEW s \in Sender, NEW m \in Sizes, GetMax(s, m)  PROVE Inv'
    BY <2>5, GetMaxInv
  <2>6. ASSUME NEW s \in Sender, NEW m \in Sizes, NEW at \in 0..(cycle - 1), GetCurrent(s, m, at)
        PROVE  Inv'
    BY <2>6, GetCurrentInv
  <2>7. CASE DelaySpent
    BY <2>7, DelaySpentInv
  <2>8. CASE UNCHANGED vars
    BY <2>8, StutterInv
  <2> QED  BY <2>1, <2>2, <2>3, <2>4, <2>5, <2>6, <2>7, <2>8 DEF Next
<1> QED  BY <1>1, InitInv, PTL DEF Spec

-----------------------------------------------------------------------------
(***************************************************************************)
(* The theorems.                                                           *)
(***************************************************************************)
\* The tables, the times and the cached delays of tdma_bus keep their kinds in
\* every sequence of calls: the counters neither underflow nor leave the table.
THEOREM TdmaTypeCorrect == Spec => []TypeOK
BY InvAlways, PTL DEF Inv

\* Without a call that chooses the first slot, allocate_channels never gives a slot
\* of the cycle to two senders.
THEOREM AutomaticSlotsExclusiveAlways == Spec => []AutomaticSlotsExclusive
<1>1. Inv => AutomaticSlotsExclusive
  <2> SUFFICES ASSUME Inv, ~manual, NEW s \in Senders, NEW u \in Senders, s # u
               PROVE  SlotsOf(s) \cap SlotsOf(u) = {}
    BY DEF AutomaticSlotsExclusive, Exclusive
  <2>1. /\ alloc[s].first \in Nat /\ alloc[s].slots \in Nat
        /\ alloc[u].first \in Nat /\ alloc[u].slots \in Nat
    BY ConstantTypes DEF Inv, TypeOK, Senders
  <2>2. PICK a \in Nat, k \in Nat, b \in Nat, l \in Nat :
          a = alloc[s].first /\ k = alloc[s].slots /\ b = alloc[u].first /\ l = alloc[u].slots
    BY <2>1
  <2>3. a + k <= b \/ b + l <= a
    BY <2>2 DEF Inv, AutoAllocated
  <2>4. SlotsOf(s) = a..(a + k - 1) /\ SlotsOf(u) = b..(b + l - 1)
    BY <2>2 DEF SlotsOf
  <2> QED  BY <2>3, <2>4
<1> QED  BY <1>1, InvAlways, PTL

\* Automatic allocation of allocate_channels never searches the free slot table
\* in vain, so its loop never runs over the end of the list.
THEOREM AutomaticAllocation == Spec => []RequestFitsTable
<1>1. Inv => RequestFitsTable
  <2> SUFFICES ASSUME Inv, ~manual
               PROVE  /\ nAllocated + Cardinality(FreeSlots) = NChannels
                      /\ \A req \in 1..(NChannels - nAllocated) : \E i \in Visited : req <= Room(free[i])
    BY DEF RequestFitsTable
  <2>1. nAllocated \in 0..NChannels /\ NChannels \in Nat
    BY ConstantTypes DEF Inv, TypeOK
  <2>2. CASE nAllocated = NChannels
    <3>1. free = <<>>
      BY <2>2 DEF Inv, AutoAllocated
    <3>2. FreeSlots = {}
      BY <3>1 DEF FreeSlots
    <3>3. Cardinality(FreeSlots) = 0
      BY <3>2, FS_EmptySet
    <3>4. 1..(NChannels - nAllocated) = {}
      BY <2>1, <2>2
    <3> QED  BY <2>1, <2>2, <3>3, <3>4
  <2>3. CASE nAllocated # NChannels
    <3>1. /\ free = <<[first |-> nAllocated, last |-> NChannels - 1]>>
          /\ Len(free) = 1 /\ Visited = {1} /\ Room(free[1]) = NChannels - nAllocated
      BY <2>3, AutoRange
    <3>2. FreeSlots = nAllocated..(NChannels - 1)
      <4>1. free[1].first = nAllocated /\ free[1].last = NChannels - 1 /\ 1..Len(free) = {1}
        BY <3>1
      <4> QED  BY <4>1 DEF FreeSlots
    <3>3. PICK n \in Int, last \in Int : n = nAllocated /\ last = NChannels - 1
      BY <2>1
    <3>4. Cardinality(n..last) = last - n + 1
      <4>1. n <= last
        BY <2>1, <2>3, <3>3
      <4> QED  BY <4>1, FS_Interval
    <3>5. nAllocated + Cardinality(FreeSlots) = NChannels
      BY <2>1, <3>2, <3>3, <3>4
    <3> QED  BY <3>1, <3>5
  <2> QED  BY <2>2, <2>3
<1> QED  BY <1>1, InvAlways, PTL

LEMMA AnswerOfUsedLink ==
  ASSUME Inv, NEW kind, Answers(kind)
  PROVE  /\ CycleFits /\ answer.link \in Sender /\ answer.size \in Sizes
         /\ alloc[answer.link].first \in Nat /\ alloc[answer.link].slots \in 1..NChannels
         /\ alloc[answer.link].first + alloc[answer.link].slots <= NChannels
<1>1. status = "running" /\ answer # NoAnswer /\ Elaborated
  BY DEF Answers, Elaborated
<1>2. answer.link \in Sender /\ answer.size \in Sizes /\ InUse(answer.link, answer.size)
  BY <1>1 DEF Inv, AnswerRight
<1>3. alloc[answer.link].slots \in 1..NChannels
  BY <1>1, <1>2, UsedLink
<1>4. alloc[answer.link].first \in Nat
  BY <1>2, ConstantTypes DEF Inv, TypeOK
<1> QED  BY <1>1, <1>2, <1>3, <1>4, CycleChecked DEF Answers

\* The maximum delay that calculate_MaxP2Pdelay computes is a bound on the time a
\* message takes, whatever the phase of the cycle it meets.
THEOREM MaximumDelayBounds == Spec => []BoundHolds
<1>1. Inv => BoundHolds
  <2> SUFFICES ASSUME Inv, Answers("max"), NEW at \in 0..(cycle - 1)  PROVE AnswerCovers(at)
    BY DEF BoundHolds
  <2>1. PICK s \in Sender, m \in Sizes : s = answer.link /\ m = answer.size
    BY AnswerOfUsedLink
  <2>2. MaxP2Pdelay(m, alloc[s].slots) >= TransmissionTime(s, m, at)
    BY <2>1, AnswerOfUsedLink, DelayCovers
  <2>3. answer.delay = MaxP2Pdelay(m, alloc[s].slots)
    BY <2>1 DEF Inv, AnswerRight, Answers, MaxDelay
  <2> QED  BY <2>1, <2>2, <2>3 DEF AnswerCovers
<1> QED  BY <1>1, InvAlways, PTL
=============================================================================
