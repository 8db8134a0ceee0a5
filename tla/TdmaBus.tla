------------------------------ MODULE TdmaBus -------------------------------
(***************************************************************************)
(* tdma_bus: the allocation of its slots to the processing elements that   *)
(* send over it, the elaboration that checks the allocation and caches the *)
(* delays of the channels mapped to it, and the delays it then answers.    *)
(*                                                                         *)
(* A physical link is named by its sender.  A report of severity error     *)
(* ends the program.                                                       *)
(***************************************************************************)
EXTENDS Integers, Sequences, FiniteSets, LeastElement

CONSTANTS
  Sender,        \* the processing elements connected to the bus
  NoAnswer,      \* no delay has been asked for
  NChannels,     \* n_channels
  Word,          \* 2^w for the width w of unsigned int
  Payload,       \* ch_payload_bits
  BitTime,       \* slot_time / ch_payload_bits
  GuardTimes,    \* values guard_time is configured with
  CycleTimes,    \* values cycle_time is configured with, 0 for unset
  Channels       \* the channels mapped to the bus, with their link and message size

ASSUME TdmaAssumption ==
  /\ {NChannels, Payload, BitTime} \subseteq Nat \ {0}
  /\ GuardTimes \subseteq Nat /\ CycleTimes \subseteq Nat
  /\ Word \in Nat /\ Word > 2 * NChannels
  /\ \A c \in Channels : c.link \in Sender /\ c.size \in Nat \ {0}

SlotTime == Payload * BitTime
Sizes    == {c.size : c \in Channels}
NoSlots  == [first |-> 0, slots |-> 0]

VARIABLES
  status,        \* where the program is
  free,          \* free_slot_table
  alloc,         \* of each sender: first_slot_ and channel_allocation_table
  nAllocated,    \* n_allocated_channels
  manual,        \* manual_slot_allocation
  guard, cycle,  \* guard_time, cycle_time
  level,         \* accuracy_level
  worstCase,     \* worst_case_communication_enabled
  toMap,         \* the channels whose end_of_elaboration has still to run
  info,          \* links_table: of each link and message size, the cached delays
  answer         \* the last delay the bus has answered

vars == <<status, free, alloc, nAllocated, manual, guard, cycle, level, worstCase, toMap, info, answer>>

\* No link_info_t for the message size: get_properties returns NULL.
NoInfo == [known |-> FALSE, max |-> 0]

Init ==
  /\ status = "elaboration"
  /\ free = <<[first |-> 0, last |-> NChannels - 1]>>
  /\ alloc = [s \in Sender |-> NoSlots] /\ nAllocated = 0 /\ manual = FALSE
  /\ guard = 0 /\ cycle = 0 /\ level = 0 /\ worstCase \in BOOLEAN
  /\ toMap = Channels
  /\ info = [s \in Sender |-> [m \in Sizes |-> NoInfo]]
  /\ answer = NoAnswer

-----------------------------------------------------------------------------
(***************************************************************************)
(* Allocation of slots.                                                    *)
(***************************************************************************)
\* The number of slots of a range, in unsigned arithmetic.
Room(range) == (range.last - range.first + 1) % Word

\* The loops increment the iterator in their body and in their header.
Visited == {i \in 1..Len(free) : i % 2 = 1}

\* Variant: the slots are taken from the range but for the last one.
TakenShort(i, first, req) ==
  IF req = Room(free[i]) THEN SubSeq(free, 1, i - 1) \o SubSeq(free, i + 1, Len(free))
  ELSE [free EXCEPT ![i].first = (first + req - 1) % Word]

\* The range gives req slots, the first of them being first.
Taken(i, first, req) ==
  IF req = Room(free[i]) THEN SubSeq(free, 1, i - 1) \o SubSeq(free, i + 1, Len(free))
  ELSE [free EXCEPT ![i].first = (first + req) % Word]

Allocated(s, first, req) ==
  /\ alloc' = [alloc EXCEPT ![s] = [first |-> first, slots |-> req]]
  /\ nAllocated' = nAllocated + req
  /\ UNCHANGED status

\* An iteration that finds no range leaves an odd list behind its end, from
\* where a circular list starts again; an even list ends in the error report.
NotAllocated ==
  /\ status' = IF Len(free) % 2 = 1 THEN "endless_loop" ELSE "error"
  /\ UNCHANGED <<free, alloc, nAllocated>>

TooManySlots(req) == req + nAllocated > NChannels

allocFrame == <<guard, cycle, level, worstCase, toMap, info, answer>>

\* Variant: the number of allocated channels is not tested.
AllocateUnchecked(s, req) ==
  /\ status = "elaboration"
  /\ LET fits == {i \in Visited : req <= Room(free[i])}
     IN  IF fits = {} THEN NotAllocated
         ELSE LET i == Least(fits)
              IN  free' = Taken(i, free[i].first, req) /\ Allocated(s, free[i].first, req)
  /\ UNCHANGED <<manual, allocFrame>>

\* allocate_channels(src, required_channels)
Allocate(s, req) ==
  /\ status = "elaboration"
  /\ LET fits == {i \in Visited : req <= Room(free[i])}
     IN  IF TooManySlots(req)
         THEN status' = "error" /\ UNCHANGED <<free, alloc, nAllocated>>
         ELSE IF fits = {} THEN NotAllocated
         ELSE LET i == Least(fits)
              IN  free' = Taken(i, free[i].first, req) /\ Allocated(s, free[i].first, req)
  /\ UNCHANGED <<manual, allocFrame>>

\* allocate_channels(src, required_channels, first_slot).  It passes its two
\* numbers to assign_free_slots in the order of the declaration, which is not
\* the order of the definition: there req is the first slot, first the number.
AllocateManually(s, req, first) ==
  /\ status = "elaboration"
  /\ manual' = TRUE
  /\ LET fits == {i \in Visited : req \in free[i].first..free[i].last /\ first <= Room(free[i])}
     IN  IF TooManySlots(req)
         THEN status' = "error" /\ UNCHANGED <<free, alloc, nAllocated>>
         ELSE IF fits = {} THEN NotAllocated
         ELSE free' = Taken(Least(fits), req, first) /\ Allocated(s, first, req)
  /\ UNCHANGED allocFrame

-----------------------------------------------------------------------------
(***************************************************************************)
(* Elaboration.                                                            *)
(***************************************************************************)
Senders  == {s \in Sender : alloc[s] # NoSlots}
SlotsOf(s) == alloc[s].first .. (alloc[s].first + alloc[s].slots - 1)

\* The test of check_slot_allocation on two senders.
OverlapFound(s, u) ==
  \/ /\ alloc[s].first < alloc[u].first
     /\ alloc[s].first + alloc[s].slots - 1 >= alloc[u].first
  \/ /\ alloc[u].first < alloc[s].first
     /\ alloc[u].first + alloc[u].slots - 1 >= alloc[s].first

AllocationChecked ==
  /\ Senders # {}
  /\ \A s, u \in Senders : s # u => ~OverlapFound(s, u)

\* The last setters, and before_end_of_elaboration of the bus.
Elaborate ==
  /\ status = "elaboration"
  /\ guard' \in GuardTimes /\ level' \in 0..2
  /\ LET needed == NChannels * (SlotTime + guard')
     IN  \E c \in CycleTimes :
           /\ cycle' = IF c = 0 THEN needed ELSE c
           /\ status' = IF nAllocated <= NChannels /\ cycle' >= needed /\ AllocationChecked
                        THEN "mapping" ELSE "error"
  /\ UNCHANGED <<free, alloc, nAllocated, manual, worstCase, toMap, info, answer>>

-----------------------------------------------------------------------------
(***************************************************************************)
(* Delays.                                                                 *)
(***************************************************************************)
\* The quotient rounded up, as the code computes it.
Ceiling(a, b) == IF a % b # 0 THEN a \div b + 1 ELSE a \div b

SlotsRequired(m) == Ceiling(m, Payload)

\* Variant: the wait for the first slot takes all the slots off the cycle.
MaxOffsetShort(k) == cycle - k * (SlotTime + guard)

\* max_offset_delay
MaxOffset(k) == cycle - (k - 1) * SlotTime

\* Slots used in the last of the cycles the message takes.
LastCycleSlots(m, k) == SlotsRequired(m) - (Ceiling(SlotsRequired(m), k) - 1) * k

\* calculate_data_tx_delay_L0: bit accurate in the last slot.
DataDelayL0(m, k) ==
  (Ceiling(SlotsRequired(m), k) - 1) * cycle + (LastCycleSlots(m, k) - 1) * SlotTime
    + (m - (SlotsRequired(m) - 1) * Payload) * BitTime

\* calculate_data_tx_delay_L1: slot accurate.
DataDelayL1(m, k) ==
  (Ceiling(SlotsRequired(m), k) - 1) * cycle + LastCycleSlots(m, k) * SlotTime

\* calculate_MaxP2Pdelay, at each level of accuracy.
MaxP2Pdelay(m, k) ==
  CASE level = 0 -> MaxOffset(k) + DataDelayL0(m, k)
    [] level = 1 -> MaxOffset(k) + DataDelayL1(m, k)
    [] level = 2 -> (Ceiling(SlotsRequired(m), k) + 1) * cycle

\* current_offset_delay_L0: the time at which the first slot is expected.
CurrentOffset(first, at) ==
  IF at <= first * SlotTime THEN first * SlotTime - at ELSE cycle - at + first * SlotTime

\* add_link: nothing is known of the link any more.
AddLink(s) == [info EXCEPT ![s] = [m \in Sizes |-> NoInfo]]

\* set_MaxP2Pdelay: the delay of the link for a message size enters a table.
SetMaxP2Pdelay(table, s, m) ==
  [table EXCEPT ![s][m] = [known |-> TRUE, max |-> MaxP2Pdelay(m, alloc[s].slots)]]

\* end_of_elaboration of a channel.  set_MaxP2Pdelay reports a link without slots.
MapChannel(c) ==
  /\ status = "mapping" /\ c \in toMap
  /\ toMap' = toMap \ {c}
  /\ IF alloc[c.link].slots = 0
     THEN status' = "error" /\ info' = AddLink(c.link)
     ELSE /\ status' = IF toMap' = {} THEN "running" ELSE status
          /\ info' = SetMaxP2Pdelay(AddLink(c.link), c.link, c.size)
  /\ UNCHANGED <<free, alloc, nAllocated, manual, guard, cycle, level, worstCase, answer>>

Answered(kind, s, m, at, delay) ==
  answer' = [kind |-> kind, link |-> s, size |-> m, at |-> at, delay |-> delay]

InUse(s, m) == \E c \in Channels : c.link = s /\ c.size = m

\* get_MaxP2Pdelay: what the network interface asks for in the worst case.
GetMax(s, m) ==
  /\ status = "running" /\ answer = NoAnswer /\ InUse(s, m) /\ worstCase
  /\ info' = IF info[s][m].known THEN info ELSE SetMaxP2Pdelay(info, s, m)
  /\ Answered("max", s, m, 0, info'[s][m].max)
  /\ UNCHANGED <<status, free, alloc, nAllocated, manual, guard, cycle, level, worstCase, toMap>>

\* get_CurrentP2Pdelay at the time at of a cycle: an entry it adds has no maximum
\* delay, which is the one it reads.  Level 2 is an error; level 1 takes a random
\* offset.
GetCurrent(s, m, at) ==
  /\ status = "running" /\ answer = NoAnswer /\ InUse(s, m) /\ ~worstCase
  /\ info' = IF info[s][m].known THEN info ELSE [info EXCEPT ![s][m].known = TRUE]
  /\ \E offset \in IF level = 0 THEN {CurrentOffset(alloc[s].first, at)}
                   ELSE 0..MaxOffset(alloc[s].slots) :
       Answered("current", s, m, at, offset + info'[s][m].max)
  /\ status' = IF level = 2 THEN "error" ELSE status
  /\ UNCHANGED <<free, alloc, nAllocated, manual, guard, cycle, level, worstCase, toMap>>

\* The network interface has waited for the delay.
DelaySpent ==
  /\ answer # NoAnswer /\ status = "running"
  /\ answer' = NoAnswer
  /\ UNCHANGED <<status, free, alloc, nAllocated, manual, guard, cycle, level, worstCase, toMap, info>>

Next ==
  \/ \E s \in Sender, req \in 1..NChannels :
       Allocate(s, req) \/ \E first \in 0..(NChannels - 1) : AllocateManually(s, req, first)
  \/ Elaborate
  \/ \E c \in toMap : MapChannel(c)
  \/ \E s \in Sender, m \in Sizes :
       GetMax(s, m) \/ \E at \in 0..(cycle - 1) : GetCurrent(s, m, at)
  \/ DelaySpent

Spec == Init /\ [][Next]_vars

-----------------------------------------------------------------------------
(***************************************************************************)
(* The bus as it really transmits: slot i of a cycle starts after i slots  *)
(* and their guard times, a message goes on in the slots of its sender     *)
(* that start from its arrival on, and ends with its last bit.  The slots  *)
(* of a sender are numbered from cycle 0 on, from one cycle to the next.   *)
(***************************************************************************)
SlotStart(s, n) ==
  (n \div alloc[s].slots) * cycle + (alloc[s].first + (n % alloc[s].slots)) * (SlotTime + guard)

\* The first slot of the sender from the time at of cycle 0 on.
FirstSlot(s, at) == Least({n \in 0..alloc[s].slots : SlotStart(s, n) >= at})

\* The bits of a message that are left for its last slot.
LastBits(m) == m - (SlotsRequired(m) - 1) * Payload

TransmissionTime(s, m, at) ==
  SlotStart(s, FirstSlot(s, at) + SlotsRequired(m) - 1) + LastBits(m) * BitTime - at

Elaborated == status \in {"mapping", "running"}

DelayAnswer ==
  [kind : {"max", "current"}, link : Sender, size : Sizes, at : Nat, delay : Nat]

\* Every variable holds a value of its kind.
TypeOK ==
  /\ status \in {"elaboration", "mapping", "running", "error", "endless_loop"}
  /\ free \in Seq([first : 0..(Word - 1), last : 0..(NChannels - 1)])
  /\ alloc \in [Sender -> [first : 0..(Word - 1), slots : 0..NChannels]]
  /\ nAllocated \in 0..NChannels /\ manual \in BOOLEAN
  /\ guard \in Nat /\ cycle \in Nat /\ level \in 0..2 /\ worstCase \in BOOLEAN
  /\ toMap \subseteq Channels
  /\ info \in [Sender -> [Sizes -> [known : BOOLEAN, max : Nat]]]
  /\ answer = NoAnswer \/ answer \in DelayAnswer

\* No two senders share a slot.
Exclusive == \A s, u \in Senders : s # u => SlotsOf(s) \cap SlotsOf(u) = {}

\* As long as nobody has chosen a first slot, allocate_channels never gives a slot
\* to two senders, before the check as well as after it.  After an allocation by hand
\* two senders may have one first slot, and check_slot_allocation lets them pass.
AutomaticSlotsExclusive == ~manual => Exclusive

\* The slots of the table that belong to nobody.
FreeSlots == UNION {free[i].first .. free[i].last : i \in 1..Len(free)}

\* Automatic allocation never searches in vain: the account of allocated
\* channels and the free slot table agree, so a request that passes the early
\* test finds its range and the search never runs over the end of the list.
RequestFitsTable ==
  ~manual /\ status = "elaboration" =>
    /\ nAllocated + Cardinality(FreeSlots) = NChannels
    /\ \A req \in 1..(NChannels - nAllocated) : \E i \in Visited : req <= Room(free[i])

\* The bus has answered, for a sender whose slots lie within the cycle (manual
\* allocation may leave it).
Answers(kind) ==
  /\ status = "running" /\ answer # NoAnswer /\ answer.kind = kind
  /\ alloc[answer.link].first + alloc[answer.link].slots <= NChannels

\* A message ready at the time at of a cycle has been transmitted when the delay
\* answered has elapsed.
AnswerCovers(at) == answer.delay >= TransmissionTime(answer.link, answer.size, at)

\* The maximum delay of a link is a bound at every level of accuracy and in every
\* phase of the cycle, guard times and a longer cycle included.
BoundHolds == Answers("max") => \A at \in 0..(cycle - 1) : AnswerCovers(at)
=============================================================================
