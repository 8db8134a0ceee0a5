-------------------------- MODULE NetworkInterface --------------------------
(***************************************************************************)
(* The network interface of a processing element: the tasks of the element *)
(* call request_sending (through fifo_buffer::write), which may wait for   *)
(* room in the transmission buffer; network_interface_proc dispatches one  *)
(* request at a time and spends its communication delay.                   *)
(*                                                                         *)
(* The process and the callers meet through two events notified with       *)
(* SC_ZERO_TIME, which reach only who already waits when the evaluate      *)
(* phase ends, and through plain variables, visible at once.  A request is *)
(* known by its logic link and by its age, the time since request_time.    *)
(***************************************************************************)
EXTENDS Integers, Sequences, FiniteSets, LeastElement

CONSTANTS
  Link,            \* the logic links that leave the processing element
  NoLink,          \* no transfer in course
  Size,            \* message_size of each link, in bits
  Delays,          \* of each link, the delays its communication resource may give
  FiniteModes,     \* the values finite_buffer_flag may have when the simulation starts
  BufferSize,      \* tx_buffer_size
  CommSchedule,    \* static_comm_schedule, empty when none was provided
  Word,            \* 2^32: the counters of the buffer are unsigned int
  MaxOutstanding,  \* bound: messages of a link sent and not read yet
  MaxAge           \* bound on the age of a request

\* A schedule that leaves out a link with concurrent requests is an error
\* reported by static_comm_dispatch.
ASSUME NetworkInterfaceAssumption ==
  /\ Link # {} /\ IsFiniteSet(Link) /\ NoLink \notin Link
  /\ Size \in [Link -> Nat]
  /\ Delays \in [Link -> SUBSET Nat]
  /\ \A l \in Link : Delays[l] # {}
  /\ FiniteModes \subseteq BOOLEAN
  /\ {BufferSize, Word, MaxOutstanding, MaxAge} \subseteq Nat
  /\ BufferSize < Word /\ \A l \in Link : Size[l] < Word
  /\ CommSchedule \in Seq(Link)
  /\ CommSchedule = <<>> \/ {CommSchedule[k] : k \in 1..Len(CommSchedule)} = Link

VARIABLES
  finite,       \* finite_buffer_flag
  sendQueue,    \* send_queue: the requests in the order of the multimap
  room, data,   \* room_in_tx_buffer, cur_data_in_tx_buffer
  netifPc,      \* where network_interface_proc waits
  transfer,     \* the link of cur_msg_req
  delay,        \* time left to the end of wait(comm_delay)
  writerPc,     \* of each link: whether its writer waits in request_sending
  age,          \* of each link: the age of the request that waits there
  completed,    \* of each link: completed_transactions
  pending,      \* the events notified for the next delta cycle
  runNetif, runWriters,   \* the processes the evaluate phase has still to run
  outstanding   \* history: of each link, calls of request_sending minus messages read

netifVars   == <<netifPc, transfer, delay>>
bufferVars  == <<finite, sendQueue, room, data>>
writerVars  == <<writerPc, age>>
channelVars == <<completed, outstanding>>
vars == <<netifVars, bufferVars, writerVars, channelVars, pending, runNetif, runWriters>>

-----------------------------------------------------------------------------
(***************************************************************************)
(* The sending queue.                                                      *)
(***************************************************************************)

\* Variant: the latest request goes first.
InsertedFirst(q, l, a) == <<[from |-> l, age |-> a]>> \o q

\* The multimap is ordered by request_time, and by insertion among equal keys: a
\* request goes before the first one that was made later.
Inserted(q, l, a) ==
  LET p == Least({i \in 1..Len(q) : q[i].age < a} \cup {Len(q) + 1})
  IN  SubSeq(q, 1, p - 1) \o <<[from |-> l, age |-> a]>> \o SubSeq(q, p, Len(q))

\* The requests of the first request time, and the one the static schedule
\* names first.
Synchronous(q) == {i \in 1..Len(q) : q[i].age = q[1].age}

StaticCommDispatch(q) ==
  LET named == {k \in 1..Len(CommSchedule) : \E i \in Synchronous(q) : q[i].from = CommSchedule[k]}
  IN  Least({i \in Synchronous(q) : q[i].from = CommSchedule[Least(named)]})

\* Variant: the static schedule is not looked at.
DispatchedFirst(q) == 1

Dispatched(q) ==
  IF Cardinality(Synchronous(q)) > 1 /\ CommSchedule # <<>>
  THEN StaticCommDispatch(q)
  ELSE 1

Without(q, i) == SubSeq(q, 1, i - 1) \o SubSeq(q, i + 1, Len(q))

-----------------------------------------------------------------------------
\* The process has run once and waits for requests: a task makes its first call
\* only after it has been dispatched, delta cycles later.
InitWith(posted) ==
  /\ finite \in FiniteModes
  /\ sendQueue = <<>>
  /\ room = IF finite THEN BufferSize ELSE 0
  /\ data = 0
  /\ netifPc = "idle" /\ transfer = NoLink /\ delay = 0
  /\ writerPc = [l \in Link |-> "out"] /\ age = [l \in Link |-> 0]
  /\ completed = posted /\ outstanding = posted
  /\ pending = {} /\ runNetif = FALSE /\ runWriters = {}

Init == InitWith([l \in Link |-> 0])

(***************************************************************************)
(* The kernel.                                                             *)
(***************************************************************************)
EvaluationOver == ~runNetif /\ runWriters = {}

\* The delta notification phase: the events reach who waits for them, and a wait
\* for no time ends.
Notified ==
  /\ pending' = {}
  /\ runNetif' = \/ netifPc = "idle" /\ "send_request_ev" \in pending
                 \/ netifPc = "sending" /\ delay = 0
  /\ runWriters' = {l \in Link : "send_request_completed" \in pending /\ writerPc[l] = "blocked"}
  /\ UNCHANGED <<netifVars, bufferVars, writerVars, channelVars>>

DeltaCycle == EvaluationOver /\ pending # {} /\ Notified

\* One unit of time passes; the rest of the system may act at any time.
Ages == {age[l] : l \in {k \in Link : writerPc[k] = "blocked"}}
          \cup {sendQueue[i].age : i \in 1..Len(sendQueue)}

Elapsed ==
  /\ \A a \in Ages : a < MaxAge
  /\ delay' = IF delay > 0 THEN delay - 1 ELSE 0
  /\ runNetif' = (delay = 1)
  /\ age' = [l \in Link |-> IF writerPc[l] = "blocked" THEN age[l] + 1 ELSE 0]
  /\ sendQueue' = [i \in 1..Len(sendQueue) |-> [sendQueue[i] EXCEPT !.age = @ + 1]]
  /\ UNCHANGED <<netifPc, transfer, finite, room, data, writerPc, channelVars, pending, runWriters>>

Tick == EvaluationOver /\ pending = {} /\ Elapsed

-----------------------------------------------------------------------------
(***************************************************************************)
(* request_sending, in the thread of the task that writes.                 *)
(***************************************************************************)
\* Variant: a message is let in when there is any room.
HasRoomForAny(l) == ~finite \/ room > 0

HasRoomFor(l) == ~finite \/ Size[l] <= room

Enqueue(l, a) ==
  /\ sendQueue' = Inserted(sendQueue, l, a)
  /\ room' = (room - Size[l]) % Word
  /\ data' = (data + Size[l]) % Word
  /\ writerPc' = [writerPc EXCEPT ![l] = "out"]
  /\ age' = [age EXCEPT ![l] = 0]
  /\ UNCHANGED finite

Block(l) == writerPc' = [writerPc EXCEPT ![l] = "blocked"] /\ UNCHANGED <<age, bufferVars>>

\* The process is notified before the caller looks for room.
RequestSending(l) ==
  /\ writerPc[l] = "out" /\ outstanding[l] < MaxOutstanding
  /\ outstanding' = [outstanding EXCEPT ![l] = @ + 1]
  /\ pending' = pending \cup {"send_request_ev"}
  /\ IF HasRoomFor(l) THEN Enqueue(l, 0) ELSE Block(l)
  /\ UNCHANGED <<netifVars, completed, runNetif, runWriters>>

WriterWoken(l) ==
  /\ l \in runWriters
  /\ runWriters' = runWriters \ {l}
  /\ IF HasRoomFor(l) THEN Enqueue(l, age[l]) ELSE Block(l)
  /\ UNCHANGED <<netifVars, channelVars, pending, runNetif>>

-----------------------------------------------------------------------------
(***************************************************************************)
(* network_interface_proc.                                                 *)
(***************************************************************************)
Dispatch ==
  LET i == Dispatched(sendQueue)
  IN  /\ sendQueue # <<>>
      /\ transfer' = sendQueue[i].from
      /\ sendQueue' = Without(sendQueue, i)
      /\ pending' = pending \cup {"send_request_completed"}
      /\ delay' \in Delays[sendQueue[i].from]
      /\ netifPc' = "sending"

WaitForRequest ==
  /\ sendQueue = <<>>
  /\ netifPc' = "idle" /\ transfer' = NoLink
  /\ UNCHANGED <<sendQueue, pending, delay>>

\* The loop around wait(send_request_ev) does not test the queue again: with an
\* empty queue dispatch() reports an error and the process takes no more steps.
NetifWoken ==
  /\ runNetif /\ netifPc = "idle"
  /\ runNetif' = FALSE
  /\ Dispatch
  /\ UNCHANGED <<finite, room, data, writerVars, channelVars, runWriters>>

\* The end of the transfer is posted, its room released, and nobody notified.
NetifCompletes ==
  /\ runNetif /\ netifPc = "sending"
  /\ runNetif' = FALSE
  /\ completed' = [completed EXCEPT ![transfer] = @ + 1]
  /\ room' = (room + Size[transfer]) % Word
  /\ data' = (data - Size[transfer]) % Word
  /\ Dispatch \/ WaitForRequest
  /\ UNCHANGED <<finite, writerVars, outstanding, runWriters>>

\* The reader of the link takes one completed transaction.
Read(l) ==
  /\ completed[l] > 0
  /\ completed' = [completed EXCEPT ![l] = @ - 1]
  /\ outstanding' = [outstanding EXCEPT ![l] = @ - 1]
  /\ UNCHANGED <<netifVars, bufferVars, writerVars, pending, runNetif, runWriters>>

\* Everything but the calls the tasks choose to make.
Progress ==
  \/ DeltaCycle \/ Tick
  \/ NetifWoken \/ NetifCompletes
  \/ \E l \in Link : WriterWoken(l) \/ Read(l)

Next == Progress \/ \E l \in Link : RequestSending(l)

Spec == Init /\ [][Next]_vars

\* The kernel runs what can run and lets time pass, and readers do read; no
\* task has to make another call.
FairSpec == Spec /\ WF_vars(Progress)

-----------------------------------------------------------------------------
(***************************************************************************)
(* Properties.                                                             *)
(***************************************************************************)
Request == [from : Link, age : 0..MaxAge]

\* Every variable holds a value of its kind.
TypeOK ==
  /\ finite \in BOOLEAN /\ sendQueue \in Seq(Request)
  /\ room \in 0..Word - 1 /\ data \in 0..Word - 1
  /\ netifPc \in {"idle", "sending"} /\ transfer \in Link \cup {NoLink}
  /\ delay \in Nat
  /\ writerPc \in [Link -> {"out", "blocked"}] /\ age \in [Link -> 0..MaxAge]
  /\ completed \in [Link -> Nat] /\ outstanding \in [Link -> 0..MaxOutstanding]
  /\ pending \subseteq {"send_request_ev", "send_request_completed"}
  /\ runNetif \in BOOLEAN /\ runWriters \subseteq Link

\* Messages of a link that hold room in the buffer: queued or in transfer.
Queued(q, l) == Cardinality({i \in 1..Len(q) : q[i].from = l})

One(b) == IF b THEN 1 ELSE 0

Held(l) == Queued(sendQueue, l) + One(transfer = l)

\* What the links have in the buffer adds up to.
Total(bits) ==
  LET sum[S \in SUBSET Link] ==
        IF S = {} THEN 0 ELSE LET l == CHOOSE l \in S : TRUE IN bits[l] + sum[S \ {l}]
  IN  sum[Link]

HeldBits == Total([l \in Link |-> Held(l) * Size[l]])

\* cur_data_in_tx_buffer is what the messages in the buffer add up to, modulo the
\* width of the counter; in a finite buffer it never exceeds the size, and the room
\* is the rest: neither unsigned counter wraps around, whichever request is
\* dispatched first.
BufferAccounted ==
  /\ data = HeldBits % Word
  /\ finite => data = HeldBits /\ data <= BufferSize /\ room = BufferSize - data

\* "Unexpected situation": dispatch() is never called with an empty queue.
DispatchFindsRequest == runNetif /\ netifPc = "idle" => sendQueue # <<>>

\* "send requests are served in a FIFO basis (former requests are served
\* first)": no request made later is dispatched before one made earlier.  In a
\* finite buffer a request that waits for room may be overtaken.
ServedInRequestOrder ==
  [][~finite /\ Len(sendQueue') < Len(sendQueue) =>
       LET i == Dispatched(sendQueue)
       IN  \A a \in Ages : a <= sendQueue[i].age]_vars

\* Where the static schedule names a link first.
Position(l) == Least({k \in 1..Len(CommSchedule) : CommSchedule[k] = l})

\* The order of concurrent requests is that of the static schedule, from
\* whatever order they were inserted in.
ConcurrentInScheduleOrder ==
  [][Len(sendQueue') < Len(sendQueue) /\ CommSchedule # <<>> =>
       \A i \in Synchronous(sendQueue) :
         Position(transfer') <= Position(sendQueue[i].from)]_vars

\* "notification to let pending send requests because of tx buffer full": a
\* caller that waits for room is released in the end, unless the error report
\* of dispatch() ends the simulation first.
BlockedWriterReleased ==
  \A l \in Link : writerPc[l] = "blocked" ~> writerPc[l] = "out" \/ ~DispatchFindsRequest
=============================================================================
