----------------------------- MODULE FifoBuffer -----------------------------
(***************************************************************************)
(* The system level channels fifo_buffer<T> that leave one processing      *)
(* element, composed with its network interface.  write() first pays for   *)
(* the transfer, then stores the message in the sc_fifo it derives from;   *)
(* read() first takes a completed transfer, then the message.  How the     *)
(* transfer is paid depends on the mapping of the channel:                 *)
(*   "netif"  request_sending delegates it to the network interface;       *)
(*   "PE"     the writer itself waits for the delay, inside of one element *)
(*            or between elements without network interface;               *)
(*   "none"   there is no physical link, and no delay.                     *)
(* An sc_fifo shows what was written or read one delta cycle later, so its *)
(* two ends never meet in one evaluate phase.                              *)
(*                                                                         *)
(* The waiting_comm_sync signal that both calls raise and the wait for the *)
(* processor they end with are those of semaphore::wait (TaskScheduling).  *)
(***************************************************************************)
EXTENDS NetworkInterface

CONSTANTS
  Mappings,    \* the routes end_of_elaboration may give to the channels
  Capacity,    \* of each channel: the size of the sc_fifo
  Payload,     \* of each channel: the values of its type T
  NoValue,     \* the writer is outside of write()
  Initial      \* of each channel: the messages of initial_write

ASSUME FifoBufferAssumption ==
  /\ Mappings \subseteq [Link -> {"netif", "PE", "none"}]
  /\ Capacity \in [Link -> Nat \ {0}]
  /\ Initial \in [Link -> Seq(UNION {Payload[l] : l \in Link})]
  /\ \A l \in Link : NoValue \notin Payload[l] /\ Initial[l] \in Seq(Payload[l])
  /\ \A l \in Link : Len(Initial[l]) <= Capacity[l] /\ Capacity[l] < MaxOutstanding

VARIABLES
  route,        \* of each channel: "netif", "PE" or "none"
  fifo,         \* of each channel: the messages in the ring buffer of the sc_fifo
  numWritten, numRead,   \* m_num_written, m_num_read: since the last update phase
  writePc,      \* where the writer waits, "out" when it is outside of write()
  message,      \* the message the writer has not stored yet
  commDelay,    \* time left to the end of the writer's wait(comm_delay)
  readPc,       \* where the reader waits, "out" when it is outside of read()
  runWrite, runRead   \* writers and readers the evaluate phase has still to run

fifoVars == <<route, fifo, numWritten, numRead>>
endVars  == <<writePc, message, commDelay, readPc, runWrite, runRead>>
netVars  == <<netifVars, bufferVars, writerVars, channelVars, pending, runNetif, runWriters>>
allVars  == <<netVars, fifoVars, endVars>>

Resolved(l) == route[l] # "none"   \* assoc_plink.resolved()

-----------------------------------------------------------------------------
(***************************************************************************)
(* sc_fifo<T>::write and read, called when the message has to be stored or *)
(* taken: the thread goes on, or waits for the other end.                  *)
(***************************************************************************)
\* Variant: the places of the messages read since the last update count as free.
NumFreeAtOnce(l) == Capacity[l] - Len(fifo[l])

NumFree(l) == Capacity[l] - Len(fifo[l]) - numRead[l]

NumAvailable(l) == Len(fifo[l]) - numWritten[l]

\* Variant: a message that finds the fifo full is dropped.
PutOrDrop(l, m) ==
  /\ IF NumFree(l) > 0
     THEN /\ fifo' = [fifo EXCEPT ![l] = Append(@, m)]
          /\ numWritten' = [numWritten EXCEPT ![l] = @ + 1]
          /\ UNCHANGED <<route, numRead>>
     ELSE UNCHANGED fifoVars
  /\ writePc' = [writePc EXCEPT ![l] = "out"]
  /\ message' = [message EXCEPT ![l] = NoValue]

Put(l, m) ==
  IF NumFree(l) > 0
  THEN /\ fifo' = [fifo EXCEPT ![l] = Append(@, m)]
       /\ numWritten' = [numWritten EXCEPT ![l] = @ + 1]
       /\ writePc' = [writePc EXCEPT ![l] = "out"]
       /\ message' = [message EXCEPT ![l] = NoValue]
       /\ UNCHANGED <<route, numRead>>
  ELSE /\ writePc' = [writePc EXCEPT ![l] = "full"]
       /\ message' = [message EXCEPT ![l] = m]
       /\ UNCHANGED fifoVars

Get(l) ==
  IF NumAvailable(l) > 0
  THEN /\ fifo' = [fifo EXCEPT ![l] = Tail(@)]
       /\ numRead' = [numRead EXCEPT ![l] = @ + 1]
       /\ readPc' = [readPc EXCEPT ![l] = "out"]
       /\ UNCHANGED <<route, numWritten>>
  ELSE readPc' = [readPc EXCEPT ![l] = "empty"] /\ UNCHANGED fifoVars

-----------------------------------------------------------------------------
(***************************************************************************)
(* fifo_buffer<T>::write.                                                  *)
(***************************************************************************)
Hold(l, m, pc) ==
  /\ writePc' = [writePc EXCEPT ![l] = pc] /\ message' = [message EXCEPT ![l] = m]
  /\ UNCHANGED fifoVars

\* After request_sending: the thread waits in it for room, or stores the message.
Requested(l, m) == IF writerPc'[l] = "blocked" THEN Hold(l, m, "request") ELSE Put(l, m)

WriteThroughNetif(l) ==
  /\ route[l] = "netif" /\ writePc[l] = "out"
  /\ RequestSending(l)
  /\ \E m \in Payload[l] : Requested(l, m)
  /\ UNCHANGED <<commDelay, readPc, runWrite, runRead>>

WriterGranted(l) ==
  /\ WriterWoken(l)
  /\ Requested(l, message[l])
  /\ UNCHANGED <<commDelay, readPc, runWrite, runRead>>

WriteThroughPE(l) ==
  /\ route[l] = "PE" /\ writePc[l] = "out"
  /\ \E m \in Payload[l] : Hold(l, m, "delay")
  /\ \E d \in Delays[l] : commDelay' = [commDelay EXCEPT ![l] = d]
  /\ UNCHANGED <<netVars, readPc, runWrite, runRead>>

\* Variant: nobody is woken.
WokenNone(l) == {}

\* sc_semaphore::post wakes the reader in the same evaluate phase.
Woken(l) == IF readPc[l] = "transfer" THEN {l} ELSE {}

\* The end of the delay is posted before the message is stored.
WriterDelayed(l) ==
  /\ l \in runWrite /\ writePc[l] = "delay"
  /\ runWrite' = runWrite \ {l} /\ runRead' = runRead \cup Woken(l)
  /\ completed' = [completed EXCEPT ![l] = @ + 1]
  /\ outstanding' = [outstanding EXCEPT ![l] = @ + 1]
  /\ Put(l, message[l])
  /\ UNCHANGED <<netifVars, bufferVars, writerVars, pending, runNetif, runWriters,
                 commDelay, readPc>>

WriteUnmapped(l) ==
  /\ route[l] = "none" /\ writePc[l] = "out"
  /\ \E m \in Payload[l] : Put(l, m)
  /\ UNCHANGED <<netVars, commDelay, readPc, runWrite, runRead>>

WriterRetries(l) ==
  /\ l \in runWrite /\ writePc[l] = "full"
  /\ runWrite' = runWrite \ {l}
  /\ Put(l, message[l])
  /\ UNCHANGED <<netVars, commDelay, readPc, runRead>>

-----------------------------------------------------------------------------
(***************************************************************************)
(* fifo_buffer<T>::read.                                                   *)
(***************************************************************************)
\* completed_transactions->wait(), and sc_fifo<T>::read once it has returned.
TakeTransfer(l) ==
  IF completed[l] > 0
  THEN Read(l) /\ Get(l)
  ELSE readPc' = [readPc EXCEPT ![l] = "transfer"] /\ UNCHANGED <<netVars, fifoVars>>

ReadCall(l) ==
  /\ readPc[l] = "out"
  /\ IF Resolved(l) THEN TakeTransfer(l) ELSE Get(l) /\ UNCHANGED netVars
  /\ UNCHANGED <<writePc, message, commDelay, runWrite, runRead>>

ReaderPosted(l) ==
  /\ l \in runRead /\ readPc[l] = "transfer"
  /\ runRead' = runRead \ {l}
  /\ TakeTransfer(l)
  /\ UNCHANGED <<writePc, message, commDelay, runWrite>>

ReaderRetries(l) ==
  /\ l \in runRead /\ readPc[l] = "empty"
  /\ runRead' = runRead \ {l}
  /\ Get(l)
  /\ UNCHANGED <<netVars, writePc, message, commDelay, runWrite>>

-----------------------------------------------------------------------------
(***************************************************************************)
(* The network interface and the kernel.                                   *)
(***************************************************************************)
NetifDispatches == NetifWoken /\ UNCHANGED <<fifoVars, endVars>>

\* cur_msg_req.completed_transactions_p->post()
NetifPosts ==
  /\ NetifCompletes
  /\ runRead' = runRead \cup Woken(transfer)
  /\ UNCHANGED <<fifoVars, writePc, message, commDelay, readPc, runWrite>>

PhaseOver == EvaluationOver /\ runWrite = {} /\ runRead = {}

\* A wait for no time ends in the next delta cycle.
ZeroWaits == {l \in Link : writePc[l] = "delay" /\ commDelay[l] = 0}

Settled ==
  /\ PhaseOver /\ pending = {} /\ ZeroWaits = {}
  /\ \A l \in Link : numWritten[l] = 0 /\ numRead[l] = 0

\* Variant: data_read is not notified when something was written too.
FifoDeltaOneEvent ==
  /\ PhaseOver /\ ~Settled
  /\ Notified
  /\ numWritten' = [l \in Link |-> 0] /\ numRead' = numWritten'
  /\ runWrite' = ZeroWaits \cup {l \in Link : /\ writePc[l] = "full"
                                              /\ numRead[l] > 0 /\ numWritten[l] = 0}
  /\ runRead' = {l \in Link : readPc[l] = "empty" /\ numWritten[l] > 0}
  /\ UNCHANGED <<route, fifo, writePc, message, commDelay, readPc>>

\* sc_fifo::update, and the notifications of data_read and data_written.
FifoDelta ==
  /\ PhaseOver /\ ~Settled
  /\ Notified
  /\ numWritten' = [l \in Link |-> 0] /\ numRead' = numWritten'
  /\ runWrite' = ZeroWaits \cup {l \in Link : writePc[l] = "full" /\ numRead[l] > 0}
  /\ runRead' = {l \in Link : readPc[l] = "empty" /\ numWritten[l] > 0}
  /\ UNCHANGED <<route, fifo, writePc, message, commDelay, readPc>>

FifoTick ==
  /\ Settled
  /\ Elapsed
  /\ commDelay' = [l \in Link |-> IF commDelay[l] > 0 THEN commDelay[l] - 1 ELSE 0]
  /\ runWrite' = {l \in Link : commDelay[l] = 1}
  /\ UNCHANGED <<fifoVars, writePc, message, readPc, runRead>>

-----------------------------------------------------------------------------
\* Variant: initial_write does not post.
FifoInitNotPosted ==
  /\ route \in Mappings
  /\ InitWith([l \in Link |-> 0])
  /\ fifo = Initial
  /\ numWritten = [l \in Link |-> 0] /\ numRead = numWritten /\ commDelay = numWritten
  /\ writePc = [l \in Link |-> "out"] /\ readPc = writePc
  /\ message = [l \in Link |-> NoValue]
  /\ runWrite = {} /\ runRead = {}

\* initial_write stores each message and, on a resolved link, posts it.
FifoInit ==
  /\ route \in Mappings
  /\ InitWith([l \in Link |-> IF Resolved(l) THEN Len(Initial[l]) ELSE 0])
  /\ fifo = Initial
  /\ numWritten = [l \in Link |-> 0] /\ numRead = numWritten /\ commDelay = numWritten
  /\ writePc = [l \in Link |-> "out"] /\ readPc = writePc
  /\ message = [l \in Link |-> NoValue]
  /\ runWrite = {} /\ runRead = {}

WriteCall(l) == WriteThroughNetif(l) \/ WriteThroughPE(l) \/ WriteUnmapped(l)

\* What runs without a new call of a task.
Running ==
  \/ FifoDelta \/ FifoTick \/ NetifDispatches \/ NetifPosts
  \/ \E l \in Link : \/ WriterGranted(l) \/ WriterDelayed(l) \/ WriterRetries(l)
                     \/ ReaderPosted(l) \/ ReaderRetries(l)

FifoNext == Running \/ \E l \in Link : WriteCall(l) \/ ReadCall(l)

FifoSpec == FifoInit /\ [][FifoNext]_allVars

\* Tasks do not exchange messages for ever at one time, which would hang the
\* simulation: while a delay is left, time passes in the end.
DelayLeft  == delay > 0 \/ \E l \in Link : commDelay[l] > 0
TimePasses == []<><<FifoTick>>_allVars \/ []<>~DelayLeft

\* The kernel runs what can run, and the reader of each channel calls read()
\* again; no writer has to write.
FairFifoSpec ==
  /\ FifoSpec /\ WF_allVars(Running) /\ TimePasses
  /\ \A l \in Link : WF_allVars(ReadCall(l))

-----------------------------------------------------------------------------
(***************************************************************************)
(* Properties.                                                             *)
(***************************************************************************)
\* Every variable holds a value of its kind, and the counters of the sc_fifo
\* stay within its size.
FifoTypeOK ==
  /\ TypeOK
  /\ route \in Mappings
  /\ \A l \in Link : /\ fifo[l] \in Seq(Payload[l])
                     /\ message[l] \in Payload[l] \cup {NoValue}
                     /\ numWritten[l] \in 0..Len(fifo[l])
                     /\ numRead[l] \in 0..Capacity[l] - Len(fifo[l])
  /\ writePc \in [Link -> {"out", "request", "delay", "full"}]
  /\ commDelay \in [Link -> Nat]
  /\ readPc \in [Link -> {"out", "transfer", "empty"}]
  /\ runWrite \subseteq Link /\ runRead \subseteq Link

\* The messages of a channel: those stored and the one being written.
Content(l) == fifo[l] \o IF writePc[l] = "out" THEN <<>> ELSE <<message[l]>>

Channel == INSTANCE LogicChannel WITH content <- [l \in Link |-> Content(l)]

\* The channel is a bounded first-in first-out channel, whatever the transfer
\* of its messages goes through: none is lost, repeated or overtaken.
ImplementsLogicChannel == Channel!Spec

\* completed_transactions and the sc_fifo agree: every message of a mapped
\* channel still has its transfer ahead, or a completion waits for the reader,
\* or the reader has taken its completion and is about to take it.
TransfersMatchContent ==
  \A l \in Link : Resolved(l) =>
    Len(Content(l)) = completed[l] + Held(l) + One(writePc[l] \in {"request", "delay"})
                        + One(readPc[l] = "empty")

\* "the read is releases when the transfer is completed": once its transfer is
\* complete a reader never lets time pass, neither in the semaphore nor in the
\* fifo, although the completion is posted before the message is stored.
ReadEndsWithTransfer ==
  Settled => \A l \in Link :
    /\ readPc[l] = "transfer" => completed[l] = 0
    /\ readPc[l] = "empty" => ~Resolved(l) /\ Content(l) = <<>>

\* A writer lets time pass in sc_fifo::write only while the fifo is full.
FullWriterWoken ==
  Settled => \A l \in Link : writePc[l] = "full" => Len(fifo[l]) = Capacity[l]

\* Every message is delivered: a channel is empty from some time on, or its
\* reader goes on taking messages.  A finite transmission buffer is left out:
\* its writers may wait for ever.
MessagesDelivered ==
  \A l \in Link :
    \/ <>[](finite \/ Content(l) = <<>>)
    \/ []<><<numRead'[l] > numRead[l]>>_allVars
=============================================================================
