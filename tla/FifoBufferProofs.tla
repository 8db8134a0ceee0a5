-------------------------- MODULE FifoBufferProofs --------------------------
(***************************************************************************)
(* The channels that leave a processing element, for any links, routes,    *)
(* capacities, messages and delays: completions and messages agree, nobody *)
(* sleeps on what is there, and every channel is a first-in first-out      *)
(* channel.                                                                *)
(***************************************************************************)
EXTENDS FifoBuffer, NetworkInterfaceProofs

\* The variables are functions of the channels.
FifoShapes ==
  /\ route \in Mappings
  /\ DOMAIN fifo = Link /\ DOMAIN message = Link
  /\ numWritten \in [Link -> Nat] /\ numRead \in [Link -> Nat] /\ commDelay \in [Link -> Nat]
  /\ writePc \in [Link -> {"out", "request", "delay", "full"}]
  /\ readPc \in [Link -> {"out", "transfer", "empty"}]
  /\ runWrite \subseteq Link /\ runRead \subseteq Link

\* The sc_fifo of a channel stays within its size, and the writer keeps the
\* message it has not stored.
Stored(l) ==
  /\ fifo[l] \in Seq(Payload[l])
  /\ numWritten[l] \in 0..Len(fifo[l]) /\ numRead[l] \in 0..Capacity[l] - Len(fifo[l])
  /\ message[l] \in IF writePc[l] = "out" THEN {NoValue} ELSE Payload[l]

\* The writer and the interface agree on who waits for room, and a channel
\* without physical link never calls it.
Routed(l) ==
  /\ writePc[l] = "request" <=> writerPc[l] = "blocked"
  /\ writePc[l] \in {"request", "delay"} => Resolved(l)
  /\ ~Resolved(l) => outstanding[l] = 0

\* Every message has its transfer ahead, or its completion, or a reader that has
\* taken the completion.
Delayed(l) == One(writePc[l] = "delay")
Owed(l)    == One(readPc[l] = "empty")

Matched(l) == Resolved(l) => Len(Content(l)) = completed[l] + InNetif(l) + Delayed(l) + Owed(l)

\* Whoever waits for something that is there is about to run.
Awake(l) ==
  /\ readPc[l] = "transfer" /\ completed[l] > 0 => l \in runRead
  /\ readPc[l] = "empty" /\ NumAvailable(l) > 0 => l \in runRead
  /\ writePc[l] = "full" /\ NumFree(l) > 0 => l \in runWrite

LinkInv(l) == Stored(l) /\ Routed(l) /\ Matched(l) /\ Awake(l)

FifoInv == BufferInv /\ SentAccounted /\ FifoShapes /\ \A l \in Link : LinkInv(l)

-----------------------------------------------------------------------------
(***************************************************************************)
(* The messages of one channel.                                            *)
(***************************************************************************)
LEMMA SequenceFacts ==
  ASSUME NEW S, NEW s \in Seq(S)
  PROVE  /\ Len(s) \in Nat /\ s \o <<>> = s
         /\ \A m \in S : /\ s \o <<m>> = Append(s, m) /\ Append(s, m) \in Seq(S)
                         /\ Len(Append(s, m)) = Len(s) + 1 /\ Append(s, m) # <<>>
         /\ Len(s) > 0 => /\ s # <<>> /\ Tail(s) \in Seq(S) /\ Len(Tail(s)) = Len(s) - 1
                          /\ \A m \in S : Tail(Append(s, m)) = Append(Tail(s), m)
<1>1. Len(s) \in Nat /\ s \o <<>> = s
  BY LenProperties, ConcatEmptySeq
<1>2. ASSUME NEW m \in S
      PROVE  /\ s \o <<m>> = Append(s, m) /\ Append(s, m) \in Seq(S)
             /\ Len(Append(s, m)) = Len(s) + 1 /\ Append(s, m) # <<>>
  BY <1>1, AppendProperties, AppendIsConcat
<1>3. ASSUME Len(s) > 0  PROVE s # <<>> /\ Tail(s) \in Seq(S) /\ Len(Tail(s)) = Len(s) - 1
  BY <1>1, <1>3, HeadTailProperties
<1>4. ASSUME Len(s) > 0, NEW m \in S  PROVE Tail(Append(s, m)) = Append(Tail(s), m)
  <2>1. s # <<>>
    BY <1>3, <1>4
  <2> QED  BY <2>1, <1>1
<1> QED  BY <1>1, <1>2, <1>3, <1>4

LEMMA AppendFacts ==
  ASSUME NEW S, NEW s \in Seq(S), NEW m \in S
  PROVE  /\ s \o <<m>> = Append(s, m) /\ Append(s, m) \in Seq(S)
         /\ Len(Append(s, m)) = Len(s) + 1 /\ Append(s, m) # <<>>
BY SequenceFacts, Zenon

LEMMA ContentIs ==
  ASSUME FifoShapes, NEW l \in Link, Stored(l)
  PROVE  /\ Content(l) = IF writePc[l] = "out" THEN fifo[l] ELSE Append(fifo[l], message[l])
         /\ Len(Content(l)) = Len(fifo[l]) + One(writePc[l] # "out")
         /\ Len(fifo[l]) \in Nat /\ Len(fifo[l]) <= Capacity[l] /\ Capacity[l] \in Nat \ {0}
         /\ Content(l) \in Seq(Payload[l])
<1>0. Capacity[l] \in Nat \ {0}
  BY FifoBufferAssumption
<1>1. fifo[l] \in Seq(Payload[l]) /\ Len(fifo[l]) \in Nat
  BY SequenceFacts DEF Stored
<1>2. numRead[l] \in 0..Capacity[l] - Len(fifo[l])
  BY DEF Stored
<1>3. Len(fifo[l]) <= Capacity[l]
  BY <1>0, <1>1, <1>2
<1>4. CASE writePc[l] = "out"
  <2>1. Content(l) = fifo[l]
    BY <1>1, <1>4, SequenceFacts DEF Content
  <2> QED  BY <1>0, <1>1, <1>3, <1>4, <2>1 DEF One
<1>5. CASE writePc[l] # "out"
  <2>1. message[l] \in Payload[l]
    BY <1>5 DEF Stored
  <2>2. Content(l) = Append(fifo[l], message[l])
    BY <1>1, <1>5, <2>1, SequenceFacts DEF Content
  <2>3. Len(Append(fifo[l], message[l])) = Len(fifo[l]) + 1 /\ Append(fifo[l], message[l]) \in Seq(Payload[l])
    BY <1>1, <2>1, SequenceFacts
  <2> QED  BY <1>0, <1>1, <1>3, <1>5, <2>2, <2>3 DEF One
<1> QED  BY <1>4, <1>5

\* The sc_fifo and the writer of link k, which a step of another leaves alone.
WriteSide(k) == <<fifo[k], numWritten[k], numRead[k], writePc[k], message[k]>>

\* The sc_fifo of a channel as the other end sees it.
InFifo(l) ==
  /\ fifo[l] \in Seq(Payload[l])
  /\ numWritten[l] \in 0..Len(fifo[l]) /\ numRead[l] \in 0..Capacity[l] - Len(fifo[l])

WriteShapes ==
  /\ route \in Mappings
  /\ DOMAIN fifo = Link /\ DOMAIN message = Link
  /\ numWritten \in [Link -> Nat] /\ numRead \in [Link -> Nat]
  /\ writePc \in [Link -> {"out", "request", "delay", "full"}]

LEMMA PutKeeps ==
  ASSUME WriteShapes, NEW l \in Link, NEW m \in Payload[l], InFifo(l), Put(l, m)
  PROVE  /\ WriteShapes' /\ Stored(l)' /\ route' = route
         /\ Content(l)' = Append(fifo[l], m)
         /\ writePc'[l] \in {"out", "full"}
         /\ NumAvailable(l)' = NumAvailable(l)
         /\ writePc'[l] = "full" => ~(NumFree(l)' > 0)
         /\ \A k \in Link \ {l} : WriteSide(k)' = WriteSide(k)
<1>0. Capacity[l] \in Nat /\ fifo[l] \in Seq(Payload[l]) /\ Len(fifo[l]) \in Nat
  BY FifoBufferAssumption, SequenceFacts DEF InFifo
<1>1. /\ Append(fifo[l], m) \in Seq(Payload[l]) /\ Len(Append(fifo[l], m)) = Len(fifo[l]) + 1
      /\ Append(fifo[l], m) \o <<>> = Append(fifo[l], m) /\ fifo[l] \o <<m>> = Append(fifo[l], m)
  <2>1. /\ Append(fifo[l], m) \in Seq(Payload[l]) /\ Len(Append(fifo[l], m)) = Len(fifo[l]) + 1
        /\ fifo[l] \o <<m>> = Append(fifo[l], m)
    BY <1>0, AppendFacts
  <2>2. Append(fifo[l], m) \o <<>> = Append(fifo[l], m)
    BY <2>1, SequenceFacts
  <2> QED  BY <2>1, <2>2
<1>2. CASE NumFree(l) > 0
  <2>0. /\ fifo' = [fifo EXCEPT ![l] = Append(@, m)]
        /\ numWritten' = [numWritten EXCEPT ![l] = @ + 1]
        /\ writePc' = [writePc EXCEPT ![l] = "out"]
        /\ message' = [message EXCEPT ![l] = NoValue]
        /\ route' = route /\ numRead' = numRead
    BY <1>2 DEF Put
  <2>1. WriteShapes'
    BY <2>0 DEF WriteShapes
  <2>2. /\ fifo'[l] = Append(fifo[l], m) /\ numWritten'[l] = numWritten[l] + 1
        /\ writePc'[l] = "out" /\ message'[l] = NoValue /\ numRead'[l] = numRead[l]
    BY <2>0 DEF WriteShapes
  <2>3. \A k \in Link \ {l} : WriteSide(k)' = WriteSide(k)
    BY <2>0 DEF WriteShapes, WriteSide
  <2>4. Stored(l)'
    BY <1>0, <1>1, <1>2, <2>2 DEF Stored, InFifo, NumFree
  <2>5. Content(l)' = Append(fifo[l], m)
    BY <1>1, <2>2 DEF Content
  <2>6. NumAvailable(l)' = NumAvailable(l)
    <3>1. numWritten[l] \in Nat
      BY DEF WriteShapes
    <3>2. Len(fifo'[l]) = Len(fifo[l]) + 1
      BY <1>1, <2>2
    <3>3. PICK n \in Nat, w \in Nat : n = Len(fifo[l]) /\ w = numWritten[l]
      BY <1>0, <3>1
    <3>4. NumAvailable(l)' = (n + 1) - (w + 1) /\ NumAvailable(l) = n - w
      BY <2>2, <3>2, <3>3 DEF NumAvailable
    <3> QED  BY <3>4
  <2> QED  BY <2>0, <2>1, <2>2, <2>3, <2>4, <2>5, <2>6
<1>3. CASE ~(NumFree(l) > 0)
  <2>0. /\ writePc' = [writePc EXCEPT ![l] = "full"]
        /\ message' = [message EXCEPT ![l] = m]
        /\ route' = route /\ numRead' = numRead /\ fifo' = fifo /\ numWritten' = numWritten
    BY <1>3 DEF Put, fifoVars
  <2>1. WriteShapes'
    BY <2>0 DEF WriteShapes
  <2>2. writePc'[l] = "full" /\ message'[l] = m
    BY <2>0 DEF WriteShapes
  <2>3. \A k \in Link \ {l} : WriteSide(k)' = WriteSide(k)
    BY <2>0 DEF WriteShapes, WriteSide
  <2>4. Stored(l)'
    BY <2>0, <2>2 DEF Stored, InFifo
  <2>5. Content(l)' = Append(fifo[l], m)
    BY <1>1, <2>0, <2>2 DEF Content
  <2>6. NumAvailable(l)' = NumAvailable(l) /\ NumFree(l)' = NumFree(l)
    BY <2>0 DEF NumAvailable, NumFree
  <2> QED  BY <1>3, <2>0, <2>1, <2>2, <2>3, <2>4, <2>5, <2>6
<1> QED  BY <1>2, <1>3

LEMMA HoldKeeps ==
  ASSUME WriteShapes, NEW l \in Link, NEW m \in Payload[l], NEW pc \in {"request", "delay"},
         InFifo(l), Hold(l, m, pc)
  PROVE  /\ WriteShapes' /\ Stored(l)' /\ route' = route
         /\ Content(l)' = Append(fifo[l], m)
         /\ writePc'[l] = pc
         /\ NumAvailable(l)' = NumAvailable(l)
         /\ \A k \in Link \ {l} : WriteSide(k)' = WriteSide(k)
<1>0. /\ writePc' = [writePc EXCEPT ![l] = pc] /\ message' = [message EXCEPT ![l] = m]
      /\ route' = route /\ numRead' = numRead /\ fifo' = fifo /\ numWritten' = numWritten
  BY DEF Hold, fifoVars
<1>1. WriteShapes'
  BY <1>0 DEF WriteShapes
<1>2. writePc'[l] = pc /\ pc # "out" /\ message'[l] = m
  BY <1>0 DEF WriteShapes
<1>3. \A k \in Link \ {l} : WriteSide(k)' = WriteSide(k)
  BY <1>0 DEF WriteShapes, WriteSide
<1>4. Stored(l)'
  BY <1>0, <1>2 DEF Stored, InFifo
<1>5. fifo[l] \o <<m>> = Append(fifo[l], m)
  BY SequenceFacts DEF InFifo
<1>6. Content(l)' = Append(fifo[l], m)
  BY <1>0, <1>2, <1>5 DEF Content
<1>7. NumAvailable(l)' = NumAvailable(l)
  BY <1>0 DEF NumAvailable
<1> QED  BY <1>0, <1>1, <1>2, <1>3, <1>4, <1>6, <1>7

LEMMA GetKeeps ==
  ASSUME FifoShapes, NEW l \in Link, Stored(l), Get(l), UNCHANGED <<writePc, message>>
  PROVE  /\ WriteShapes' /\ Stored(l)' /\ route' = route
         /\ readPc' \in [Link -> {"out", "transfer", "empty"}]
         /\ \A k \in Link \ {l} : WriteSide(k)' = WriteSide(k) /\ readPc'[k] = readPc[k]
         /\ NumFree(l)' = NumFree(l)
         /\ \/ /\ readPc'[l] = "out" /\ Content(l) # <<>> /\ Content(l)' = Tail(Content(l))
               /\ Len(Content(l)') = Len(Content(l)) - 1
            \/ /\ readPc'[l] = "empty" /\ Content(l)' = Content(l) /\ ~(NumAvailable(l)' > 0)
<1>0. /\ Capacity[l] \in Nat \ {0} /\ fifo[l] \in Seq(Payload[l]) /\ Len(fifo[l]) \in Nat
      /\ numWritten[l] \in Nat /\ numRead[l] \in Nat
  BY FifoBufferAssumption, SequenceFacts DEF Stored, FifoShapes
<1>1. CASE NumAvailable(l) > 0
  <2>0. /\ fifo' = [fifo EXCEPT ![l] = Tail(@)]
        /\ numRead' = [numRead EXCEPT ![l] = @ + 1]
        /\ readPc' = [readPc EXCEPT ![l] = "out"]
        /\ route' = route /\ numWritten' = numWritten
    BY <1>1 DEF Get
  <2>1. Len(fifo[l]) > 0
    BY <1>0, <1>1 DEF NumAvailable
  <2>2. /\ Tail(fifo[l]) \in Seq(Payload[l]) /\ Len(Tail(fifo[l])) = Len(fifo[l]) - 1
        /\ fifo[l] # <<>>
        /\ \A m \in Payload[l] : Tail(Append(fifo[l], m)) = Append(Tail(fifo[l]), m)
    BY <1>0, <2>1, SequenceFacts
  <2>3. WriteShapes'
    BY <2>0 DEF WriteShapes, FifoShapes
  <2>4. /\ fifo'[l] = Tail(fifo[l]) /\ numRead'[l] = numRead[l] + 1
        /\ readPc'[l] = "out" /\ numWritten'[l] = numWritten[l]
    BY <2>0 DEF FifoShapes
  <2>5. /\ readPc' \in [Link -> {"out", "transfer", "empty"}]
        /\ \A k \in Link \ {l} : WriteSide(k)' = WriteSide(k) /\ readPc'[k] = readPc[k]
    BY <2>0 DEF FifoShapes, WriteSide
  <2>6. Stored(l)'
    <3>1. numWritten[l] \in 0..Len(fifo[l]) /\ numRead[l] \in 0..Capacity[l] - Len(fifo[l])
      BY DEF Stored
    <3>2. numWritten'[l] \in 0..Len(fifo'[l]) /\ numRead'[l] \in 0..Capacity[l] - Len(fifo'[l])
      BY <1>0, <1>1, <2>2, <2>4, <3>1 DEF NumAvailable
    <3> QED  BY <2>2, <2>4, <3>2 DEF Stored
  <2>7. NumFree(l)' = NumFree(l)
    <3>1. PICK c \in Nat, n \in Nat, r \in Nat :
            c = Capacity[l] /\ n = Len(fifo[l]) /\ r = numRead[l]
      BY <1>0
    <3>2. Len(fifo'[l]) = n - 1
      BY <2>2, <2>4, <3>1
    <3>3. NumFree(l)' = c - (n - 1) - (r + 1) /\ NumFree(l) = c - n - r
      BY <2>4, <3>1, <3>2 DEF NumFree
    <3> QED  BY <3>3
  <2>8. /\ Content(l) = IF writePc[l] = "out" THEN fifo[l] ELSE Append(fifo[l], message[l])
        /\ Len(Content(l)) = Len(fifo[l]) + One(writePc[l] # "out")
    BY ContentIs
  <2>9. /\ Content(l) # <<>> /\ Content(l)' = Tail(Content(l))
        /\ Len(Content(l)') = Len(Content(l)) - 1
    <3>1. CASE writePc[l] = "out"
      <4>1. Content(l)' = Tail(fifo[l])
        BY <2>2, <2>4, <3>1, SequenceFacts DEF Content
      <4> QED  BY <2>2, <2>8, <3>1, <4>1
    <3>2. CASE writePc[l] # "out"
      <4>1. message[l] \in Payload[l]
        BY <3>2 DEF Stored
      <4>2. /\ Tail(fifo[l]) \o <<message[l]>> = Append(Tail(fifo[l]), message[l])
            /\ Append(fifo[l], message[l]) # <<>>
            /\ Len(Append(fifo[l], message[l])) = Len(fifo[l]) + 1
            /\ Len(Append(Tail(fifo[l]), message[l])) = Len(Tail(fifo[l])) + 1
        BY <1>0, <2>2, <4>1, SequenceFacts
      <4>3. Content(l)' = Append(Tail(fifo[l]), message[l])
        BY <2>4, <3>2, <4>2 DEF Content
      <4> QED  BY <1>0, <2>2, <2>8, <3>2, <4>1, <4>2, <4>3
    <3> QED  BY <3>1, <3>2
  <2> QED  BY <2>0, <2>3, <2>4, <2>5, <2>6, <2>7, <2>9
<1>2. CASE ~(NumAvailable(l) > 0)
  <2>0. /\ readPc' = [readPc EXCEPT ![l] = "empty"]
        /\ route' = route /\ numRead' = numRead /\ fifo' = fifo /\ numWritten' = numWritten
    BY <1>2 DEF Get, fifoVars
  <2>1. WriteShapes' /\ Stored(l)'
    BY <2>0 DEF WriteShapes, FifoShapes, Stored
  <2>2. /\ readPc' \in [Link -> {"out", "transfer", "empty"}] /\ readPc'[l] = "empty"
        /\ \A k \in Link \ {l} : WriteSide(k)' = WriteSide(k) /\ readPc'[k] = readPc[k]
    BY <2>0 DEF FifoShapes, WriteSide
  <2>3. /\ NumFree(l)' = NumFree(l) /\ NumAvailable(l)' = NumAvailable(l)
        /\ Content(l)' = Content(l)
    BY <2>0 DEF NumFree, NumAvailable, Content
  <2> QED  BY <1>2, <2>0, <2>1, <2>2, <2>3
<1> QED  BY <1>1, <1>2

\* A step that does not touch link k, but may wake its ends, keeps its invariant.
LEMMA LinkFrame ==
  ASSUME NEW k \in Link, LinkInv(k), WriteSide(k)' = WriteSide(k), route' = route,
         readPc'[k] = readPc[k], completed'[k] = completed[k], outstanding'[k] = outstanding[k],
         writerPc'[k] = writerPc[k], InNetif(k)' = InNetif(k),
         k \in runRead => k \in runRead', k \in runWrite => k \in runWrite'
  PROVE  LinkInv(k)' /\ Content(k)' = Content(k)
<1>0. /\ fifo'[k] = fifo[k] /\ numWritten'[k] = numWritten[k] /\ numRead'[k] = numRead[k]
      /\ writePc'[k] = writePc[k] /\ message'[k] = message[k]
  BY DEF WriteSide
<1>1. Content(k)' = Content(k)
  BY <1>0 DEF Content
<1>2. Stored(k)'
  BY <1>0 DEF Stored, LinkInv
<1>3. Routed(k)'
  BY <1>0 DEF Routed, LinkInv, Resolved
<1>4. Matched(k)'
  BY <1>0, <1>1 DEF Matched, LinkInv, Resolved, Delayed, Owed
<1>5. Awake(k)'
  BY <1>0 DEF Awake, LinkInv, NumAvailable, NumFree
<1> QED  BY <1>1, <1>2, <1>3, <1>4, <1>5 DEF LinkInv

-----------------------------------------------------------------------------
(***************************************************************************)
(* The steps.  Each keeps the invariant, and either leaves the messages of *)
(* every channel as they are, or adds one at the end of one channel, or    *)
(* takes the first of one.                                                 *)
(***************************************************************************)
SameContent(K) == \A k \in K : Content(k)' = Content(k)

Sends(l, m) ==
  /\ Len(Content(l)) <= Capacity[l] /\ Content(l)' = Append(Content(l), m)
  /\ SameContent(Link \ {l})

Receives(l) ==
  /\ Content(l) # <<>> /\ Content(l)' = Tail(Content(l))
  /\ SameContent(Link \ {l})

ContentStep ==
  \/ SameContent(Link)
  \/ \E l \in Link : Receives(l) \/ \E m \in Payload[l] : Sends(l, m)

\* What the invariant says of one link, unfolded.
LEMMA LinkFacts ==
  ASSUME FifoInv, NEW l \in Link
  PROVE  /\ BufferInv /\ SentAccounted /\ FifoShapes /\ WriteShapes
         /\ Stored(l) /\ InFifo(l) /\ Routed(l) /\ Matched(l) /\ Awake(l)
         /\ completed[l] \in Nat /\ outstanding[l] \in Nat /\ InNetif(l) \in Nat
         /\ outstanding[l] = completed[l] + InNetif(l)
         /\ Len(fifo[l]) \in Nat /\ Len(fifo[l]) <= Capacity[l] /\ Capacity[l] \in Nat \ {0}
         /\ Len(Content(l)) = Len(fifo[l]) + One(writePc[l] # "out")
         /\ Content(l) = IF writePc[l] = "out" THEN fifo[l] ELSE Append(fifo[l], message[l])
<1>1. /\ BufferInv /\ SentAccounted /\ FifoShapes
      /\ Stored(l) /\ Routed(l) /\ Matched(l) /\ Awake(l)
  BY DEF FifoInv, LinkInv
<1>2. WriteShapes /\ InFifo(l)
  BY <1>1 DEF FifoShapes, WriteShapes, Stored, InFifo
<1>3. /\ completed[l] \in Nat /\ outstanding[l] \in Nat
      /\ outstanding[l] = completed[l] + InNetif(l)
  BY <1>1 DEF SentAccounted
<1>4. InNetif(l) \in Nat
  BY <1>1, HeldType DEF BufferInv, InNetif, One
<1> QED  BY <1>1, <1>2, <1>3, <1>4, ContentIs

\* After request_sending the writer waits in it, or has gone on to the sc_fifo.
LEMMA RequestedKeeps ==
  ASSUME WriteShapes, NEW l \in Link, NEW m \in Payload[l], InFifo(l), Requested(l, m)
  PROVE  /\ WriteShapes' /\ Stored(l)' /\ route' = route
         /\ Content(l)' = Append(fifo[l], m)
         /\ writePc'[l] # "delay" /\ (writePc'[l] = "request" <=> writerPc'[l] = "blocked")
         /\ NumAvailable(l)' = NumAvailable(l)
         /\ writePc'[l] = "full" => ~(NumFree(l)' > 0)
         /\ \A k \in Link \ {l} : WriteSide(k)' = WriteSide(k)
<1>1. CASE writerPc'[l] = "blocked"
  <2>1. Hold(l, m, "request")
    BY <1>1 DEF Requested
  <2> QED  BY <1>1, <2>1, HoldKeeps
<1>2. CASE writerPc'[l] # "blocked"
  <2>1. Put(l, m)
    BY <1>2 DEF Requested
  <2>2. /\ WriteShapes' /\ Stored(l)' /\ route' = route
        /\ Content(l)' = Append(fifo[l], m)
        /\ writePc'[l] \in {"out", "full"}
        /\ NumAvailable(l)' = NumAvailable(l)
        /\ writePc'[l] = "full" => ~(NumFree(l)' > 0)
        /\ \A k \in Link \ {l} : WriteSide(k)' = WriteSide(k)
    BY <2>1, PutKeeps
  <2> QED  BY <1>2, <2>2
<1> QED  BY <1>1, <1>2

\* What is left to show of a step of the writer of link l.
LEMMA WriterStep ==
  ASSUME FifoInv, NEW l \in Link, BufferInv', SentAccounted', WriteShapes', LinkInv(l)',
         commDelay' \in [Link -> Nat], runWrite' \subseteq Link, runRead' \subseteq Link,
         readPc' = readPc, route' = route,
         \A k \in Link \ {l} : /\ WriteSide(k)' = WriteSide(k)
                               /\ completed'[k] = completed[k] /\ outstanding'[k] = outstanding[k]
                               /\ writerPc'[k] = writerPc[k] /\ InNetif(k)' = InNetif(k)
                               /\ (k \in runRead => k \in runRead')
                               /\ (k \in runWrite => k \in runWrite')
  PROVE  FifoInv' /\ SameContent(Link \ {l})
<1>1. ASSUME NEW k \in Link \ {l}  PROVE LinkInv(k)' /\ Content(k)' = Content(k)
  <2>1. LinkInv(k)
    BY DEF FifoInv
  <2> QED  BY <1>1, <2>1, LinkFrame
<1>2. FifoShapes'
  BY DEF FifoInv, FifoShapes, WriteShapes
<1>3. \A k \in Link : LinkInv(k)'
  BY <1>1
<1> QED  BY <1>1, <1>2, <1>3 DEF FifoInv, SameContent

LEMMA WriteThroughNetifKeeps ==
  ASSUME FifoInv, NEW l \in Link, WriteThroughNetif(l)
  PROVE  FifoInv' /\ ContentStep
<1>0. PICK m \in Payload[l] : Requested(l, m)
  BY DEF WriteThroughNetif
<1>1. /\ route[l] = "netif" /\ writePc[l] = "out" /\ RequestSending(l)
      /\ UNCHANGED <<commDelay, readPc, runWrite, runRead>>
  BY DEF WriteThroughNetif
<1>2. /\ BufferInv /\ SentAccounted /\ FifoShapes /\ WriteShapes
      /\ InFifo(l) /\ Matched(l) /\ Awake(l)
      /\ completed[l] \in Nat /\ InNetif(l) \in Nat
      /\ Len(fifo[l]) \in Nat /\ Len(fifo[l]) <= Capacity[l]
      /\ Content(l) = fifo[l]
  BY <1>1, LinkFacts
<1>3. /\ BufferInv'
      /\ \A k \in Link : InNetif(k)' = InNetif(k) + One(k = l)
      /\ \A k \in Link \ {l} : writerPc'[k] = writerPc[k]
  BY <1>1, <1>2, RequestSendingKeeps
<1>4. SentAccounted'
  BY <1>1, <1>2, NetifStepKeeps DEF NetifStep
<1>5. /\ completed' = completed
      /\ \A k \in Link \ {l} : outstanding'[k] = outstanding[k]
  BY <1>1, <1>2 DEF RequestSending, SentAccounted
<1>6. /\ WriteShapes' /\ Stored(l)' /\ route' = route
      /\ Content(l)' = Append(fifo[l], m)
      /\ writePc'[l] # "delay" /\ (writePc'[l] = "request" <=> writerPc'[l] = "blocked")
      /\ NumAvailable(l)' = NumAvailable(l)
      /\ writePc'[l] = "full" => ~(NumFree(l)' > 0)
      /\ \A k \in Link \ {l} : WriteSide(k)' = WriteSide(k)
  BY <1>0, <1>2, RequestedKeeps
<1>7. LinkInv(l)'
  <2>1. Routed(l)'
    BY <1>1, <1>6 DEF Routed, Resolved
  <2>2. Len(Append(fifo[l], m)) = Len(fifo[l]) + 1
    BY <1>2, AppendFacts DEF InFifo
  <2>3. Len(fifo[l]) = completed[l] + InNetif(l) + 0 + Owed(l)
    BY <1>1, <1>2 DEF Matched, Resolved, Delayed, One
  <2>4. Matched(l)'
    <3>1. /\ Len(Content(l)') = Len(fifo[l]) + 1 /\ InNetif(l)' = InNetif(l) + 1
          /\ Delayed(l)' = 0 /\ Owed(l)' = Owed(l) /\ Owed(l) \in Nat
      BY <1>1, <1>3, <1>6, <2>2 DEF Delayed, Owed, One
    <3> QED  BY <1>2, <1>5, <2>3, <3>1 DEF Matched
  <2>5. Awake(l)'
    BY <1>1, <1>2, <1>5, <1>6 DEF Awake
  <2> QED  BY <1>6, <2>1, <2>4, <2>5 DEF LinkInv
<1>8. FifoInv' /\ SameContent(Link \ {l})
  <2>1. ASSUME NEW k \in Link \ {l}  PROVE InNetif(k)' = InNetif(k)
    <3>1. InNetif(k) \in Nat
      BY LinkFacts
    <3> QED  BY <1>3, <3>1 DEF One
  <2>2. commDelay' \in [Link -> Nat] /\ runWrite' \subseteq Link /\ runRead' \subseteq Link
    BY <1>1, <1>2 DEF FifoShapes
  <2> QED  BY <1>1, <1>3, <1>4, <1>5, <1>6, <1>7, <2>1, <2>2, WriterStep
<1>9. Sends(l, m)
  BY <1>2, <1>6, <1>8 DEF Sends
<1> QED  BY <1>8, <1>9 DEF ContentStep

LEMMA WriterGrantedKeeps ==
  ASSUME FifoInv, NEW l \in Link, WriterGranted(l)
  PROVE  FifoInv' /\ ContentStep
<1>0. /\ WriterWoken(l) /\ Requested(l, message[l]) /\ l \in runWriters
      /\ UNCHANGED <<commDelay, readPc, runWrite, runRead>>
  BY DEF WriterGranted, WriterWoken
<1>1. /\ BufferInv /\ SentAccounted /\ FifoShapes /\ WriteShapes
      /\ Stored(l) /\ InFifo(l) /\ Routed(l) /\ Matched(l) /\ Awake(l)
  BY LinkFacts
<1>2. writePc[l] = "request"
  BY <1>0, <1>1 DEF BufferInv, WokenBlocked, Routed
<1>3. message[l] \in Payload[l] /\ Content(l) = Append(fifo[l], message[l])
  BY <1>1, <1>2, LinkFacts DEF Stored
<1>4. /\ BufferInv'
      /\ \A k \in Link : InNetif(k)' = InNetif(k)
      /\ \A k \in Link \ {l} : writerPc'[k] = writerPc[k]
  BY <1>0, <1>1, WriterWokenKeeps
<1>5. SentAccounted'
  BY <1>0, <1>1, NetifStepKeeps DEF NetifStep
<1>6. completed' = completed /\ outstanding' = outstanding
  BY <1>0 DEF WriterWoken, channelVars
<1>7. /\ WriteShapes' /\ Stored(l)' /\ route' = route
      /\ Content(l)' = Append(fifo[l], message[l])
      /\ writePc'[l] # "delay" /\ (writePc'[l] = "request" <=> writerPc'[l] = "blocked")
      /\ NumAvailable(l)' = NumAvailable(l)
      /\ writePc'[l] = "full" => ~(NumFree(l)' > 0)
      /\ \A k \in Link \ {l} : WriteSide(k)' = WriteSide(k)
  BY <1>0, <1>1, <1>3, RequestedKeeps
<1>8. LinkInv(l)'
  <2>1. Routed(l)'
    BY <1>1, <1>2, <1>6, <1>7 DEF Routed, Resolved
  <2>2. Matched(l)'
    <3>1. Delayed(l) = 0 /\ Delayed(l)' = 0 /\ Owed(l)' = Owed(l)
      BY <1>0, <1>2, <1>7 DEF Delayed, Owed, One
    <3> QED  BY <1>1, <1>3, <1>4, <1>6, <1>7, <3>1 DEF Matched, Resolved
  <2>3. Awake(l)'
    BY <1>0, <1>1, <1>6, <1>7 DEF Awake
  <2> QED  BY <1>7, <2>1, <2>2, <2>3 DEF LinkInv
<1>9. FifoInv' /\ SameContent(Link \ {l})
  <2>1. commDelay' \in [Link -> Nat] /\ runWrite' \subseteq Link /\ runRead' \subseteq Link
    BY <1>0, <1>1 DEF FifoShapes
  <2> QED  BY <1>0, <1>4, <1>5, <1>6, <1>7, <1>8, <2>1, WriterStep
<1> QED  BY <1>3, <1>7, <1>9 DEF ContentStep, SameContent

\* The steps of a writer that do not go through the interface.
LEMMA NetUnchanged ==
  ASSUME FifoInv, UNCHANGED netVars
  PROVE  /\ BufferInv' /\ SentAccounted' /\ completed' = completed /\ outstanding' = outstanding
         /\ writerPc' = writerPc /\ \A k \in Link : InNetif(k)' = InNetif(k)
<1>1. BufferInv /\ SentAccounted
  BY DEF FifoInv
<1>2. /\ completed' = completed /\ outstanding' = outstanding /\ writerPc' = writerPc
      /\ UNCHANGED <<netifVars, bufferVars, writerVars, pending, runNetif, runWriters>>
  BY DEF netVars, channelVars, writerVars
<1>3. BufferInv' /\ \A k \in Link : InNetif(k)' = InNetif(k)
  BY <1>1, <1>2, BufferStutter
<1> QED  BY <1>1, <1>2, <1>3 DEF SentAccounted

LEMMA WriteThroughPEKeeps ==
  ASSUME FifoInv, NEW l \in Link, WriteThroughPE(l)
  PROVE  FifoInv' /\ ContentStep
<1>0. PICK m \in Payload[l] : Hold(l, m, "delay")
  BY DEF WriteThroughPE
<1>1. /\ route[l] = "PE" /\ writePc[l] = "out" /\ UNCHANGED <<netVars, readPc, runWrite, runRead>>
  BY DEF WriteThroughPE
<1>2. /\ FifoShapes /\ WriteShapes /\ InFifo(l) /\ Routed(l) /\ Matched(l) /\ Awake(l)
      /\ completed[l] \in Nat /\ InNetif(l) \in Nat
      /\ Len(fifo[l]) \in Nat /\ Len(fifo[l]) <= Capacity[l]
      /\ Content(l) = fifo[l]
  BY <1>1, LinkFacts
<1>3. /\ BufferInv' /\ SentAccounted' /\ completed' = completed /\ outstanding' = outstanding
      /\ writerPc' = writerPc /\ \A k \in Link : InNetif(k)' = InNetif(k)
  BY <1>1, NetUnchanged
<1>4. /\ WriteShapes' /\ Stored(l)' /\ route' = route
      /\ Content(l)' = Append(fifo[l], m)
      /\ writePc'[l] = "delay"
      /\ NumAvailable(l)' = NumAvailable(l)
      /\ \A k \in Link \ {l} : WriteSide(k)' = WriteSide(k)
  BY <1>0, <1>2, HoldKeeps
<1>5. LinkInv(l)'
  <2>1. Routed(l)'
    BY <1>1, <1>2, <1>3, <1>4 DEF Routed, Resolved
  <2>2. Len(Append(fifo[l], m)) = Len(fifo[l]) + 1
    BY <1>2, AppendFacts DEF InFifo
  <2>3. Len(fifo[l]) = completed[l] + InNetif(l) + 0 + Owed(l)
    BY <1>1, <1>2 DEF Matched, Resolved, Delayed, One
  <2>4. Matched(l)'
    <3>1. /\ Len(Content(l)') = Len(fifo[l]) + 1
          /\ Delayed(l)' = 1 /\ Owed(l)' = Owed(l) /\ Owed(l) \in Nat
      BY <1>1, <1>4, <2>2 DEF Delayed, Owed, One
    <3> QED  BY <1>2, <1>3, <2>3, <3>1 DEF Matched
  <2>5. Awake(l)'
    BY <1>1, <1>2, <1>3, <1>4 DEF Awake
  <2> QED  BY <1>4, <2>1, <2>4, <2>5 DEF LinkInv
<1>6. FifoInv' /\ SameContent(Link \ {l})
  <2>1. commDelay' \in [Link -> Nat]
    <3>1. PICK d \in Delays[l] : commDelay' = [commDelay EXCEPT ![l] = d]
      BY DEF WriteThroughPE
    <3>2. d \in Nat
      BY NetworkInterfaceAssumption
    <3> QED  BY <1>2, <3>1, <3>2 DEF FifoShapes
  <2>2. runWrite' \subseteq Link /\ runRead' \subseteq Link
    BY <1>1, <1>2 DEF FifoShapes
  <2> QED  BY <1>1, <1>3, <1>4, <1>5, <2>1, <2>2, WriterStep
<1>7. Sends(l, m)
  BY <1>2, <1>4, <1>6 DEF Sends
<1> QED  BY <1>6, <1>7 DEF ContentStep

\* The message goes on to the sc_fifo; the completion was posted before.
LEMMA WriterDelayedKeeps ==
  ASSUME FifoInv, NEW l \in Link, WriterDelayed(l)
  PROVE  FifoInv' /\ ContentStep
<1>0. /\ writePc[l] = "delay" /\ Put(l, message[l])
      /\ runWrite' = runWrite \ {l} /\ runRead' = runRead \cup Woken(l)
      /\ completed' = [completed EXCEPT ![l] = @ + 1]
      /\ outstanding' = [outstanding EXCEPT ![l] = @ + 1]
      /\ UNCHANGED <<netifVars, bufferVars, writerVars, pending, runNetif, runWriters,
                     commDelay, readPc>>
  BY DEF WriterDelayed
<1>1. /\ BufferInv /\ SentAccounted /\ FifoShapes /\ WriteShapes
      /\ Stored(l) /\ InFifo(l) /\ Routed(l) /\ Matched(l) /\ Awake(l)
      /\ completed[l] \in Nat /\ outstanding[l] \in Nat /\ InNetif(l) \in Nat
      /\ outstanding[l] = completed[l] + InNetif(l)
  BY LinkFacts
<1>2. message[l] \in Payload[l] /\ Content(l) = Append(fifo[l], message[l])
  BY <1>0, <1>1, LinkFacts DEF Stored
<1>3. BufferInv' /\ (\A k \in Link : InNetif(k)' = InNetif(k)) /\ writerPc' = writerPc
  BY <1>0, <1>1, BufferStutter DEF writerVars
<1>4. /\ completed'[l] = completed[l] + 1 /\ outstanding'[l] = outstanding[l] + 1
      /\ \A k \in Link \ {l} : completed'[k] = completed[k] /\ outstanding'[k] = outstanding[k]
      /\ completed' \in [Link -> Nat] /\ outstanding' \in [Link -> Nat]
  BY <1>0, <1>1 DEF SentAccounted
<1>5. SentAccounted'
  <2>1. ASSUME NEW k \in Link  PROVE outstanding'[k] = completed'[k] + InNetif(k)'
    <3>1. CASE k = l
      BY <1>1, <1>3, <1>4, <3>1
    <3>2. CASE k # l
      BY <1>1, <1>3, <1>4, <3>2 DEF SentAccounted
    <3> QED  BY <3>1, <3>2
  <2> QED  BY <1>4, <2>1 DEF SentAccounted
<1>6. /\ WriteShapes' /\ Stored(l)' /\ route' = route
      /\ Content(l)' = Append(fifo[l], message[l])
      /\ writePc'[l] \in {"out", "full"}
      /\ NumAvailable(l)' = NumAvailable(l)
      /\ writePc'[l] = "full" => ~(NumFree(l)' > 0)
      /\ \A k \in Link \ {l} : WriteSide(k)' = WriteSide(k)
  BY <1>0, <1>1, <1>2, PutKeeps
<1>7. LinkInv(l)'
  <2>1. Routed(l)'
    BY <1>0, <1>1, <1>3, <1>6 DEF Routed, Resolved
  <2>2. Matched(l)'
    <3>1. Delayed(l) = 1 /\ Delayed(l)' = 0 /\ Owed(l)' = Owed(l) /\ Owed(l) \in Nat
      BY <1>0, <1>6 DEF Delayed, Owed, One
    <3>2. Resolved(l)' => Len(Content(l)) = completed[l] + InNetif(l) + 1 + Owed(l)
      BY <1>1, <1>6, <3>1 DEF Matched, Resolved
    <3>3. Len(Content(l)') = Len(Content(l)) /\ InNetif(l)' = InNetif(l)
      BY <1>2, <1>3, <1>6
    <3>4. SUFFICES ASSUME Resolved(l)'
                   PROVE  Len(Content(l)') = completed'[l] + InNetif(l)' + Delayed(l)' + Owed(l)'
      BY DEF Matched
    <3>5. PICK c \in Nat, n \in Nat, o \in Nat : c = completed[l] /\ n = InNetif(l) /\ o = Owed(l)
      BY <1>1, <3>1
    <3>6. Len(Content(l)') = c + n + 1 + o
      BY <3>2, <3>3, <3>4, <3>5
    <3>7. completed'[l] = c + 1 /\ InNetif(l)' = n /\ Delayed(l)' = 0 /\ Owed(l)' = o
      BY <1>4, <3>1, <3>3, <3>5
    <3>8. completed'[l] + InNetif(l)' + Delayed(l)' + Owed(l)' = c + n + 1 + o
      BY <3>7
    <3> QED  BY <3>6, <3>8
  <2>3. Awake(l)'
    BY <1>0, <1>1, <1>6 DEF Awake, Woken
  <2> QED  BY <1>6, <2>1, <2>2, <2>3 DEF LinkInv
<1>8. FifoInv' /\ SameContent(Link \ {l})
  <2>1. commDelay' \in [Link -> Nat] /\ runWrite' \subseteq Link /\ runRead' \subseteq Link
    BY <1>0, <1>1 DEF FifoShapes, Woken
  <2>2. \A k \in Link \ {l} : (k \in runRead => k \in runRead') /\ (k \in runWrite => k \in runWrite')
    BY <1>0
  <2> QED  BY <1>0, <1>3, <1>4, <1>5, <1>6, <1>7, <2>1, <2>2, WriterStep
<1> QED  BY <1>2, <1>6, <1>8 DEF ContentStep, SameContent

LEMMA WriteUnmappedKeeps ==
  ASSUME FifoInv, NEW l \in Link, WriteUnmapped(l)
  PROVE  FifoInv' /\ ContentStep
<1>0. PICK m \in Payload[l] : Put(l, m)
  BY DEF WriteUnmapped
<1>1. /\ route[l] = "none" /\ writePc[l] = "out"
      /\ UNCHANGED <<netVars, commDelay, readPc, runWrite, runRead>>
  BY DEF WriteUnmapped
<1>2. /\ FifoShapes /\ WriteShapes /\ InFifo(l) /\ Routed(l) /\ Awake(l)
      /\ Len(fifo[l]) \in Nat /\ Len(fifo[l]) <= Capacity[l] /\ Content(l) = fifo[l]
  BY <1>1, LinkFacts
<1>3. /\ BufferInv' /\ SentAccounted' /\ completed' = completed /\ outstanding' = outstanding
      /\ writerPc' = writerPc /\ \A k \in Link : InNetif(k)' = InNetif(k)
  BY <1>1, NetUnchanged
<1>4. /\ WriteShapes' /\ Stored(l)' /\ route' = route
      /\ Content(l)' = Append(fifo[l], m)
      /\ writePc'[l] \in {"out", "full"}
      /\ NumAvailable(l)' = NumAvailable(l)
      /\ writePc'[l] = "full" => ~(NumFree(l)' > 0)
      /\ \A k \in Link \ {l} : WriteSide(k)' = WriteSide(k)
  BY <1>0, <1>2, PutKeeps
<1>5. LinkInv(l)'
  <2>1. Routed(l)' /\ Matched(l)'
    BY <1>1, <1>2, <1>3, <1>4 DEF Routed, Matched, Resolved
  <2>2. Awake(l)'
    BY <1>1, <1>2, <1>3, <1>4 DEF Awake
  <2> QED  BY <1>4, <2>1, <2>2 DEF LinkInv
<1>6. FifoInv' /\ SameContent(Link \ {l})
  <2>1. commDelay' \in [Link -> Nat] /\ runWrite' \subseteq Link /\ runRead' \subseteq Link
    BY <1>1, <1>2 DEF FifoShapes
  <2> QED  BY <1>1, <1>3, <1>4, <1>5, <2>1, WriterStep
<1>7. Sends(l, m)
  BY <1>2, <1>4, <1>6 DEF Sends
<1> QED  BY <1>6, <1>7 DEF ContentStep

LEMMA WriterRetriesKeeps ==
  ASSUME FifoInv, NEW l \in Link, WriterRetries(l)
  PROVE  FifoInv' /\ ContentStep
<1>0. /\ writePc[l] = "full" /\ Put(l, message[l]) /\ runWrite' = runWrite \ {l}
      /\ UNCHANGED <<netVars, commDelay, readPc, runRead>>
  BY DEF WriterRetries
<1>1. /\ FifoShapes /\ WriteShapes
      /\ Stored(l) /\ InFifo(l) /\ Routed(l) /\ Matched(l) /\ Awake(l)
  BY LinkFacts
<1>2. message[l] \in Payload[l] /\ Content(l) = Append(fifo[l], message[l])
  BY <1>0, <1>1, LinkFacts DEF Stored
<1>3. /\ BufferInv' /\ SentAccounted' /\ completed' = completed /\ outstanding' = outstanding
      /\ writerPc' = writerPc /\ \A k \in Link : InNetif(k)' = InNetif(k)
  BY <1>0, NetUnchanged
<1>4. /\ WriteShapes' /\ Stored(l)' /\ route' = route
      /\ Content(l)' = Append(fifo[l], message[l])
      /\ writePc'[l] \in {"out", "full"}
      /\ NumAvailable(l)' = NumAvailable(l)
      /\ writePc'[l] = "full" => ~(NumFree(l)' > 0)
      /\ \A k \in Link \ {l} : WriteSide(k)' = WriteSide(k)
  BY <1>0, <1>1, <1>2, PutKeeps
<1>5. LinkInv(l)'
  <2>1. Routed(l)'
    BY <1>0, <1>1, <1>3, <1>4 DEF Routed, Resolved
  <2>2. Matched(l)'
    <3>1. Delayed(l) = 0 /\ Delayed(l)' = 0 /\ Owed(l)' = Owed(l)
      BY <1>0, <1>4 DEF Delayed, Owed, One
    <3> QED  BY <1>1, <1>2, <1>3, <1>4, <3>1 DEF Matched, Resolved
  <2>3. Awake(l)'
    BY <1>0, <1>1, <1>3, <1>4 DEF Awake
  <2> QED  BY <1>4, <2>1, <2>2, <2>3 DEF LinkInv
<1>6. FifoInv' /\ SameContent(Link \ {l})
  <2>1. commDelay' \in [Link -> Nat] /\ runWrite' \subseteq Link /\ runRead' \subseteq Link
    BY <1>0, <1>1 DEF FifoShapes
  <2>2. \A k \in Link \ {l} : (k \in runRead => k \in runRead') /\ (k \in runWrite => k \in runWrite')
    BY <1>0
  <2> QED  BY <1>0, <1>3, <1>4, <1>5, <2>1, <2>2, WriterStep
<1> QED  BY <1>2, <1>4, <1>6 DEF ContentStep, SameContent

-----------------------------------------------------------------------------
\* The reader goes on to the sc_fifo, after it has taken a completion or because
\* it needs none.
LEMMA GetStep ==
  ASSUME FifoInv, NEW l \in Link, Get(l), UNCHANGED <<writePc, message, commDelay, runWrite>>,
         runRead \ {l} \subseteq runRead', runRead' \subseteq runRead,
         \/ Read(l) /\ readPc[l] # "empty"
         \/ UNCHANGED netVars /\ (readPc[l] = "empty" \/ ~Resolved(l))
  PROVE  FifoInv' /\ ContentStep
<1>1. /\ BufferInv /\ SentAccounted /\ FifoShapes
      /\ Stored(l) /\ Routed(l) /\ Matched(l) /\ Awake(l)
      /\ completed[l] \in Nat /\ outstanding[l] \in Nat /\ InNetif(l) \in Nat
      /\ outstanding[l] = completed[l] + InNetif(l)
      /\ Len(fifo[l]) \in Nat /\ Len(Content(l)) = Len(fifo[l]) + One(writePc[l] # "out")
  BY LinkFacts
<1>2. /\ WriteShapes' /\ Stored(l)' /\ route' = route
      /\ readPc' \in [Link -> {"out", "transfer", "empty"}]
      /\ \A k \in Link \ {l} : WriteSide(k)' = WriteSide(k) /\ readPc'[k] = readPc[k]
      /\ NumFree(l)' = NumFree(l)
      /\ \/ /\ readPc'[l] = "out" /\ Content(l) # <<>> /\ Content(l)' = Tail(Content(l))
            /\ Len(Content(l)') = Len(Content(l)) - 1
         \/ /\ readPc'[l] = "empty" /\ Content(l)' = Content(l) /\ ~(NumAvailable(l)' > 0)
  BY <1>1, GetKeeps
<1>3. /\ BufferInv' /\ SentAccounted' /\ writerPc' = writerPc
      /\ \A k \in Link : InNetif(k)' = InNetif(k)
      /\ \A k \in Link \ {l} : completed'[k] = completed[k] /\ outstanding'[k] = outstanding[k]
  <2>1. CASE Read(l)
    <3>1. BufferInv' /\ SentAccounted'
      BY <1>1, <2>1, NetifStepKeeps DEF NetifStep
    <3>2. \A k \in Link : InNetif(k)' = InNetif(k)
      BY <1>1, <2>1, BufferStutter DEF Read
    <3> QED  BY <1>1, <2>1, <3>1, <3>2 DEF Read, writerVars, SentAccounted
  <2>2. CASE UNCHANGED netVars
    BY <2>2, NetUnchanged
  <2> QED  BY <2>1, <2>2
<1>4. /\ Len(Content(l)) \in Nat /\ Owed(l)' \in Nat /\ Owed(l) \in Nat /\ Delayed(l) \in Nat
      /\ Delayed(l)' = Delayed(l)
  <2>0. Content(l) \in Seq(Payload[l])
    BY <1>1, ContentIs
  <2>1. Len(Content(l)) \in Nat
    BY <2>0, LenProperties
  <2> QED  BY <2>1 DEF Owed, Delayed, One
<1>5. Resolved(l) => completed'[l] \in Nat /\ completed[l] = completed'[l] + 1 - Owed(l)
  <2>1. CASE Read(l) /\ readPc[l] # "empty"
    <3>1. Owed(l) = 0
      BY <2>1 DEF Owed, One
    <3>2. completed[l] > 0 /\ completed'[l] = completed[l] - 1
      BY <1>1, <2>1 DEF Read, SentAccounted
    <3> QED  BY <1>1, <3>1, <3>2
  <2>2. CASE UNCHANGED netVars /\ readPc[l] = "empty"
    <3>1. Owed(l) = 1 /\ completed'[l] = completed[l]
      BY <2>2, NetUnchanged DEF Owed, One
    <3> QED  BY <1>1, <3>1
  <2> QED  BY <2>1, <2>2
<1>6. Len(Content(l)') = Len(Content(l)) - 1 + Owed(l)'
  BY <1>2, <1>4 DEF Owed, One
<1>7. Matched(l)'
  <2> SUFFICES ASSUME Resolved(l)'
               PROVE  Len(Content(l)') = completed'[l] + InNetif(l)' + Delayed(l)' + Owed(l)'
    BY DEF Matched
  <2>1. Len(Content(l)) = completed[l] + InNetif(l) + Delayed(l) + Owed(l) /\ Resolved(l)
    BY <1>1, <1>2 DEF Matched, Resolved
  <2>2. PICK n \in Nat, c \in Nat, i \in Nat, d \in Nat, e \in Nat, f \in Nat :
          /\ n = Len(Content(l)) /\ c = completed'[l] /\ i = InNetif(l) /\ d = Delayed(l)
          /\ e = Owed(l) /\ f = Owed(l)'
    BY <1>1, <1>4, <1>5, <2>1
  <2>3. n = (c + 1 - e) + i + d + e
    BY <1>5, <2>1, <2>2
  <2>4. n - 1 + f = c + i + d + f
    BY <2>3
  <2> QED  BY <1>3, <1>4, <1>6, <2>2, <2>4
<1>8. Routed(l)'
  <2>1. ~Resolved(l) => outstanding'[l] = 0
    <3>1. CASE Read(l)
      <4>1. completed[l] > 0
        BY <3>1 DEF Read
      <4>2. outstanding[l] # 0
        BY <1>1, <4>1
      <4> QED  BY <1>1, <4>2 DEF Routed
    <3>2. CASE UNCHANGED netVars
      BY <1>1, <3>2, NetUnchanged DEF Routed
    <3> QED  BY <3>1, <3>2
  <2> QED  BY <1>1, <1>2, <1>3, <2>1 DEF Routed, Resolved
<1>9. Awake(l)'
  BY <1>1, <1>2 DEF Awake
<1>10. LinkInv(l)'
  BY <1>2, <1>7, <1>8, <1>9 DEF LinkInv
<1>11. ASSUME NEW k \in Link \ {l}  PROVE LinkInv(k)' /\ Content(k)' = Content(k)
  <2>1. LinkInv(k)
    BY DEF FifoInv
  <2>2. (k \in runRead => k \in runRead') /\ (k \in runWrite => k \in runWrite')
    OBVIOUS
  <2> QED  BY <1>2, <1>3, <2>1, <2>2, LinkFrame
<1>12. FifoShapes'
  BY <1>1, <1>2 DEF FifoShapes, WriteShapes
<1>13. FifoInv'
  <2>1. \A k \in Link : LinkInv(k)'
    BY <1>10, <1>11
  <2> QED  BY <1>3, <1>12, <2>1 DEF FifoInv
<1>14. ContentStep
  <2>1. SameContent(Link \ {l})
    BY <1>11 DEF SameContent
  <2>2. CASE Content(l)' = Content(l)
    <3>1. SameContent(Link)
      BY <2>1, <2>2 DEF SameContent
    <3> QED  BY <3>1 DEF ContentStep
  <2>3. CASE Content(l) # <<>> /\ Content(l)' = Tail(Content(l))
    BY <2>1, <2>3 DEF ContentStep, Receives
  <2> QED  BY <1>2, <2>2, <2>3
<1> QED  BY <1>13, <1>14

\* completed_transactions is empty: the reader waits in its semaphore.
LEMMA WaitStep ==
  ASSUME FifoInv, NEW l \in Link, readPc[l] # "empty", completed[l] = 0,
         readPc' = [readPc EXCEPT ![l] = "transfer"], UNCHANGED <<netVars, fifoVars>>,
         UNCHANGED <<writePc, message, commDelay, runWrite>>,
         runRead \ {l} \subseteq runRead', runRead' \subseteq runRead
  PROVE  FifoInv' /\ ContentStep
<1>1. FifoShapes /\ LinkInv(l) /\ Stored(l) /\ Routed(l) /\ Matched(l) /\ Awake(l)
  BY DEF FifoInv, LinkInv
<1>2. /\ BufferInv' /\ SentAccounted' /\ completed' = completed /\ outstanding' = outstanding
      /\ writerPc' = writerPc /\ \A k \in Link : InNetif(k)' = InNetif(k)
  BY NetUnchanged
<1>3. /\ route' = route /\ fifo' = fifo /\ numWritten' = numWritten /\ numRead' = numRead
      /\ writePc' = writePc /\ message' = message /\ runWrite' = runWrite
  BY DEF fifoVars
<1>4. readPc'[l] = "transfer" /\ \A k \in Link \ {l} : readPc'[k] = readPc[k]
  BY <1>1 DEF FifoShapes
<1>5. \A k \in Link : WriteSide(k)' = WriteSide(k) /\ Content(k)' = Content(k)
  BY <1>3 DEF WriteSide, Content
<1>6. LinkInv(l)'
  <2>1. Stored(l)' /\ Routed(l)'
    BY <1>1, <1>2, <1>3 DEF Stored, Routed, Resolved
  <2>2. Owed(l)' = Owed(l) /\ Delayed(l)' = Delayed(l)
    BY <1>3, <1>4 DEF Owed, Delayed, One
  <2>3. Matched(l)'
    BY <1>1, <1>2, <1>3, <1>5, <2>2 DEF Matched, Resolved
  <2>4. Awake(l)'
    BY <1>1, <1>2, <1>3, <1>4 DEF Awake, NumFree
  <2> QED  BY <2>1, <2>3, <2>4 DEF LinkInv
<1>7. ASSUME NEW k \in Link \ {l}  PROVE LinkInv(k)'
  <2>1. LinkInv(k)
    BY DEF FifoInv
  <2>2. (k \in runRead => k \in runRead') /\ (k \in runWrite => k \in runWrite')
    OBVIOUS
  <2> QED  BY <1>2, <1>3, <1>4, <1>5, <2>1, <2>2, LinkFrame
<1>8. FifoShapes'
  BY <1>1, <1>3 DEF FifoShapes
<1>9. FifoInv'
  <2>1. \A k \in Link : LinkInv(k)'
    BY <1>6, <1>7
  <2> QED  BY <1>2, <1>8, <2>1 DEF FifoInv
<1> QED  BY <1>5, <1>9 DEF ContentStep, SameContent

LEMMA TakeTransferKeeps ==
  ASSUME FifoInv, NEW l \in Link, TakeTransfer(l), readPc[l] # "empty",
         UNCHANGED <<writePc, message, commDelay, runWrite>>,
         runRead \ {l} \subseteq runRead', runRead' \subseteq runRead
  PROVE  FifoInv' /\ ContentStep
<1>1. CASE completed[l] > 0
  <2>1. Read(l) /\ Get(l)
    BY <1>1 DEF TakeTransfer
  <2> QED  BY <2>1, GetStep
<1>2. CASE ~(completed[l] > 0)
  <2>1. completed[l] \in Nat
    BY LinkFacts
  <2>2. completed[l] = 0
    BY <1>2, <2>1
  <2>3. readPc' = [readPc EXCEPT ![l] = "transfer"] /\ UNCHANGED <<netVars, fifoVars>>
    BY <1>2 DEF TakeTransfer
  <2> QED  BY <2>2, <2>3, WaitStep
<1> QED  BY <1>1, <1>2

LEMMA ReaderKeeps ==
  ASSUME FifoInv, NEW l \in Link, ReadCall(l) \/ ReaderPosted(l) \/ ReaderRetries(l)
  PROVE  FifoInv' /\ ContentStep
<1>1. CASE ReadCall(l)
  <2>1. /\ readPc[l] # "empty" /\ UNCHANGED <<writePc, message, commDelay, runWrite>>
        /\ runRead \ {l} \subseteq runRead' /\ runRead' \subseteq runRead
    BY <1>1 DEF ReadCall
  <2>2. CASE Resolved(l)
    <3>1. TakeTransfer(l)
      BY <1>1, <2>2 DEF ReadCall
    <3> QED  BY <2>1, <3>1, TakeTransferKeeps
  <2>3. CASE ~Resolved(l)
    <3>1. Get(l) /\ UNCHANGED netVars
      BY <1>1, <2>3 DEF ReadCall
    <3> QED  BY <2>1, <2>3, <3>1, GetStep
  <2> QED  BY <2>2, <2>3
<1>2. CASE ReaderPosted(l)
  <2>1. /\ readPc[l] # "empty" /\ UNCHANGED <<writePc, message, commDelay, runWrite>>
        /\ runRead \ {l} \subseteq runRead' /\ runRead' \subseteq runRead /\ TakeTransfer(l)
    BY <1>2 DEF ReaderPosted
  <2> QED  BY <2>1, TakeTransferKeeps
<1>3. CASE ReaderRetries(l)
  <2>1. /\ readPc[l] = "empty" /\ UNCHANGED <<writePc, message, commDelay, runWrite>>
        /\ runRead \ {l} \subseteq runRead' /\ runRead' \subseteq runRead
        /\ Get(l) /\ UNCHANGED netVars
    BY <1>3 DEF ReaderRetries
  <2> QED  BY <2>1, GetStep
<1> QED  BY <1>1, <1>2, <1>3

-----------------------------------------------------------------------------
\* Steps of the interface alone, which may wake a reader.
LEMMA NetifDispatchesKeeps ==
  ASSUME FifoInv, NetifDispatches
  PROVE  FifoInv' /\ SameContent(Link)
<1>1. BufferInv /\ SentAccounted /\ FifoShapes /\ NetifWoken /\ UNCHANGED <<fifoVars, endVars>>
  BY DEF FifoInv, NetifDispatches
<1>2. BufferInv' /\ SentAccounted'
  BY <1>1, NetifStepKeeps DEF NetifStep
<1>3. \A k \in Link : InNetif(k)' = InNetif(k)
  BY <1>1, NetifWokenKeeps
<1>4. UNCHANGED <<completed, outstanding, writerPc>>
  BY <1>1 DEF NetifWoken, channelVars, writerVars
<1>5. ASSUME NEW k \in Link  PROVE LinkInv(k)' /\ Content(k)' = Content(k)
  <2>1. LinkInv(k) /\ WriteSide(k)' = WriteSide(k)
    BY <1>1 DEF FifoInv, WriteSide, fifoVars, endVars
  <2> QED  BY <1>1, <1>3, <1>4, <2>1, LinkFrame DEF fifoVars, endVars
<1>6. FifoShapes'
  BY <1>1 DEF FifoShapes, fifoVars, endVars
<1> QED  BY <1>2, <1>5, <1>6 DEF FifoInv, SameContent

LEMMA NetifPostsKeeps ==
  ASSUME FifoInv, NetifPosts
  PROVE  FifoInv' /\ SameContent(Link)
<1>1. /\ BufferInv /\ SentAccounted /\ FifoShapes /\ NetifCompletes
      /\ runRead' = runRead \cup Woken(transfer)
      /\ UNCHANGED <<route, fifo, numWritten, numRead, writePc, message, commDelay, readPc, runWrite>>
  BY DEF FifoInv, NetifPosts, fifoVars
<1>2. BufferInv' /\ SentAccounted'
  BY <1>1, NetifStepKeeps DEF NetifStep
<1>3. /\ transfer \in Link
      /\ \A k \in Link : InNetif(k) = InNetif(k)' + One(k = transfer) /\ InNetif(k)' \in Nat
  BY <1>1, NetifCompletesKeeps
<1>4. /\ UNCHANGED <<outstanding, writerPc>> /\ completed'[transfer] = completed[transfer] + 1
      /\ \A k \in Link \ {transfer} : completed'[k] = completed[k]
  BY <1>1, <1>3 DEF NetifCompletes, writerVars, SentAccounted
<1>5. \A k \in Link : WriteSide(k)' = WriteSide(k) /\ Content(k)' = Content(k)
  BY <1>1 DEF WriteSide, Content
<1>6. ASSUME NEW k \in Link, k # transfer  PROVE LinkInv(k)'
  <2>1. LinkInv(k)
    BY DEF FifoInv
  <2>2. InNetif(k)' = InNetif(k)
    BY <1>3, <1>6 DEF One
  <2>3. (k \in runRead => k \in runRead') /\ (k \in runWrite => k \in runWrite')
    BY <1>1
  <2> QED  BY <1>1, <1>4, <1>5, <1>6, <2>1, <2>2, <2>3, LinkFrame
<1>7. ASSUME NEW k \in Link, k = transfer  PROVE LinkInv(k)'
  <2>1. Stored(k) /\ Routed(k) /\ Matched(k) /\ Awake(k) /\ completed[k] \in Nat
    BY LinkFacts
  <2>2. Stored(k)' /\ Routed(k)'
    BY <1>1, <1>4, <2>1 DEF Stored, Routed, Resolved
  <2>3. InNetif(k) = InNetif(k)' + 1 /\ InNetif(k)' \in Nat /\ completed'[k] = completed[k] + 1
    BY <1>3, <1>4, <1>7 DEF One
  <2>4. Owed(k)' = Owed(k) /\ Delayed(k)' = Delayed(k) /\ Owed(k) \in Nat /\ Delayed(k) \in Nat
    BY <1>1 DEF Owed, Delayed, One
  <2>5. Matched(k)'
    <3>1. PICK c \in Nat, i \in Nat, d \in Nat, e \in Nat :
            c = completed[k] /\ i = InNetif(k)' /\ d = Delayed(k) /\ e = Owed(k)
      BY <2>1, <2>3, <2>4
    <3>2. Resolved(k) => Len(Content(k)) = c + (i + 1) + d + e
      BY <2>1, <2>3, <3>1 DEF Matched
    <3>3. c + (i + 1) + d + e = (c + 1) + i + d + e
      OBVIOUS
    <3> QED  BY <1>1, <1>5, <2>3, <2>4, <3>1, <3>2, <3>3 DEF Matched, Resolved
  <2>6. Awake(k)'
    BY <1>1, <1>7, <2>1 DEF Awake, NumFree, NumAvailable, Woken
  <2> QED  BY <2>2, <2>5, <2>6 DEF LinkInv
<1>8. FifoShapes'
  BY <1>1, <1>3 DEF FifoShapes, Woken
<1>9. \A k \in Link : LinkInv(k)'
  BY <1>6, <1>7
<1> QED  BY <1>2, <1>5, <1>8, <1>9 DEF FifoInv, SameContent

\* The update phase of the sc_fifo: its two ends see what the other has done.
LEMMA FifoDeltaKeeps ==
  ASSUME FifoInv, FifoDelta
  PROVE  FifoInv' /\ SameContent(Link)
<1>1. /\ BufferInv /\ SentAccounted /\ FifoShapes /\ Notified
      /\ runWrite = {} /\ runRead = {}
      /\ numWritten' = [l \in Link |-> 0] /\ numRead' = [l \in Link |-> 0]
      /\ runWrite' = ZeroWaits \cup {l \in Link : writePc[l] = "full" /\ numRead[l] > 0}
      /\ runRead' = {l \in Link : readPc[l] = "empty" /\ numWritten[l] > 0}
      /\ UNCHANGED <<route, fifo, writePc, message, commDelay, readPc>>
  BY DEF FifoInv, FifoDelta, PhaseOver
<1>2. BufferInv' /\ SentAccounted'
  BY <1>1, NetifStepKeeps DEF NetifStep
<1>3. \A k \in Link : InNetif(k)' = InNetif(k)
  BY <1>1, NotifiedKeeps
<1>4. UNCHANGED <<completed, outstanding, writerPc>>
  BY <1>1 DEF Notified, channelVars, writerVars
<1>5. ASSUME NEW k \in Link  PROVE LinkInv(k)' /\ Content(k)' = Content(k)
  <2>1. /\ Stored(k) /\ Routed(k) /\ Matched(k) /\ Awake(k)
        /\ Len(fifo[k]) \in Nat /\ Len(fifo[k]) <= Capacity[k] /\ Capacity[k] \in Nat \ {0}
    BY LinkFacts
  <2>2. numWritten'[k] = 0 /\ numRead'[k] = 0 /\ numWritten[k] \in Nat /\ numRead[k] \in Nat
    BY <1>1 DEF FifoShapes
  <2>3. Content(k)' = Content(k)
    BY <1>1 DEF Content
  <2>4. Stored(k)'
    BY <1>1, <2>1, <2>2 DEF Stored
  <2>5. Routed(k)'
    BY <1>1, <1>4, <2>1 DEF Routed, Resolved
  <2>6. Matched(k)'
    BY <1>1, <1>3, <1>4, <2>1, <2>3 DEF Matched, Resolved, Delayed, Owed
  <2>7. Awake(k)'
    <3>1. readPc[k] = "transfer" => ~(completed[k] > 0)
      BY <1>1, <2>1 DEF Awake
    <3>2. ASSUME readPc[k] = "empty", k \notin runRead'  PROVE ~(NumAvailable(k)' > 0)
      <4>1. numWritten[k] = 0
        BY <1>1, <2>2, <3>2
      <4>2. ~(NumAvailable(k) > 0)
        BY <1>1, <2>1, <3>2 DEF Awake
      <4> QED  BY <1>1, <2>2, <4>1, <4>2 DEF NumAvailable
    <3>3. ASSUME writePc[k] = "full", k \notin runWrite'  PROVE ~(NumFree(k)' > 0)
      <4>1. numRead[k] = 0
        BY <1>1, <2>2, <3>3
      <4>2. ~(NumFree(k) > 0)
        BY <1>1, <2>1, <3>3 DEF Awake
      <4> QED  BY <1>1, <2>2, <4>1, <4>2 DEF NumFree
    <3> QED  BY <1>1, <1>4, <3>1, <3>2, <3>3 DEF Awake
  <2> QED  BY <2>3, <2>4, <2>5, <2>6, <2>7 DEF LinkInv
<1>6. FifoShapes'
  BY <1>1 DEF FifoShapes, ZeroWaits
<1> QED  BY <1>2, <1>5, <1>6 DEF FifoInv, SameContent

\* Time passes: nobody was about to run, so nobody waits for what is there.
LEMMA FifoTickKeeps ==
  ASSUME FifoInv, FifoTick
  PROVE  FifoInv' /\ SameContent(Link)
<1>1. /\ BufferInv /\ SentAccounted /\ FifoShapes /\ Elapsed
      /\ runWriters = {} /\ runWrite = {} /\ runRead = {}
      /\ commDelay' = [l \in Link |-> IF commDelay[l] > 0 THEN commDelay[l] - 1 ELSE 0]
      /\ runWrite' = {l \in Link : commDelay[l] = 1}
      /\ UNCHANGED <<route, fifo, numWritten, numRead, writePc, message, readPc, runRead>>
  BY DEF FifoInv, FifoTick, Settled, PhaseOver, EvaluationOver, fifoVars
<1>2. BufferInv' /\ SentAccounted'
  BY <1>1, NetifStepKeeps DEF NetifStep
<1>3. \A k \in Link : InNetif(k)' = InNetif(k)
  BY <1>1, ElapsedKeeps
<1>4. UNCHANGED <<completed, outstanding, writerPc>>
  BY <1>1 DEF Elapsed, channelVars
<1>5. ASSUME NEW k \in Link  PROVE LinkInv(k)' /\ Content(k)' = Content(k)
  <2>1. LinkInv(k) /\ WriteSide(k)' = WriteSide(k)
    BY <1>1 DEF FifoInv, WriteSide
  <2>2. k \notin runRead /\ k \notin runWrite
    BY <1>1
  <2> QED  BY <1>1, <1>3, <1>4, <2>1, <2>2, LinkFrame
<1>6. FifoShapes'
  <2>1. commDelay' \in [Link -> Nat]
    BY <1>1 DEF FifoShapes
  <2> QED  BY <1>1, <2>1 DEF FifoShapes
<1> QED  BY <1>2, <1>5, <1>6 DEF FifoInv, SameContent

-----------------------------------------------------------------------------
LEMMA FifoInitKeeps == FifoInit => FifoInv
<1> SUFFICES ASSUME FifoInit  PROVE FifoInv
  OBVIOUS
<1> DEFINE posted == [l \in Link |-> IF Resolved(l) THEN Len(Initial[l]) ELSE 0]
<1>1. /\ route \in Mappings /\ InitWith(posted) /\ fifo = Initial
      /\ numWritten = [l \in Link |-> 0] /\ numRead = numWritten /\ commDelay = numWritten
      /\ writePc = [l \in Link |-> "out"] /\ readPc = writePc
      /\ message = [l \in Link |-> NoValue] /\ runWrite = {} /\ runRead = {}
  BY DEF FifoInit
<1>2. /\ Initial \in [Link -> Seq(UNION {Payload[l] : l \in Link})]
      /\ Capacity \in [Link -> Nat \ {0}]
      /\ \A l \in Link : Initial[l] \in Seq(Payload[l]) /\ Len(Initial[l]) <= Capacity[l]
  BY FifoBufferAssumption
<1>3. \A l \in Link : Len(Initial[l]) \in Nat
  BY <1>2, LenProperties
<1>4. posted \in [Link -> Nat]
  BY <1>3
<1> HIDE DEF posted
<1>5. BufferInv /\ SentAccounted
  BY <1>1, <1>4, InitKeeps
<1>6. FifoShapes
  BY <1>1, <1>2 DEF FifoShapes
<1>7. ASSUME NEW l \in Link  PROVE LinkInv(l)
  <2>1. Stored(l)
    BY <1>1, <1>2, <1>3 DEF Stored
  <2>2. /\ completed[l] = posted[l] /\ outstanding[l] = posted[l] /\ writerPc[l] = "out"
        /\ outstanding[l] = completed[l] + InNetif(l)
    BY <1>1, <1>5 DEF InitWith, SentAccounted
  <2>3. InNetif(l) = 0
    <3>1. InNetif(l) \in Nat
      BY <1>5, HeldType DEF BufferInv, InNetif, One
    <3> QED  BY <1>4, <2>2, <3>1
  <2>4. Routed(l)
    BY <1>1, <2>2 DEF Routed, posted
  <2>5. Len(Content(l)) = Len(Initial[l]) + 0
    BY <1>1, <1>6, <2>1, ContentIs DEF One
  <2>6. Matched(l)
    BY <1>1, <1>3, <2>2, <2>3, <2>5 DEF Matched, Delayed, Owed, One, posted
  <2>7. Awake(l)
    BY <1>1 DEF Awake
  <2> QED  BY <2>1, <2>4, <2>6, <2>7 DEF LinkInv
<1> QED  BY <1>5, <1>6, <1>7 DEF FifoInv

LEMMA FifoNextKeeps ==
  ASSUME FifoInv, FifoNext
  PROVE  FifoInv' /\ ContentStep
<1>1. ASSUME FifoDelta \/ FifoTick \/ NetifDispatches \/ NetifPosts  PROVE FifoInv' /\ ContentStep
  BY <1>1, FifoDeltaKeeps, FifoTickKeeps, NetifDispatchesKeeps, NetifPostsKeeps DEF ContentStep
<1>2. ASSUME NEW l \in Link, WriterGranted(l) \/ WriterDelayed(l) \/ WriterRetries(l) \/ WriteCall(l)
      PROVE  FifoInv' /\ ContentStep
  BY <1>2, WriterGrantedKeeps, WriterDelayedKeeps, WriterRetriesKeeps, WriteThroughNetifKeeps,
     WriteThroughPEKeeps, WriteUnmappedKeeps DEF WriteCall
<1>3. ASSUME NEW l \in Link, ReadCall(l) \/ ReaderPosted(l) \/ ReaderRetries(l)
      PROVE  FifoInv' /\ ContentStep
  BY <1>3, ReaderKeeps
<1> QED  BY <1>1, <1>2, <1>3 DEF FifoNext, Running

LEMMA FifoStutter ==
  ASSUME FifoInv, UNCHANGED allVars
  PROVE  FifoInv' /\ SameContent(Link)
<1>1. UNCHANGED netVars /\ UNCHANGED <<fifoVars, endVars>>
  BY DEF allVars
<1>2. /\ BufferInv' /\ SentAccounted' /\ completed' = completed /\ outstanding' = outstanding
      /\ writerPc' = writerPc /\ \A k \in Link : InNetif(k)' = InNetif(k)
  BY <1>1, NetUnchanged
<1>3. ASSUME NEW k \in Link  PROVE LinkInv(k)' /\ Content(k)' = Content(k)
  <2>1. LinkInv(k) /\ WriteSide(k)' = WriteSide(k)
    BY <1>1 DEF FifoInv, WriteSide, fifoVars, endVars
  <2> QED  BY <1>1, <1>2, <2>1, LinkFrame DEF fifoVars, endVars
<1>4. FifoShapes'
  BY <1>1 DEF FifoInv, FifoShapes, fifoVars, endVars
<1> QED  BY <1>2, <1>3, <1>4 DEF FifoInv, SameContent

LEMMA FifoInvHolds == FifoSpec => []FifoInv
<1>1. FifoInv /\ [FifoNext]_allVars => FifoInv'
  BY FifoNextKeeps, FifoStutter
<1> QED  BY <1>1, FifoInitKeeps, PTL DEF FifoSpec

-----------------------------------------------------------------------------
(***************************************************************************)
(* Theorems.                                                               *)
(***************************************************************************)
\* The variables keep to their kinds: the counters of the sc_fifo stay within its
\* size, and the messages sent and not read within the capacity plus one.
THEOREM FifoTypeCorrect == FifoSpec => []FifoTypeOK
<1>1. FifoInv => FifoTypeOK
  <2> SUFFICES ASSUME FifoInv  PROVE FifoTypeOK
    OBVIOUS
  <2>1. BufferInv /\ NetTyped /\ SentAccounted /\ FifoShapes /\ \A l \in Link : Stored(l)
    BY DEF FifoInv, LinkInv, BufferInv
  <2>2. ASSUME NEW l \in Link  PROVE outstanding[l] \in 0..MaxOutstanding
    <3>1. /\ outstanding[l] \in Nat /\ outstanding[l] = completed[l] + InNetif(l)
          /\ completed[l] \in Nat /\ InNetif(l) \in Nat /\ Routed(l) /\ Matched(l)
          /\ Len(fifo[l]) \in Nat /\ Len(fifo[l]) <= Capacity[l] /\ Capacity[l] \in Nat
          /\ Len(Content(l)) = Len(fifo[l]) + One(writePc[l] # "out")
      BY LinkFacts
    <3>2. MaxOutstanding \in Nat /\ Capacity[l] < MaxOutstanding
      BY NetworkInterfaceAssumption, FifoBufferAssumption
    <3>3. CASE Resolved(l)
      <4>1. Len(Content(l)) = completed[l] + InNetif(l) + Delayed(l) + Owed(l)
        BY <3>1, <3>3 DEF Matched
      <4>2. Delayed(l) \in Nat /\ Owed(l) \in Nat /\ One(writePc[l] # "out") \in 0..1
        BY DEF Delayed, Owed, One
      <4>3. PICK n \in Nat, c \in Nat, i \in Nat, d \in Nat, e \in Nat, w \in 0..1 :
              /\ n = Len(fifo[l]) /\ c = completed[l] /\ i = InNetif(l)
              /\ d = Delayed(l) /\ e = Owed(l) /\ w = One(writePc[l] # "out")
        BY <3>1, <4>2
      <4>4. n + w = c + i + d + e /\ n <= Capacity[l] /\ outstanding[l] = c + i
        BY <3>1, <4>1, <4>3
      <4> QED  BY <3>1, <3>2, <4>4
    <3>4. CASE ~Resolved(l)
      BY <3>1, <3>2, <3>4 DEF Routed
    <3> QED  BY <3>3, <3>4
  <2>3. completed \in [Link -> Nat] /\ outstanding \in [Link -> 0..MaxOutstanding]
    BY <2>1, <2>2 DEF SentAccounted
  <2>4. TypeOK
    BY <2>1, <2>3 DEF TypeOK, NetTyped
  <2>5. ASSUME NEW l \in Link
        PROVE  /\ fifo[l] \in Seq(Payload[l])
               /\ message[l] \in Payload[l] \cup {NoValue}
               /\ numWritten[l] \in 0..Len(fifo[l])
               /\ numRead[l] \in 0..Capacity[l] - Len(fifo[l])
    BY <2>1 DEF Stored
  <2> QED  BY <2>1, <2>4, <2>5 DEF FifoTypeOK, FifoShapes
<1> QED  BY <1>1, FifoInvHolds, PTL

\* The counters of the transmission buffer are right whatever the channels do,
\* although writers inside of one element bypass the interface.
THEOREM ChannelBufferCorrect == FifoSpec => []BufferAccounted
<1>1. FifoInv => BufferAccounted
  BY DEF FifoInv, BufferInv
<1> QED  BY <1>1, FifoInvHolds, PTL

\* completed_transactions and the content of the sc_fifo never disagree.
THEOREM TransfersMatch == FifoSpec => []TransfersMatchContent
<1>1. FifoInv => TransfersMatchContent
  <2> SUFFICES ASSUME FifoInv, NEW l \in Link, Resolved(l)
               PROVE  Len(Content(l)) = completed[l] + Held(l)
                        + One(writePc[l] \in {"request", "delay"}) + One(readPc[l] = "empty")
    BY DEF TransfersMatchContent
  <2>1. /\ BufferInv /\ completed[l] \in Nat
        /\ Len(Content(l)) = completed[l] + InNetif(l) + Delayed(l) + Owed(l)
        /\ (writePc[l] = "request" <=> writerPc[l] = "blocked")
    BY LinkFacts DEF Matched, Routed
  <2>2. Held(l) \in Nat
    BY <2>1, HeldType DEF BufferInv
  <2>3. PICK w : w = One(writePc[l] \in {"request", "delay"})
    OBVIOUS
  <2>4. w \in Nat /\ InNetif(l) + Delayed(l) = Held(l) + w
    BY <2>1, <2>2, <2>3 DEF InNetif, Delayed, One
  <2>5. PICK c \in Nat, h \in Nat, i \in Nat, d \in Nat, e \in Nat :
          /\ c = completed[l] /\ h = Held(l) /\ i = InNetif(l) /\ d = Delayed(l)
          /\ e = One(readPc[l] = "empty") /\ e = Owed(l)
    BY <2>1, <2>2 DEF InNetif, Delayed, Owed, One
  <2>6. c + i + d + e = c + h + w + e
    BY <2>4, <2>5
  <2> QED  BY <2>1, <2>3, <2>5, <2>6
<1> QED  BY <1>1, FifoInvHolds, PTL

\* No time passes between the end of a transfer and the end of the read.
THEOREM ReadsEnd == FifoSpec => []ReadEndsWithTransfer
<1>1. FifoInv => ReadEndsWithTransfer
  <2> SUFFICES ASSUME FifoInv, Settled, NEW l \in Link
               PROVE  /\ readPc[l] = "transfer" => completed[l] = 0
                      /\ readPc[l] = "empty" => ~Resolved(l) /\ Content(l) = <<>>
    BY DEF ReadEndsWithTransfer
  <2>1. /\ Routed(l) /\ Matched(l) /\ Awake(l) /\ Stored(l) /\ FifoShapes
        /\ completed[l] \in Nat /\ InNetif(l) \in Nat
        /\ Len(fifo[l]) \in Nat /\ Capacity[l] \in Nat \ {0}
        /\ Len(Content(l)) = Len(fifo[l]) + One(writePc[l] # "out")
        /\ Content(l) = IF writePc[l] = "out" THEN fifo[l] ELSE Append(fifo[l], message[l])
    BY LinkFacts
  <2>2. l \notin runRead /\ l \notin runWrite /\ numWritten[l] = 0 /\ numRead[l] = 0
    BY DEF Settled, PhaseOver
  <2>3. readPc[l] = "transfer" => completed[l] = 0
    BY <2>1, <2>2 DEF Awake
  <2>4. ASSUME readPc[l] = "empty"  PROVE ~Resolved(l) /\ Content(l) = <<>>
    <3>1. Len(fifo[l]) = 0
      <4>1. ~(NumAvailable(l) > 0)
        BY <2>1, <2>2, <2>4 DEF Awake
      <4> QED  BY <2>1, <2>2, <4>1 DEF NumAvailable
    <3>2. writePc[l] # "full"
      <4>1. NumFree(l) > 0
        BY <2>1, <2>2, <3>1 DEF NumFree
      <4> QED  BY <2>1, <2>2, <4>1 DEF Awake
    <3>3. ~Resolved(l)
      <4> SUFFICES ASSUME Resolved(l)  PROVE FALSE
        OBVIOUS
      <4>1. Len(Content(l)) = completed[l] + InNetif(l) + Delayed(l) + 1
        BY <2>1, <2>4 DEF Matched, Owed, One
      <4>2. writePc[l] \in {"out", "request", "delay"}
        BY <2>1, <3>2 DEF FifoShapes
      <4>3. CASE writePc[l] = "out"
        <5>1. Len(Content(l)) = 0 /\ Delayed(l) = 0
          BY <2>1, <3>1, <4>3 DEF One, Delayed
        <5> QED  BY <2>1, <4>1, <5>1
      <4>4. CASE writePc[l] = "request"
        <5>1. Len(Content(l)) = 1 /\ Delayed(l) = 0
          BY <2>1, <3>1, <4>4 DEF One, Delayed
        <5>2. InNetif(l) = Held(l) + 1 /\ Held(l) \in Nat
          <6>1. Held(l) \in Nat
            BY HeldType DEF FifoInv, BufferInv
          <6> QED  BY <2>1, <4>4, <6>1 DEF Routed, InNetif, One
        <5>3. PICK c \in Nat, h \in Nat : c = completed[l] /\ h = Held(l)
          BY <2>1, <5>2
        <5>4. 1 = c + (h + 1) + 0 + 1
          BY <4>1, <5>1, <5>2, <5>3
        <5> QED  BY <5>4
      <4>5. CASE writePc[l] = "delay"
        <5>1. Len(Content(l)) = 1 /\ Delayed(l) = 1
          BY <2>1, <3>1, <4>5 DEF One, Delayed
        <5>2. PICK c \in Nat, i \in Nat : c = completed[l] /\ i = InNetif(l)
          BY <2>1
        <5>3. 1 = c + i + 1 + 1
          BY <4>1, <5>1, <5>2
        <5> QED  BY <5>3
      <4> QED  BY <4>2, <4>3, <4>4, <4>5
    <3>4. writePc[l] = "out"
      BY <2>1, <3>2, <3>3 DEF FifoShapes, Routed
    <3>5. fifo[l] = <<>>
      BY <2>1, <3>1 DEF Stored
    <3> QED  BY <2>1, <3>3, <3>4, <3>5
  <2> QED  BY <2>3, <2>4
<1> QED  BY <1>1, FifoInvHolds, PTL

\* Time passes in sc_fifo::write only while the sc_fifo is full.
THEOREM FullWriterCorrect == FifoSpec => []FullWriterWoken
<1>1. FifoInv => FullWriterWoken
  <2> SUFFICES ASSUME FifoInv, Settled, NEW l \in Link, writePc[l] = "full"
               PROVE  Len(fifo[l]) = Capacity[l]
    BY DEF FullWriterWoken
  <2>1. /\ Awake(l) /\ Len(fifo[l]) \in Nat /\ Len(fifo[l]) <= Capacity[l] /\ Capacity[l] \in Nat
    BY LinkFacts
  <2>2. l \notin runWrite /\ numRead[l] = 0
    BY DEF Settled, PhaseOver
  <2>3. ~(NumFree(l) > 0)
    BY <2>1, <2>2 DEF Awake
  <2> QED  BY <2>1, <2>2, <2>3 DEF NumFree
<1> QED  BY <1>1, FifoInvHolds, PTL

\* The channels are bounded first-in first-out channels: the detailed
\* specification implements LogicChannel, with the messages stored and the one
\* being written as its content.
THEOREM ChannelRefinement == FifoSpec => ImplementsLogicChannel
<1> DEFINE content == [l \in Link |-> Content(l)]
<1>1. FifoInit => content = Initial
  <2> SUFFICES ASSUME FifoInit  PROVE content = Initial
    OBVIOUS
  <2>1. FifoInv
    BY FifoInitKeeps
  <2>2. Initial \in [Link -> Seq(UNION {Payload[l] : l \in Link})]
    BY FifoBufferAssumption
  <2>3. ASSUME NEW l \in Link  PROVE Content(l) = Initial[l]
    <3>1. writePc[l] = "out" /\ fifo = Initial
      BY DEF FifoInit
    <3>2. Content(l) = IF writePc[l] = "out" THEN fifo[l] ELSE Append(fifo[l], message[l])
      BY <2>1, LinkFacts
    <3> QED  BY <3>1, <3>2
  <2> QED  BY <2>2, <2>3
<1>2. FifoInv /\ [FifoNext]_allVars => [Channel!Next]_content
  <2> SUFFICES ASSUME FifoInv, [FifoNext]_allVars  PROVE [Channel!Next]_content
    OBVIOUS
  <2>1. ContentStep
    BY FifoNextKeeps, FifoStutter DEF ContentStep
  <2>2. ASSUME SameContent(Link)  PROVE content' = content
    BY <2>2 DEF SameContent
  <2>3. ASSUME NEW l \in Link, Receives(l)  PROVE Channel!Receive(l)
    <3>1. content[l] # <<>>
      BY <2>3 DEF Receives
    <3>2. content' = [content EXCEPT ![l] = Tail(@)]
      BY <2>3 DEF Receives, SameContent
    <3> QED  BY <3>1, <3>2 DEF Channel!Receive
  <2>4. ASSUME NEW l \in Link, NEW m \in Payload[l], Sends(l, m)  PROVE Channel!Send(l, m)
    <3>1. Len(content[l]) <= Capacity[l]
      BY <2>4 DEF Sends
    <3>2. content' = [content EXCEPT ![l] = Append(@, m)]
      BY <2>4 DEF Sends, SameContent
    <3> QED  BY <3>1, <3>2 DEF Channel!Send
  <2> QED  BY <2>1, <2>2, <2>3, <2>4 DEF ContentStep, Channel!Next
<1> QED  BY <1>1, <1>2, FifoInvHolds, PTL
         DEF FifoSpec, ImplementsLogicChannel, Channel!Spec, Channel!Init

\* The steps of the composition are steps of the interface, or leave its queue.
LEMMA FifoStepOfNetif == FifoInv /\ [FifoNext]_allVars => NetifStep \/ UNCHANGED sendQueue
<1> SUFFICES ASSUME FifoInv, [FifoNext]_allVars  PROVE NetifStep \/ UNCHANGED sendQueue
  OBVIOUS
<1>1. FifoDelta \/ NetifDispatches \/ NetifPosts => NetifStep
  BY DEF FifoDelta, NetifDispatches, NetifPosts, NetifStep
<1>2. FifoTick => NetifStep
  BY DEF FifoTick, Settled, PhaseOver, EvaluationOver, NetifStep
<1>3. ASSUME NEW l \in Link, WriteThroughNetif(l) \/ WriterGranted(l)  PROVE NetifStep
  BY <1>3 DEF WriteThroughNetif, WriterGranted, NetifStep
<1>4. ASSUME UNCHANGED netVars \/ UNCHANGED bufferVars  PROVE UNCHANGED sendQueue
  BY <1>4 DEF netVars, bufferVars
<1>5. ASSUME NEW l \in Link, \/ WriteThroughPE(l) \/ WriteUnmapped(l) \/ WriterDelayed(l)
                            \/ WriterRetries(l) \/ ReaderRetries(l)
      PROVE  UNCHANGED sendQueue
  BY <1>4, <1>5 DEF WriteThroughPE, WriteUnmapped, WriterDelayed, WriterRetries, ReaderRetries
<1>6. ASSUME NEW l \in Link, ReadCall(l) \/ ReaderPosted(l)  PROVE UNCHANGED sendQueue
  <2>1. Read(l) => UNCHANGED bufferVars
    BY DEF Read
  <2> QED  BY <1>4, <1>6, <2>1 DEF ReadCall, ReaderPosted, TakeTransfer
<1>7. UNCHANGED allVars => UNCHANGED sendQueue
  BY <1>4 DEF allVars
<1> QED  BY <1>1, <1>2, <1>3, <1>5, <1>6, <1>7 DEF FifoNext, Running, WriteCall

\* Requests reach the physical link in the order the writers made them, in an
\* infinite buffer.
THEOREM ChannelOldestFirst == FifoSpec => ServedInRequestOrder
<1>1. FifoInv /\ FifoInv' /\ [FifoNext]_allVars =>
        [~finite /\ Len(sendQueue') < Len(sendQueue) =>
           LET i == Dispatched(sendQueue)
           IN  \A a \in Ages : a <= sendQueue[i].age]_vars
  BY DispatchesOldest DEF FifoInv
<1> QED  BY <1>1, FifoInvHolds, PTL DEF FifoSpec, ServedInRequestOrder

\* Concurrent writes reach it in the order of the static schedule.
THEOREM ChannelScheduleFollowed == FifoSpec => ConcurrentInScheduleOrder
<1>1. FifoInv /\ [FifoNext]_allVars =>
        [Len(sendQueue') < Len(sendQueue) /\ CommSchedule # <<>> =>
           \A i \in Synchronous(sendQueue) :
             Position(transfer') <= Position(sendQueue[i].from)]_vars
  BY FifoStepOfNetif, DispatchesScheduled DEF FifoInv
<1> QED  BY <1>1, FifoInvHolds, PTL DEF FifoSpec, ConcurrentInScheduleOrder
=============================================================================
