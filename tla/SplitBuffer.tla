---------------------------- MODULE SplitBuffer -----------------------------
(***************************************************************************)
(* Split packets of a channel (impl.cpp): the sender cuts data that is too *)
(* long into chunks under a split sequence number, the receiver collects   *)
(* them in its IncomingSplitBuffer.  Chunks of unreliable packets may be   *)
(* lost, doubled and reordered on the way; those of reliable ones arrive   *)
(* in order, once (ReliableChannel), but take their numbers from the same  *)
(* counter.                                                                *)
(*                                                                         *)
(* Time is counted in ticks.  That a number is not used again while chunks *)
(* under it are on their way, or an entry left over from an unreliable one *)
(* has not timed out, is up to the traffic, not to the code (Free).        *)
(***************************************************************************)
EXTENDS Naturals, FiniteSets, Sequences, SequencesExt

CONSTANTS
  SplitSpace,      \* SEQNUM_MAX + 1
  SplitInitial,    \* SEQNUM_INITIAL
  ChunkSizeMax,    \* chunksize_max
  Sizes,           \* sizes of the data sent
  Timeout,         \* peer_timeout
  Lifetime,        \* how long a chunk may be on its way
  ReuseTime,       \* ticks between two uses of a number
  MaxPackets, MaxCopies  \* bounds of the model: packets; deliveries of a chunk

Header == 7
MaximumDataSize == ChunkSizeMax - Header
Least(a, b) == IF a < b THEN a ELSE b

VARIABLES
  next_split_seqnum,
  sent,       \* the packets that were split: [seqnum, size, reliable]
  used,       \* number -> ticks since it was used last (ReuseTime: long ago)
  inFlight,   \* chunks of unreliable packets: chunk -> [age, copies left]
  stream,     \* chunks of reliable packets, in order
  m_buf,      \* number -> [count, reliable, chunks, time]
  handedOn    \* what IncomingSplitBuffer::insert returned, in order

splitVars == <<next_split_seqnum, sent, used, inFlight, stream, m_buf, handedOn>>

SplitInit ==
  /\ next_split_seqnum = SplitInitial /\ sent = <<>>
  /\ used = [s \in 0 .. SplitSpace - 1 |-> ReuseTime]
  /\ inFlight = [c \in {} |-> 0] /\ stream = <<>>
  /\ m_buf = [s \in {} |-> 0] /\ handedOn = <<>>

-----------------------------------------------------------------------------
\* makeSplitPacket: how often its loop runs for data of this size.
ChunkCount(size) == (size + MaximumDataSize - 1) \div MaximumDataSize

\* Seeded fault: the last byte of a chunk is the first of the next one, too.
ByteRangeOverlapping(k, size) ==
  <<k * MaximumDataSize, Least((k + 1) * MaximumDataSize, size - 1)>>

\* ... and the bytes, [start, end], of the chunk with this chunk_num.
ByteRange(k, size) ==
  <<k * MaximumDataSize, Least(k * MaximumDataSize + MaximumDataSize - 1, size - 1)>>

ChunksOf(id, seqnum, size, reliable) ==
  [k \in 1 .. ChunkCount(size) |->
     [packet |-> id, seqnum |-> seqnum, count |-> ChunkCount(size), num |-> k - 1,
      bytes |-> ByteRange(k - 1, size), reliable |-> reliable]]

\* The assumption on the traffic, not a check of the code.
Free(s) == /\ used[s] >= ReuseTime
           /\ \A i \in DOMAIN stream : stream[i].seqnum # s

\* makeAutoSplitPacket, for data that does not fit; it takes the number and
\* moves the counter on.
SendSplit(size, reliable) ==
  LET id == Len(sent) + 1
      chunks == ChunksOf(id, next_split_seqnum, size, reliable)
  IN /\ Len(sent) < MaxPackets /\ size + 1 > ChunkSizeMax
     /\ Free(next_split_seqnum)
     /\ sent' = Append(sent, [seqnum |-> next_split_seqnum, size |-> size,
                              reliable |-> reliable])
     /\ used' = [used EXCEPT ![next_split_seqnum] = 0]
     /\ next_split_seqnum' = (next_split_seqnum + 1) % SplitSpace
     /\ IF reliable THEN stream' = stream \o chunks /\ UNCHANGED inFlight
        ELSE /\ inFlight' = [c \in DOMAIN inFlight \cup ToSet(chunks) |->
                  IF c \in DOMAIN inFlight THEN inFlight[c]
                  ELSE [age |-> 0, copies |-> MaxCopies]]
             /\ UNCHANGED stream
     /\ UNCHANGED <<m_buf, handedOn>>

\* processReliableSendCommand when there are not enough sequence numbers for the
\* chunks: the command is put back, to be split again, but the split number that
\* it took is gone.
PutBack ==
  /\ Len(sent) < MaxPackets
  /\ next_split_seqnum' = (next_split_seqnum + 1) % SplitSpace
  /\ UNCHANGED <<sent, used, inFlight, stream, m_buf, handedOn>>

\* Seeded fault: what is left of a lost packet stays for ever.
StaleNever(entry) == FALSE

\* removeUnreliableTimedOuts: what it takes out at this tick.
Stale(entry) == ~entry.reliable /\ entry.time + 1 >= Timeout

\* runTimeouts: a tick passes; chunks that are too old are lost.
Tick ==
  LET kept == {s \in DOMAIN m_buf : ~Stale(m_buf[s])}
      alive == {c \in DOMAIN inFlight : inFlight[c].age < Lifetime}
  IN /\ \/ DOMAIN m_buf # {} \/ DOMAIN inFlight # {}
        \/ \E s \in DOMAIN used : used[s] < ReuseTime
     /\ m_buf' = [s \in kept |-> IF m_buf[s].reliable THEN m_buf[s]
                                 ELSE [m_buf[s] EXCEPT !.time = @ + 1]]
     /\ inFlight' = [c \in alive |-> [age |-> inFlight[c].age + 1,
                                    copies |-> inFlight[c].copies]]
     /\ used' = [s \in DOMAIN used |-> Least(used[s] + 1, ReuseTime)]
     /\ UNCHANGED <<next_split_seqnum, sent, stream, handedOn>>

\* The entry that takes a chunk, a new one if there is none under its number ...
EntryFor(c) ==
  IF c.seqnum \in DOMAIN m_buf THEN m_buf[c.seqnum]
  ELSE [count |-> c.count, reliable |-> c.reliable, chunks |-> [k \in {} |-> c],
        time |-> 0]

\* ... and the entry with the chunk in it.
WithChunk(sp, c) ==
  [sp EXCEPT !.chunks = [k \in DOMAIN sp.chunks \cup {c.num} |->
                           IF k = c.num THEN c ELSE sp.chunks[k]]]

Keep(s, sp) ==
  m_buf' = [x \in DOMAIN m_buf \cup {s} |-> IF x = s THEN sp ELSE m_buf[x]]

\* IncomingSplitBuffer::insert
InsertChunk(c) ==
  LET sp == EntryFor(c)
      added == WithChunk(sp, c)
  IN IF c.count # sp.count \/ c.num \in DOMAIN sp.chunks
     THEN Keep(c.seqnum, sp) /\ UNCHANGED handedOn
     ELSE IF Cardinality(DOMAIN added.chunks) < sp.count
     THEN Keep(c.seqnum, added) /\ UNCHANGED handedOn
     ELSE /\ handedOn' = Append(handedOn, [k \in 1 .. sp.count |-> added.chunks[k - 1]])
          /\ m_buf' = [x \in DOMAIN m_buf \ {c.seqnum} |-> m_buf[x]]

\* A chunk arrives; unreliable ones may come again.
ReceiveUnreliable(c) ==
  /\ c \in DOMAIN inFlight
  /\ InsertChunk(c)
  /\ inFlight' = IF inFlight[c].copies = 1
                 THEN [x \in DOMAIN inFlight \ {c} |-> inFlight[x]]
                 ELSE [inFlight EXCEPT ![c] = [age |-> @.age, copies |-> @.copies - 1]]
  /\ UNCHANGED <<next_split_seqnum, sent, used, stream>>
ReceiveReliable ==
  /\ stream # <<>>
  /\ InsertChunk(Head(stream))
  /\ stream' = Tail(stream)
  /\ UNCHANGED <<next_split_seqnum, sent, used, inFlight>>

SplitNext ==
  \/ \E size \in Sizes, reliable \in BOOLEAN : SendSplit(size, reliable)
  \/ PutBack
  \/ \E c \in DOMAIN inFlight : ReceiveUnreliable(c)
  \/ ReceiveReliable \/ Tick

SplitSpec == SplitInit /\ [][SplitNext]_splitVars

-----------------------------------------------------------------------------
\* What is handed on is one packet as it was sent: chunks of that packet only,
\* and its bytes from the first to the last, without gap or overlap.
WholePackets ==
  \A i \in DOMAIN handedOn :
    LET d == handedOn[i]
        packet == sent[d[1].packet]
    IN /\ \A k \in DOMAIN d : d[k].packet = d[1].packet
       /\ d[1].bytes[1] = 0 /\ d[Len(d)].bytes[2] = packet.size - 1
       /\ \A k \in 2 .. Len(d) : d[k].bytes[1] = d[k - 1].bytes[2] + 1

\* The reliable packets come out complete and in order, none missing and none
\* twice, whatever the leftovers of unreliable ones that the buffer holds: what
\* has not been handed on still has its last chunk on the way.
ReliableComeOut ==
  LET out == {i \in DOMAIN handedOn : handedOn[i][1].reliable}
      Packet(i) == handedOn[i][1].packet
      waiting == {stream[i].packet : i \in DOMAIN stream}
  IN /\ \A i, j \in out : i < j => Packet(i) < Packet(j)
     /\ {Packet(i) : i \in out} = {id \in DOMAIN sent : sent[id].reliable} \ waiting

=============================================================================
