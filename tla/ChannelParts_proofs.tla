-------------------------- MODULE ChannelParts_proofs --------------------------
(***************************************************************************)
(* Two parts of a channel.  The window stays within its limits and grows   *)
(* only while bytes of the last eleven seconds say so: for every setting   *)
(* of the limits and whatever the counters count.  What comes out of the   *)
(* split buffer is whole packets, and the reliable ones in order: for      *)
(* every size of the number circle, of the chunks and of the data, and     *)
(* whatever is lost, doubled or overtaken.                                 *)
(***************************************************************************)
EXTENDS WindowControl, SplitBuffer, FiniteSetTheorems, SequenceTheorems, TLAPS

-----------------------------------------------------------------------------
(***************************************************************************)
(* The window.                                                             *)
(***************************************************************************)

\* What network/mtp/internal.h and impl.h give the constants.
WindowConstants ==
  /\ MinWindow \in Nat /\ MaxWindow \in Nat /\ StartWindow \in MinWindow .. MaxWindow
  /\ PacketSize \in Nat /\ Acked \subseteq Nat /\ Lost \subseteq Nat

\* Bytes are remembered since the last reset at most, and were acknowledged.
BytesAreRecent == current_bytes_transfered > 0 => silent <= bpm_counter

WindowInv == TypeOK /\ BytesAreRecent

\* setWindowSize keeps the window between its limits.
LEMMA ClampInRange ==
  ASSUME WindowConstants, NEW size \in Int
  PROVE  Clamp(size) \in MinWindow .. MaxWindow
  BY DEF WindowConstants, Clamp

\* The ratio is a number, whatever was counted.
LEMMA RatioTyped ==
  ASSUME TypeOK
  PROVE  Losses \in Nat /\ Ratio \in Int
  <1>1. Losses \in Nat /\ current_packet_successful \in Nat
    BY DEF TypeOK, Losses
  <1>2. CASE current_packet_successful = 0
    BY <1>1, <1>2 DEF Ratio
  <1>3. CASE current_packet_successful > 0
    <2>1. Losses \div current_packet_successful \in Int
      BY <1>1, <1>3
    <2> QED BY <1>1, <2>1 DEF Ratio
  <1> QED BY <1>1, <1>2, <1>3

\* By how much the window is changed.
Change ==
  CASE current_packet_successful = 0 /\ Losses > 0 -> -10
    [] Ratio < 10 /\ Reasonable -> 100
    [] Ratio \in 10 .. 49 /\ Reasonable -> 50
    [] Ratio > 150 -> -100
    [] Ratio \in 101 .. 150 -> -50
    [] OTHER -> 0

LEMMA ChangeCases ==
  ASSUME TypeOK
  PROVE  Change \in Int /\ (Change > 0 => Reasonable)
  BY RatioTyped DEF Change

LEMMA WindowStep ==
  ASSUME WindowConstants, WindowInv, [Next]_vars
  PROVE  WindowInv'
  <1>1. CASE UNCHANGED vars
    BY <1>1 DEF WindowInv, TypeOK, BytesAreRecent, vars, counters
  <1>2. ASSUME NEW acked \in Acked, NEW late \in Lost, NEW lost \in Lost,
               Count(acked, late, lost)
        PROVE  WindowInv'
    <2>1. acked \in Nat /\ late \in Nat /\ lost \in Nat /\ MaxWindow \in Nat
      BY DEF WindowConstants
    <2>2. acked * PacketSize \in Nat /\ (acked = 0 => acked * PacketSize = 0)
      BY <2>1 DEF WindowConstants
    <2>3. EnoughBytes \in Nat
      BY <2>1 DEF EnoughBytes
    <2>4. current_bytes_transfered' \in Nat
      BY <1>2, <2>2, <2>3 DEF Count, WindowInv, TypeOK
    <2>5. TypeOK'
      BY <1>2, <2>1, <2>4 DEF Count, WindowInv, TypeOK
    <2>6. BytesAreRecent'
      <3>1. CASE acked > 0
        BY <1>2, <3>1 DEF Count, WindowInv, TypeOK, BytesAreRecent
      <3>2. CASE acked = 0
        <4>1. current_bytes_transfered' > 0 => current_bytes_transfered > 0
          BY <1>2, <2>2, <2>3, <3>2 DEF Count, WindowInv, TypeOK
        <4> QED BY <1>2, <3>2, <4>1 DEF Count, WindowInv, TypeOK, BytesAreRecent
      <3> QED BY <2>1, <3>1, <3>2
    <2> QED BY <2>5, <2>6 DEF WindowInv
  <1>3. CASE UpdateTimers
    <2>1. m_window_size' \in MinWindow .. MaxWindow
      <3>1. NewWindow = Clamp(m_window_size + Change)
        BY DEF NewWindow, Change
      <3>2. m_window_size + Change \in Int
        BY ChangeCases DEF WindowInv, TypeOK, WindowConstants
      <3> QED BY <1>3, <3>1, <3>2, ClampInRange DEF UpdateTimers
    <2> QED BY <1>3, <2>1
            DEF UpdateTimers, WindowInv, TypeOK, BytesAreRecent, ResetBytes
  <1> QED BY <1>1, <1>2, <1>3 DEF Next

\* The window is always between MIN_ and MAX_RELIABLE_WINDOW_SIZE, and the bytes
\* that Channel::UpdateTimers goes by are never older than ten seconds.
THEOREM WindowInvariant == WindowConstants => (Spec => []WindowInv)
  <1> SUFFICES ASSUME WindowConstants PROVE Spec => []WindowInv
    OBVIOUS
  <1>1. Init => WindowInv
    BY DEF Init, WindowConstants, WindowInv, TypeOK, BytesAreRecent
  <1>2. WindowInv /\ [Next]_vars => WindowInv'
    BY WindowStep
  <1> QED BY <1>1, <1>2, PTL DEF Spec

\* The window does not grow once nothing has been acknowledged for eleven
\* seconds (the dead -10 branch of UpdateTimers plays no part in that).
THEOREM NoGrowthInSilence == WindowConstants => (Spec => SilenceStopsGrowth)
  <1> SUFFICES ASSUME WindowConstants PROVE Spec => SilenceStopsGrowth
    OBVIOUS
  <1>1. ASSUME WindowInv, [Next]_vars
        PROVE  [m_window_size' > m_window_size =>
                  silent < 11 /\ m_window_size' <= MaxWindow]_vars
    <2> SUFFICES ASSUME m_window_size' > m_window_size
                 PROVE  silent < 11 /\ m_window_size' <= MaxWindow
      OBVIOUS
    <2>1. UpdateTimers
      BY <1>1 DEF Next, Count, vars, WindowInv, TypeOK, WindowConstants
    <2>2. /\ m_window_size + Change \in Int /\ Change \in Int
          /\ m_window_size \in MinWindow .. MaxWindow
      BY <1>1, ChangeCases DEF WindowInv, TypeOK, WindowConstants
    <2>3. m_window_size' = Clamp(m_window_size + Change)
      BY <2>1 DEF UpdateTimers, NewWindow, Change
    <2>4. Change > 0
      BY <2>2, <2>3 DEF Clamp, WindowConstants
    <2>5. current_bytes_transfered > 0
      BY <1>1, <2>2, <2>4, ChangeCases DEF Reasonable, WindowInv, TypeOK, WindowConstants
    <2> QED BY <1>1, <2>2, <2>3, <2>5, ClampInRange
            DEF WindowInv, TypeOK, BytesAreRecent, WindowConstants
  <1> QED BY <1>1, WindowInvariant, PTL DEF Spec, SilenceStopsGrowth

-----------------------------------------------------------------------------
(***************************************************************************)
(* Split packets.                                                          *)
(***************************************************************************)

\* What kind of values the constants have, and how seldom a number is used: not
\* again while a chunk under it may be on its way, or an entry that such a chunk
\* has opened may wait to time out.
SplitConstants ==
  /\ SplitSpace \in Nat \ {0} /\ SplitInitial \in 0 .. SplitSpace - 1
  /\ ChunkSizeMax \in Nat /\ ChunkSizeMax > Header /\ Sizes \subseteq Nat
  /\ Timeout \in Nat \ {0} /\ Lifetime \in Nat /\ ReuseTime \in Nat
  /\ Lifetime + Timeout <= ReuseTime

\* Quotient and remainder of the division in makeSplitPacket.
LEMMA RoundedUp ==
  ASSUME NEW m \in Nat, m > 0, NEW a \in Nat
  PROVE  /\ a \div m \in Nat
         /\ (a \div m) * m <= a /\ a < (a \div m) * m + m
  <1>1. /\ a \div m \in Int /\ a % m \in 0 .. m - 1
        /\ a = m * (a \div m) + (a % m)
    OBVIOUS
  <1>2. m * (a \div m) = (a \div m) * m
    BY <1>1
  <1>3. (a \div m) * m <= a /\ a < (a \div m) * m + m
    BY <1>1, <1>2
  <1>4. a \div m >= 0
    <2> SUFFICES ASSUME a \div m <= -1 PROVE FALSE
      BY <1>1
    <2>1. m * (a \div m) <= m * (-1)
      BY <1>1
    <2> QED BY <1>1, <2>1
  <1> QED BY <1>1, <1>3, <1>4

\* The loop of makeSplitPacket takes as many chunks as the data needs, and every
\* chunk has a byte of it.
LEMMA ChunksCover ==
  ASSUME SplitConstants, NEW size \in Nat, size > 0
  PROVE  /\ MaximumDataSize \in Nat /\ MaximumDataSize > 0
         /\ ChunkCount(size) \in Nat /\ ChunkCount(size) >= 1
         /\ (ChunkCount(size) - 1) * MaximumDataSize < size
         /\ size <= ChunkCount(size) * MaximumDataSize
  <1> DEFINE m == MaximumDataSize
             n == ChunkCount(size)
             a == size + m - 1
  <1>1. m \in Nat /\ m > 0
    BY DEF SplitConstants, MaximumDataSize, Header
  <1>2. n = a \div m
    BY DEF ChunkCount
  <1> HIDE DEF m, n
  <1>3. a \in Nat /\ a >= m
    BY <1>1
  <1> HIDE DEF a
  <1>4. n \in Nat /\ n * m <= a /\ a < n * m + m
    BY <1>1, <1>2, <1>3, RoundedUp
  <1>5. n * m \in Nat /\ (n - 1) * m = n * m - m
    BY <1>1, <1>4
  <1>6. n # 0
    <2> SUFFICES ASSUME n = 0 PROVE FALSE
      OBVIOUS
    <2>1. n * m = 0
      BY <1>1
    <2> QED BY <1>1, <1>3, <1>4, <2>1
  <1>7. (n - 1) * m < size /\ size <= n * m
    BY <1>1, <1>4, <1>5 DEF a
  <1> QED BY <1>1, <1>4, <1>6, <1>7 DEF m, n

\* What ChunksOf makes is the data, from its first byte to its last.
LEMMA ChunksAreTheData ==
  ASSUME SplitConstants, NEW size \in Nat, size > 0, NEW id, NEW seqnum, NEW reliable
  PROVE  LET d == ChunksOf(id, seqnum, size, reliable)
         IN /\ Len(d) = ChunkCount(size) /\ Len(d) >= 1
            /\ \A k \in DOMAIN d : d[k].packet = id
            /\ d[1].bytes[1] = 0 /\ d[Len(d)].bytes[2] = size - 1
            /\ \A k \in 2 .. Len(d) : d[k].bytes[1] = d[k - 1].bytes[2] + 1
  <1> DEFINE m == MaximumDataSize
             n == ChunkCount(size)
             d == ChunksOf(id, seqnum, size, reliable)
  <1>1. /\ m \in Nat /\ m > 0 /\ n \in Nat /\ n >= 1
        /\ (n - 1) * m < size /\ size <= n * m
    BY ChunksCover
  <1>2. /\ DOMAIN d = 1 .. n /\ Len(d) = n
        /\ \A k \in 1 .. n : d[k].packet = id /\ d[k].bytes = ByteRange(k - 1, size)
    BY <1>1 DEF ChunksOf
  <1>3. \A k \in Int : /\ ByteRange(k, size)[1] = k * m
                       /\ ByteRange(k, size)[2] = Least(k * m + m - 1, size - 1)
    BY DEF ByteRange
  <1> HIDE DEF m, n, d
  <1>4. d[1].bytes[1] = 0
    <2>1. 0 * m = 0
      BY <1>1
    <2>2. 1 \in 1 .. n /\ 1 - 1 = 0
      BY <1>1
    <2>3. d[1].bytes = ByteRange(0, size)
      BY <1>2, <2>2
    <2>4. ByteRange(0, size)[1] = 0 * m
      BY <1>3
    <2> QED BY <2>1, <2>3, <2>4
  <1>5. d[n].bytes[2] = size - 1
    <2>1. (n - 1) * m + m = n * m /\ n * m \in Int /\ (n - 1) * m \in Int
      BY <1>1
    <2>2. Least((n - 1) * m + m - 1, size - 1) = size - 1
      BY <1>1, <2>1 DEF Least
    <2>3. n \in 1 .. n /\ n - 1 \in Int
      BY <1>1
    <2>4. d[n].bytes = ByteRange(n - 1, size)
      BY <1>2, <2>3
    <2>5. ByteRange(n - 1, size)[2] = Least((n - 1) * m + m - 1, size - 1)
      BY <1>3, <2>3
    <2> QED BY <2>2, <2>4, <2>5
  <1>6. ASSUME NEW k \in 2 .. n
        PROVE  d[k].bytes[1] = d[k - 1].bytes[2] + 1
    <2>1. /\ (k - 2) * m + m = (k - 1) * m
          /\ (k - 1) * m \in Int /\ (k - 2) * m \in Int
      BY <1>1
    <2>2. (k - 1) * m <= (n - 1) * m /\ (n - 1) * m \in Int
      BY <1>1
    <2>3. Least((k - 2) * m + m - 1, size - 1) = (k - 1) * m - 1
      BY <1>1, <2>1, <2>2 DEF Least
    <2>4. d[k].bytes[1] = (k - 1) * m
      <3>1. k \in 1 .. n /\ k - 1 \in Int
        BY <1>1
      <3>2. d[k].bytes = ByteRange(k - 1, size)
        BY <1>2, <3>1
      <3>3. ByteRange(k - 1, size)[1] = (k - 1) * m
        BY <1>3, <3>1
      <3> QED BY <3>2, <3>3
    <2>5. d[k - 1].bytes[2] = Least((k - 2) * m + m - 1, size - 1)
      <3>1. k - 1 \in 1 .. n /\ (k - 1) - 1 = k - 2 /\ k - 2 \in Int
        BY <1>1
      <3>2. d[k - 1].bytes = ByteRange(k - 2, size)
        BY <1>2, <3>1
      <3>3. ByteRange(k - 2, size)[2] = Least((k - 2) * m + m - 1, size - 1)
        BY <1>3, <3>1
      <3> QED BY <3>2, <3>3
    <2> QED BY <2>1, <2>3, <2>4, <2>5
  <1> QED BY <1>1, <1>2, <1>4, <1>5, <1>6 DEF d, n

-----------------------------------------------------------------------------
(***************************************************************************)
(* What can be under way and in the buffer.                                *)
(***************************************************************************)

Numbers == 0 .. SplitSpace - 1

SentPackets == [seqnum : Numbers, size : Nat \ {0}, reliable : BOOLEAN]

SplitTypes ==
  /\ next_split_seqnum \in Numbers
  /\ sent \in Seq(SentPackets)
  /\ used \in [Numbers -> Nat]

\* The chunks of the packets sent, and what these packets are when complete.
ChunkOf(id, k) ==
  [packet |-> id, seqnum |-> sent[id].seqnum, count |-> ChunkCount(sent[id].size),
   num |-> k, bytes |-> ByteRange(k, sent[id].size), reliable |-> sent[id].reliable]
AllChunks ==
  UNION {{ChunkOf(id, k) : k \in 0 .. ChunkCount(sent[id].size) - 1} : id \in DOMAIN sent}
Packet(id) == ChunksOf(id, sent[id].seqnum, sent[id].size, sent[id].reliable)
AllPackets == {Packet(id) : id \in DOMAIN sent}

Streamed == {stream[i] : i \in DOMAIN stream}
Buffered ==
  UNION {{m_buf[s].chunks[k] : k \in DOMAIN m_buf[s].chunks} : s \in DOMAIN m_buf}
Live == DOMAIN inFlight \cup Streamed \cup Buffered

\* The live chunks of one number are chunks of one packet.
OneOwner == \A c, d \in Live : c.seqnum = d.seqnum => c.packet = d.packet

\* An unreliable chunk has been on its way for as long as its number has not been
\* used again, and that is not long.
NetworkInv ==
  \A c \in DOMAIN inFlight :
    /\ c \in AllChunks /\ ~c.reliable
    /\ inFlight[c].age \in Nat /\ inFlight[c].age <= Lifetime
    /\ used[c.seqnum] <= inFlight[c].age

\* An entry has chunks of one packet at their places, and one of an unreliable
\* packet does not outlast its number.
EntryInv(s, e) ==
  /\ e = [count |-> e.count, reliable |-> e.reliable, chunks |-> e.chunks,
          time |-> e.time]
  /\ e.time \in Nat /\ DOMAIN e.chunks # {}
  /\ \A k \in DOMAIN e.chunks :
       /\ e.chunks[k] \in AllChunks
       /\ e.chunks[k].num = k /\ e.chunks[k].seqnum = s
       /\ e.chunks[k].count = e.count /\ e.chunks[k].reliable = e.reliable
  /\ ~e.reliable => used[s] <= Lifetime + e.time /\ e.time < Timeout
BufferInv == \A s \in DOMAIN m_buf : EntryInv(s, m_buf[s])

\* Reliable chunks come packet by packet and chunk by chunk.
StreamInv ==
  /\ stream \in Seq(AllChunks)
  /\ \A i \in DOMAIN stream :
       /\ stream[i].reliable
       /\ stream[i].num + 1 < stream[i].count =>
            /\ i + 1 \in DOMAIN stream
            /\ stream[i + 1].packet = stream[i].packet
            /\ stream[i + 1].num = stream[i].num + 1
       /\ stream[i].num + 1 = stream[i].count /\ i + 1 \in DOMAIN stream =>
            stream[i + 1].num = 0
  /\ \A i, j \in DOMAIN stream : i < j =>
       \/ stream[i].packet < stream[j].packet
       \/ stream[i].packet = stream[j].packet /\ stream[i].num < stream[j].num

\* A reliable entry is that of the packet whose turn it is, and has the chunks of
\* it that have come.
ReliableEntries ==
  /\ \A s \in DOMAIN m_buf : m_buf[s].reliable =>
       /\ stream # <<>> /\ stream[1].seqnum = s
       /\ DOMAIN m_buf[s].chunks = 0 .. stream[1].num - 1
  /\ stream # <<>> /\ stream[1].num > 0 =>
       stream[1].seqnum \in DOMAIN m_buf /\ m_buf[stream[1].seqnum].reliable

\* What was handed on, and of the reliable packets: in order, before those that
\* are still on their way, and all but those.
DeliveredInv ==
  /\ handedOn \in Seq(AllPackets)
  /\ \A i, j \in DOMAIN handedOn :
       /\ i < j /\ handedOn[i][1].reliable /\ handedOn[j][1].reliable
       => handedOn[i][1].packet < handedOn[j][1].packet
  /\ \A i \in DOMAIN handedOn, j \in DOMAIN stream :
       handedOn[i][1].reliable => handedOn[i][1].packet < stream[j].packet
  /\ \A id \in DOMAIN sent : sent[id].reliable =>
       \/ \E j \in DOMAIN stream : stream[j].packet = id
       \/ \E i \in DOMAIN handedOn : handedOn[i][1].packet = id

SplitInv ==
  /\ SplitTypes /\ NetworkInv /\ BufferInv /\ StreamInv
  /\ OneOwner /\ ReliableEntries /\ DeliveredInv

\* What was recorded of a packet.
LEMMA SentFacts ==
  ASSUME SplitTypes, NEW id \in DOMAIN sent
  PROVE  /\ id \in Nat /\ sent[id] \in SentPackets
         /\ sent[id].seqnum \in Numbers /\ sent[id].reliable \in BOOLEAN
         /\ sent[id].size \in Nat /\ sent[id].size > 0
  <1>1. id \in Nat /\ sent[id] \in SentPackets
    BY DEF SplitTypes
  <1> QED BY <1>1 DEF SentPackets

\* What a chunk says of the packet it was cut from.
LEMMA ChunkFacts ==
  ASSUME SplitConstants, SplitTypes, NEW c \in AllChunks
  PROVE  /\ c.packet \in DOMAIN sent /\ c.packet \in Nat
         /\ c = ChunkOf(c.packet, c.num)
         /\ c.seqnum = sent[c.packet].seqnum /\ c.seqnum \in Numbers
         /\ c.count = ChunkCount(sent[c.packet].size)
         /\ c.count \in Nat /\ c.count >= 1 /\ c.num \in 0 .. c.count - 1
         /\ c.reliable = sent[c.packet].reliable /\ c.reliable \in BOOLEAN
  <1>1. PICK id \in DOMAIN sent : \E k \in 0 .. ChunkCount(sent[id].size) - 1 :
          c = ChunkOf(id, k)
    BY DEF AllChunks
  <1>2. PICK k \in 0 .. ChunkCount(sent[id].size) - 1 : c = ChunkOf(id, k)
    BY <1>1
  <1>3. /\ c.packet = id /\ c.num = k /\ c.seqnum = sent[id].seqnum
        /\ c.count = ChunkCount(sent[id].size) /\ c.reliable = sent[id].reliable
    BY <1>2 DEF ChunkOf
  <1>4. /\ id \in Nat /\ sent[id].seqnum \in Numbers /\ sent[id].reliable \in BOOLEAN
        /\ sent[id].size \in Nat /\ sent[id].size > 0
    BY SentFacts
  <1>5. ChunkCount(sent[id].size) \in Nat /\ ChunkCount(sent[id].size) >= 1
    BY <1>4, ChunksCover
  <1> QED BY <1>2, <1>3, <1>4, <1>5

LEMMA ChunkIsChunk ==
  ASSUME NEW id \in DOMAIN sent, NEW k \in 0 .. ChunkCount(sent[id].size) - 1
  PROVE  ChunkOf(id, k) \in AllChunks
  BY DEF AllChunks

\* The chunks of a packet, in their order.
LEMMA PacketFacts ==
  ASSUME SplitConstants, SplitTypes, NEW id \in DOMAIN sent
  PROVE  LET n == ChunkCount(sent[id].size)
         IN /\ n \in Nat /\ n >= 1 /\ DOMAIN Packet(id) = 1 .. n /\ Len(Packet(id)) = n
            /\ \A k \in 1 .. n : Packet(id)[k] = ChunkOf(id, k - 1)
            /\ Packet(id) \in Seq(AllChunks)
  <1> DEFINE n == ChunkCount(sent[id].size)
  <1>1. sent[id].size \in Nat /\ sent[id].size > 0
    BY SentFacts
  <1>2. n \in Nat /\ n >= 1
    BY <1>1, ChunksCover
  <1>3. Packet(id) = [k \in 1 .. n |-> ChunkOf(id, k - 1)]
    BY DEF Packet, ChunksOf, ChunkOf
  <1>4. \A k \in 1 .. n : ChunkOf(id, k - 1) \in AllChunks
    <2> SUFFICES ASSUME NEW k \in 1 .. n PROVE ChunkOf(id, k - 1) \in AllChunks
      OBVIOUS
    <2>1. k - 1 \in 0 .. n - 1
      BY <1>2
    <2> QED BY <2>1, ChunkIsChunk
  <1> HIDE DEF n
  <1>5. [k \in 1 .. n |-> ChunkOf(id, k - 1)] \in Seq(AllChunks)
    BY <1>2, <1>4
  <1> QED BY <1>2, <1>3, <1>5 DEF n

\* A packet that was handed on.
LEMMA DeliveredFacts ==
  ASSUME SplitConstants, SplitTypes, NEW d \in AllPackets
  PROVE  /\ d[1] \in AllChunks /\ d[1].packet \in DOMAIN sent
         /\ d = Packet(d[1].packet)
         /\ d[1].reliable = sent[d[1].packet].reliable
  <1>1. PICK id \in DOMAIN sent : d = Packet(id)
    BY DEF AllPackets
  <1>2. d[1] = ChunkOf(id, 0) /\ 0 \in 0 .. ChunkCount(sent[id].size) - 1
    BY <1>1, PacketFacts
  <1>3. d[1] \in AllChunks
    BY <1>2, ChunkIsChunk
  <1>4. d[1].packet = id
    BY <1>2 DEF ChunkOf
  <1> QED BY <1>1, <1>3, <1>4, ChunkFacts

-----------------------------------------------------------------------------
(***************************************************************************)
(* IncomingSplitBuffer::insert.                                            *)
(***************************************************************************)

\* The buffer has no chunk of another packet under the number of this one.
Owns(c) == \A d \in Buffered : d.seqnum = c.seqnum => d.packet = c.packet

\* The places that are taken in the entry for a chunk.
Taken(c) == DOMAIN EntryFor(c).chunks

\* The entry that takes a chunk, whether it was there or is new.
LEMMA EntryFacts ==
  ASSUME SplitConstants, SplitTypes, BufferInv, NEW c \in AllChunks, Owns(c)
  PROVE  LET sp == EntryFor(c)
         IN /\ sp = [count |-> c.count, reliable |-> c.reliable, chunks |-> sp.chunks,
                     time |-> sp.time]
            /\ sp.time \in Nat
            /\ \A k \in DOMAIN sp.chunks : /\ k \in 0 .. c.count - 1
                                           /\ sp.chunks[k] = ChunkOf(c.packet, k)
            /\ ~c.reliable /\ used[c.seqnum] <= Lifetime =>
                 used[c.seqnum] <= Lifetime + sp.time /\ sp.time < Timeout
  <1> DEFINE sp == EntryFor(c)
             s == c.seqnum
  <1>1. CASE s \in DOMAIN m_buf
    <2>1. sp = m_buf[s]
      BY <1>1 DEF EntryFor
    <2> HIDE DEF sp, s
    <2>2. EntryInv(s, sp)
      BY <1>1, <2>1 DEF BufferInv
    <2>3. ASSUME NEW k \in DOMAIN sp.chunks
          PROVE  /\ k \in 0 .. c.count - 1 /\ sp.chunks[k] = ChunkOf(c.packet, k)
                 /\ sp.count = c.count /\ sp.reliable = c.reliable
      <3> DEFINE d == sp.chunks[k]
      <3>1. /\ d \in AllChunks /\ d.num = k /\ d.seqnum = s
            /\ d.count = sp.count /\ d.reliable = sp.reliable
        BY <2>2 DEF EntryInv
      <3>2. d \in Buffered
        BY <1>1, <2>1 DEF Buffered
      <3> HIDE DEF d
      <3>3. d.packet = c.packet
        BY <3>1, <3>2 DEF Owns, s
      <3>4. /\ d = ChunkOf(d.packet, d.num) /\ d.num \in 0 .. d.count - 1
            /\ d.count = ChunkCount(sent[d.packet].size)
            /\ d.reliable = sent[d.packet].reliable
        BY <3>1, ChunkFacts
      <3>5. /\ c.count = ChunkCount(sent[c.packet].size)
            /\ c.reliable = sent[c.packet].reliable
        BY ChunkFacts
      <3> QED BY <3>1, <3>3, <3>4, <3>5 DEF d
    <2>4. sp.count = c.count /\ sp.reliable = c.reliable
      BY <2>2, <2>3 DEF EntryInv
    <2>5. /\ sp = [count |-> sp.count, reliable |-> sp.reliable, chunks |-> sp.chunks,
                   time |-> sp.time]
          /\ sp.time \in Nat
          /\ ~sp.reliable => used[s] <= Lifetime + sp.time /\ sp.time < Timeout
      BY <2>2 DEF EntryInv
    <2> QED BY <2>3, <2>4, <2>5 DEF sp, s
  <1>2. CASE s \notin DOMAIN m_buf
    <2>1. sp = [count |-> c.count, reliable |-> c.reliable, chunks |-> [k \in {} |-> c],
                time |-> 0]
      BY <1>2 DEF EntryFor
    <2> HIDE DEF sp
    <2>2. /\ sp.count = c.count /\ sp.reliable = c.reliable /\ sp.time = 0
          /\ DOMAIN sp.chunks = {}
      BY <2>1
    <2>3. sp = [count |-> c.count, reliable |-> c.reliable, chunks |-> sp.chunks,
                time |-> sp.time]
      BY <2>1
    <2>4. c.seqnum \in Numbers
      BY ChunkFacts
    <2>5. used[c.seqnum] \in Nat
      BY <2>4 DEF SplitTypes
    <2> QED BY <2>2, <2>3, <2>5 DEF sp, SplitConstants
  <1> QED BY <1>1, <1>2

\* The entry with the chunk put in.
LEMMA WithChunkFacts ==
  ASSUME SplitConstants, SplitTypes, BufferInv, NEW c \in AllChunks, Owns(c)
  PROVE  LET sp == EntryFor(c)
             added == WithChunk(sp, c)
         IN /\ added = [count |-> c.count, reliable |-> c.reliable,
                        chunks |-> added.chunks, time |-> sp.time]
            /\ DOMAIN added.chunks = Taken(c) \cup {c.num}
            /\ \A k \in DOMAIN added.chunks : /\ k \in 0 .. c.count - 1
                                              /\ added.chunks[k] = ChunkOf(c.packet, k)
  <1> DEFINE sp == EntryFor(c)
             new == [k \in DOMAIN sp.chunks \cup {c.num} |->
                       IF k = c.num THEN c ELSE sp.chunks[k]]
             added == WithChunk(sp, c)
  <1>1. /\ sp = [count |-> c.count, reliable |-> c.reliable, chunks |-> sp.chunks,
                 time |-> sp.time]
        /\ \A k \in DOMAIN sp.chunks : /\ k \in 0 .. c.count - 1
                                       /\ sp.chunks[k] = ChunkOf(c.packet, k)
    BY EntryFacts
  <1>2. added = [sp EXCEPT !.chunks = new]
    BY DEF WithChunk
  <1>3. Taken(c) = DOMAIN sp.chunks
    BY DEF Taken
  <1> HIDE DEF sp, added
  <1>4. DOMAIN new = DOMAIN sp.chunks \cup {c.num}
    OBVIOUS
  <1>5. \A k \in DOMAIN new : new[k] = IF k = c.num THEN c ELSE sp.chunks[k]
    OBVIOUS
  <1>6. c.num \in 0 .. c.count - 1 /\ c = ChunkOf(c.packet, c.num)
    BY ChunkFacts
  <1> HIDE DEF new
  <1>7. added = [count |-> c.count, reliable |-> c.reliable, chunks |-> new,
                 time |-> sp.time]
    BY <1>1, <1>2
  <1>8. added.chunks = new
    BY <1>7
  <1>9. \A k \in DOMAIN new : k \in 0 .. c.count - 1 /\ new[k] = ChunkOf(c.packet, k)
    BY <1>1, <1>4, <1>5, <1>6
  <1> QED BY <1>3, <1>4, <1>7, <1>8, <1>9 DEF sp, added

\* Places that are as many as there are chunks are all of them.
LEMMA AllPlaces ==
  ASSUME NEW n \in Nat, NEW T, T \subseteq 0 .. n - 1
  PROVE  /\ Cardinality(T) \in Nat
         /\ Cardinality(T) < n <=> T # 0 .. n - 1
  <1>1. IsFiniteSet(0 .. n - 1) /\ Cardinality(0 .. n - 1) = n
    <2>1. n - 1 \in Int /\ 0 \in Int
      OBVIOUS
    <2>2. /\ IsFiniteSet(0 .. n - 1)
          /\ Cardinality(0 .. n - 1) = IF 0 > n - 1 THEN 0 ELSE (n - 1) - 0 + 1
      BY <2>1, FS_Interval
    <2> QED BY <2>2
  <1>2. /\ IsFiniteSet(T) /\ Cardinality(T) <= n
        /\ n = Cardinality(T) => 0 .. n - 1 = T
    BY <1>1, FS_Subset
  <1>3. Cardinality(T) \in Nat
    BY <1>2, FS_CardinalityType
  <1> QED BY <1>1, <1>2, <1>3

(***************************************************************************)
(* insert() ignores a chunk that is there, adds one that is not, or, when  *)
(* that was the last one, hands on the packet and forgets the entry.       *)
(***************************************************************************)
SameElsewhere(s) ==
  \A x \in DOMAIN m_buf \ {s} : x \in DOMAIN m_buf' /\ m_buf'[x] = m_buf[x]

Ignored(c) ==
  /\ c.num \in Taken(c) /\ c.seqnum \in DOMAIN m_buf
  /\ DOMAIN m_buf' = DOMAIN m_buf /\ m_buf'[c.seqnum] = m_buf[c.seqnum]
  /\ handedOn' = handedOn
Added(c) ==
  /\ c.num \notin Taken(c) /\ Taken(c) \cup {c.num} # 0 .. c.count - 1
  /\ DOMAIN m_buf' = DOMAIN m_buf \cup {c.seqnum}
  /\ m_buf'[c.seqnum] = WithChunk(EntryFor(c), c)
  /\ handedOn' = handedOn
Completed(c) ==
  /\ c.num \notin Taken(c) /\ Taken(c) \cup {c.num} = 0 .. c.count - 1
  /\ DOMAIN m_buf' = DOMAIN m_buf \ {c.seqnum}
  /\ handedOn' = Append(handedOn, Packet(c.packet))

LEMMA InsertOutcome ==
  ASSUME SplitConstants, SplitTypes, BufferInv, NEW c \in AllChunks, Owns(c), InsertChunk(c)
  PROVE  SameElsewhere(c.seqnum) /\ (Ignored(c) \/ Added(c) \/ Completed(c))
  <1> DEFINE sp == EntryFor(c)
             added == WithChunk(sp, c)
             s == c.seqnum
  <1>1. /\ sp.count = c.count
        /\ Taken(c) = DOMAIN sp.chunks
    <2>1. sp = [count |-> c.count, reliable |-> c.reliable, chunks |-> sp.chunks,
                time |-> sp.time]
      BY EntryFacts
    <2> HIDE DEF sp
    <2>2. sp.count = c.count
      BY <2>1
    <2> QED BY <2>2 DEF Taken, sp
  <1>2. /\ DOMAIN added.chunks = Taken(c) \cup {c.num}
        /\ \A k \in DOMAIN added.chunks : /\ k \in 0 .. c.count - 1
                                          /\ added.chunks[k] = ChunkOf(c.packet, k)
    BY WithChunkFacts
  <1>3. c.count \in Nat /\ c.packet \in DOMAIN sent
        /\ c.count = ChunkCount(sent[c.packet].size)
    BY ChunkFacts
  <1>4. DOMAIN added.chunks \subseteq 0 .. c.count - 1
    BY <1>2
  <1>5. Cardinality(DOMAIN added.chunks) < c.count
          <=> DOMAIN added.chunks # 0 .. c.count - 1
    BY <1>3, <1>4, AllPlaces
  <1>6. IF c.count # sp.count \/ c.num \in DOMAIN sp.chunks
        THEN Keep(s, sp) /\ handedOn' = handedOn
        ELSE IF Cardinality(DOMAIN added.chunks) < sp.count
        THEN Keep(s, added) /\ handedOn' = handedOn
        ELSE /\ handedOn' =
                  Append(handedOn, [k \in 1 .. sp.count |-> added.chunks[k - 1]])
             /\ m_buf' = [x \in DOMAIN m_buf \ {s} |-> m_buf[x]]
    BY DEF InsertChunk
  <1> HIDE DEF added
  <1>7. CASE c.num \in Taken(c)
    <2>1. s \in DOMAIN m_buf /\ sp = m_buf[s]
      <3>1. ASSUME s \notin DOMAIN m_buf PROVE FALSE
        <4>1. sp.chunks = [k \in {} |-> c]
          BY <3>1 DEF EntryFor
        <4>2. DOMAIN sp.chunks = {}
          BY <4>1
        <4> QED BY <1>1, <1>7, <4>2
      <3> QED BY <3>1 DEF EntryFor
    <2> HIDE DEF sp, s
    <2>2. Keep(s, sp) /\ handedOn' = handedOn
      BY <1>1, <1>6, <1>7
    <2>3. /\ DOMAIN m_buf' = DOMAIN m_buf
          /\ \A x \in DOMAIN m_buf : m_buf'[x] = m_buf[x]
      BY <2>1, <2>2 DEF Keep
    <2> QED BY <1>7, <2>1, <2>2, <2>3 DEF SameElsewhere, Ignored, s
  <1>8. CASE c.num \notin Taken(c) /\ Taken(c) \cup {c.num} # 0 .. c.count - 1
    <2> HIDE DEF sp, s
    <2>1. Keep(s, added) /\ handedOn' = handedOn
      BY <1>1, <1>2, <1>5, <1>6, <1>8
    <2>2. /\ DOMAIN m_buf' = DOMAIN m_buf \cup {s} /\ m_buf'[s] = added
          /\ \A x \in DOMAIN m_buf \ {s} : m_buf'[x] = m_buf[x]
      BY <2>1 DEF Keep
    <2> QED BY <1>8, <2>1, <2>2 DEF SameElsewhere, Added, s, sp, added
  <1>9. CASE c.num \notin Taken(c) /\ Taken(c) \cup {c.num} = 0 .. c.count - 1
    <2> HIDE DEF sp, s
    <2>1. /\ handedOn' = Append(handedOn, [k \in 1 .. c.count |-> added.chunks[k - 1]])
          /\ m_buf' = [x \in DOMAIN m_buf \ {s} |-> m_buf[x]]
      BY <1>1, <1>2, <1>5, <1>6, <1>9
    <2>2. /\ DOMAIN m_buf' = DOMAIN m_buf \ {s}
          /\ \A x \in DOMAIN m_buf \ {s} : m_buf'[x] = m_buf[x]
      BY <2>1
    <2>3. \A k \in 1 .. c.count : added.chunks[k - 1] = ChunkOf(c.packet, k - 1)
      BY <1>2, <1>3, <1>9
    <2>4. Packet(c.packet) = [k \in 1 .. c.count |-> ChunkOf(c.packet, k - 1)]
      BY <1>3 DEF Packet, ChunksOf, ChunkOf
    <2>5. [k \in 1 .. c.count |-> added.chunks[k - 1]] = Packet(c.packet)
      BY <2>3, <2>4
    <2> QED BY <1>9, <2>1, <2>2, <2>5 DEF SameElsewhere, Completed, s
  <1> QED BY <1>7, <1>8, <1>9

\* As long as nothing is sent there are no other chunks and packets.
LEMMA SentSame ==
  ASSUME sent' = sent
  PROVE  AllChunks' = AllChunks /\ AllPackets' = AllPackets
  BY DEF AllChunks, ChunkOf, AllPackets, Packet, ChunksOf

\* insert() keeps the entries in order, and the buffer has no new chunk but this.
LEMMA InsertBuffer ==
  ASSUME SplitConstants, SplitTypes, BufferInv, NEW c \in AllChunks, Owns(c), InsertChunk(c),
         sent' = sent, used' = used, ~c.reliable => used[c.seqnum] <= Lifetime
  PROVE  /\ BufferInv' /\ Buffered' \subseteq Buffered \cup {c}
         /\ c.seqnum \in DOMAIN m_buf' => m_buf'[c.seqnum].reliable = c.reliable
  <1> DEFINE sp == EntryFor(c)
             added == WithChunk(sp, c)
             s == c.seqnum
  <1>1. SameElsewhere(s) /\ (Ignored(c) \/ Added(c) \/ Completed(c))
    BY InsertOutcome
  <1>2. /\ sp = [count |-> c.count, reliable |-> c.reliable, chunks |-> sp.chunks,
                 time |-> sp.time]
        /\ sp.time \in Nat
        /\ ~c.reliable => used[s] <= Lifetime + sp.time /\ sp.time < Timeout
        /\ \A k \in DOMAIN sp.chunks : sp.chunks[k] = ChunkOf(c.packet, k)
    BY EntryFacts
  <1>3. /\ added = [count |-> c.count, reliable |-> c.reliable,
                    chunks |-> added.chunks, time |-> sp.time]
        /\ DOMAIN added.chunks = Taken(c) \cup {c.num}
        /\ \A k \in DOMAIN added.chunks : /\ k \in 0 .. c.count - 1
                                          /\ added.chunks[k] = ChunkOf(c.packet, k)
    BY WithChunkFacts
  <1>4. /\ c.packet \in DOMAIN sent /\ c.count = ChunkCount(sent[c.packet].size)
        /\ s = sent[c.packet].seqnum /\ c.reliable = sent[c.packet].reliable
        /\ c = ChunkOf(c.packet, c.num)
    BY ChunkFacts
  <1>5. Taken(c) = DOMAIN sp.chunks
    BY DEF Taken
  <1>6. s \in DOMAIN m_buf => m_buf[s] = sp
    BY DEF EntryFor
  <1> HIDE DEF sp, added, s
  <1>7. AllChunks' = AllChunks
    BY SentSame
  <1>8. ASSUME NEW x \in DOMAIN m_buf', x # s
        PROVE  x \in DOMAIN m_buf /\ m_buf'[x] = m_buf[x]
    BY <1>1, <1>8 DEF SameElsewhere, Ignored, Added, Completed, s
  <1>9. CASE Ignored(c)
    <2>1. /\ s \in DOMAIN m_buf /\ DOMAIN m_buf' = DOMAIN m_buf /\ m_buf'[s] = m_buf[s]
      BY <1>9 DEF Ignored, s
    <2>2. \A x \in DOMAIN m_buf' : x \in DOMAIN m_buf /\ m_buf'[x] = m_buf[x]
      BY <1>8, <2>1
    <2>3. BufferInv'
      BY <1>7, <2>2 DEF BufferInv, EntryInv
    <2>4. Buffered' \subseteq Buffered
      BY <2>2 DEF Buffered
    <2>5. m_buf'[s].reliable = c.reliable
      <3>1. m_buf'[s] = sp
        BY <1>6, <2>1
      <3> QED BY <1>2, <3>1
    <2> QED BY <2>3, <2>4, <2>5 DEF s
  <1>10. CASE Added(c)
    <2>1. s \in DOMAIN m_buf' /\ m_buf'[s] = added
      BY <1>10 DEF Added, s, added, sp
    <2>2. /\ added.count = c.count /\ added.reliable = c.reliable
          /\ added.time = sp.time
      BY <1>3
    <2>3. EntryInv(s, added)
      <3>1. \A k \in DOMAIN added.chunks :
              /\ added.chunks[k] \in AllChunks
              /\ added.chunks[k].num = k /\ added.chunks[k].seqnum = s
              /\ added.chunks[k].count = c.count
              /\ added.chunks[k].reliable = c.reliable
        <4> SUFFICES ASSUME NEW k \in DOMAIN added.chunks
                     PROVE  /\ added.chunks[k] \in AllChunks
                            /\ added.chunks[k].num = k /\ added.chunks[k].seqnum = s
                            /\ added.chunks[k].count = c.count
                            /\ added.chunks[k].reliable = c.reliable
          OBVIOUS
        <4>1. added.chunks[k] = ChunkOf(c.packet, k) /\ k \in 0 .. c.count - 1
          BY <1>3
        <4>2. ChunkOf(c.packet, k) \in AllChunks
          BY <1>4, <4>1, ChunkIsChunk
        <4> QED BY <1>4, <4>1, <4>2 DEF ChunkOf
      <3>2. DOMAIN added.chunks # {}
        BY <1>3
      <3> QED BY <1>2, <1>3, <2>2, <3>1, <3>2 DEF EntryInv
    <2>4. \A x \in DOMAIN m_buf' : EntryInv(x, m_buf'[x])
      <3> SUFFICES ASSUME NEW x \in DOMAIN m_buf' PROVE EntryInv(x, m_buf'[x])
        OBVIOUS
      <3>1. CASE x = s
        BY <2>1, <2>3, <3>1
      <3>2. CASE x # s
        <4>1. x \in DOMAIN m_buf /\ m_buf'[x] = m_buf[x]
          BY <1>8, <3>2
        <4>2. EntryInv(x, m_buf[x])
          BY <4>1 DEF BufferInv
        <4> QED BY <4>1, <4>2
      <3> QED BY <3>1, <3>2
    <2>5. BufferInv'
      BY <1>7, <2>4 DEF BufferInv, EntryInv
    <2>6. \A k \in DOMAIN added.chunks : added.chunks[k] \in Buffered \cup {c}
      <3> SUFFICES ASSUME NEW k \in DOMAIN added.chunks, k # c.num
                   PROVE  added.chunks[k] \in Buffered
        BY <1>3, <1>4
      <3>1. k \in DOMAIN sp.chunks /\ added.chunks[k] = sp.chunks[k]
        BY <1>2, <1>3, <1>5
      <3>2. s \in DOMAIN m_buf
        <4>1. ASSUME s \notin DOMAIN m_buf PROVE sp.chunks = [y \in {} |-> c]
          BY <4>1 DEF EntryFor, sp, s
        <4> QED BY <3>1, <4>1
      <3> QED BY <1>6, <3>1, <3>2 DEF Buffered
    <2>7. ASSUME NEW x \in DOMAIN m_buf', NEW k \in DOMAIN m_buf'[x].chunks
          PROVE  m_buf'[x].chunks[k] \in Buffered \cup {c}
      <3>1. CASE x = s
        BY <2>1, <2>6, <3>1
      <3>2. CASE x # s
        BY <1>8, <3>2 DEF Buffered
      <3> QED BY <3>1, <3>2
    <2>8. Buffered' \subseteq Buffered \cup {c}
      BY <2>7 DEF Buffered
    <2> QED BY <2>1, <2>2, <2>5, <2>8 DEF s
  <1>11. CASE Completed(c)
    <2>1. s \notin DOMAIN m_buf'
      BY <1>11 DEF Completed, s
    <2>2. \A x \in DOMAIN m_buf' : x \in DOMAIN m_buf /\ m_buf'[x] = m_buf[x]
      BY <1>8, <2>1
    <2>3. BufferInv'
      BY <1>7, <2>2 DEF BufferInv, EntryInv
    <2>4. Buffered' \subseteq Buffered
      BY <2>2 DEF Buffered
    <2> QED BY <2>1, <2>3, <2>4 DEF s
  <1> QED BY <1>1, <1>9, <1>10, <1>11

\* No chunk that comes up is new.
LEMMA OwnersStay ==
  ASSUME OneOwner, Live' \subseteq Live
  PROVE  OneOwner'
  BY DEF OneOwner

-----------------------------------------------------------------------------
(***************************************************************************)
(* Chunks arrive.                                                          *)
(***************************************************************************)

\* What the buffer has was live before it was put there.
LEMMA LiveOwns ==
  ASSUME OneOwner, NEW c \in Live
  PROVE  Owns(c)
  BY DEF OneOwner, Owns, Live

\* Delivering a packet that is not reliable, or none, disturbs no order.
LEMMA DeliveredUnreliable ==
  ASSUME SplitConstants, SplitInv, NEW id \in DOMAIN sent, ~sent[id].reliable,
         sent' = sent, stream' = stream, handedOn' = Append(handedOn, Packet(id))
  PROVE  DeliveredInv'
  <1>1. AllPackets' = AllPackets
    BY SentSame
  <1>2. Packet(id) \in AllPackets
    BY DEF AllPackets
  <1>3. Packet(id)[1].reliable = FALSE
    <2>1. Packet(id)[1] = ChunkOf(id, 0)
      BY PacketFacts DEF SplitInv
    <2> QED BY <2>1 DEF ChunkOf, SplitInv
  <1> DEFINE p == Packet(id)
             n == Len(handedOn)
  <1>4. handedOn \in Seq(AllPackets) /\ n \in Nat
    BY DEF SplitInv, DeliveredInv
  <1> HIDE DEF p
  <1>5. /\ handedOn' \in Seq(AllPackets) /\ DOMAIN handedOn' = 1 .. n + 1
        /\ \A i \in 1 .. n : i \in DOMAIN handedOn /\ handedOn'[i] = handedOn[i]
        /\ handedOn'[n + 1] = p
    BY <1>2, <1>4 DEF p
  <1>6. \A i \in DOMAIN handedOn' : handedOn'[i][1].reliable =>
          i \in DOMAIN handedOn /\ handedOn'[i] = handedOn[i]
    <2> SUFFICES ASSUME NEW i \in DOMAIN handedOn', handedOn'[i][1].reliable
                 PROVE  i \in 1 .. n
      BY <1>5
    <2>1. i # n + 1
      BY <1>3, <1>5 DEF p
    <2> QED BY <1>4, <1>5, <2>1
  <1>7. \A i \in DOMAIN handedOn :
          i \in DOMAIN handedOn' /\ handedOn'[i] = handedOn[i]
    BY <1>4, <1>5
  <1> QED BY <1>1, <1>5, <1>6, <1>7 DEF SplitInv, DeliveredInv

LEMMA ReceiveUnreliableKeeps ==
  ASSUME SplitConstants, SplitInv, NEW c \in DOMAIN inFlight, ReceiveUnreliable(c)
  PROVE  SplitInv'
  <1> USE DEF SplitInv
  <1> DEFINE s == c.seqnum
  <1>1. /\ next_split_seqnum' = next_split_seqnum /\ sent' = sent /\ used' = used
        /\ stream' = stream /\ InsertChunk(c)
    BY DEF ReceiveUnreliable
  <1>2. /\ c \in AllChunks /\ ~c.reliable /\ used[s] <= inFlight[c].age
        /\ inFlight[c].age \in Nat /\ inFlight[c].age <= Lifetime
    BY DEF NetworkInv
  <1>3. s \in Numbers /\ c.packet \in DOMAIN sent /\ sent[c.packet].reliable = c.reliable
    BY <1>2, ChunkFacts
  <1>4. used[s] <= Lifetime
    BY <1>2, <1>3 DEF SplitTypes, SplitConstants
  <1>5. c \in Live /\ Owns(c)
    BY LiveOwns DEF Live
  <1>6. /\ BufferInv' /\ Buffered' \subseteq Buffered \cup {c}
        /\ s \in DOMAIN m_buf' => m_buf'[s].reliable = c.reliable
    BY <1>1, <1>2, <1>4, <1>5, InsertBuffer
  <1>7. SameElsewhere(s) /\ (Ignored(c) \/ Added(c) \/ Completed(c))
    BY <1>1, <1>2, <1>5, InsertOutcome
  <1> HIDE DEF s
  <1>8. AllChunks' = AllChunks
    BY <1>1, SentSame
  <1>9. SplitTypes'
    BY <1>1 DEF SplitTypes
  <1>10. ASSUME NEW d \in DOMAIN inFlight'
         PROVE  d \in DOMAIN inFlight /\ inFlight'[d].age = inFlight[d].age
    <2>1. CASE inFlight[c].copies = 1
      BY <2>1 DEF ReceiveUnreliable
    <2>2. CASE inFlight[c].copies # 1
      <3> DEFINE new == [age |-> inFlight[c].age, copies |-> inFlight[c].copies - 1]
      <3>1. inFlight' = [inFlight EXCEPT ![c] = new]
        BY <2>2 DEF ReceiveUnreliable
      <3>2. new.age = inFlight[c].age
        OBVIOUS
      <3> HIDE DEF new
      <3> QED BY <3>1, <3>2
    <2> QED BY <2>1, <2>2
  <1>11. NetworkInv'
    <2> SUFFICES ASSUME NEW d \in DOMAIN inFlight'
                 PROVE  /\ d \in AllChunks /\ ~d.reliable
                        /\ inFlight'[d].age \in Nat /\ inFlight'[d].age <= Lifetime
                        /\ used[d.seqnum] <= inFlight'[d].age
      BY <1>1, <1>8 DEF NetworkInv
    <2> QED BY <1>10 DEF NetworkInv
  <1>12. StreamInv'
    BY <1>1, <1>8 DEF StreamInv
  <1>13. OneOwner'
    <2>1. Live' \subseteq Live
      BY <1>1, <1>5, <1>6, <1>10 DEF Live, Streamed
    <2> QED BY <2>1, OwnersStay
  <1>14. stream # <<>> => stream[1].seqnum # s
    <2> SUFFICES ASSUME stream # <<>> PROVE stream[1].seqnum # s
      OBVIOUS
    <2>1. 1 \in DOMAIN stream
      BY DEF StreamInv
    <2>2. stream[1] \in AllChunks /\ stream[1].reliable /\ stream[1] \in Live
      BY <2>1 DEF StreamInv, Live, Streamed
    <2>3. stream[1].reliable = sent[stream[1].packet].reliable
      BY <2>2, ChunkFacts
    <2> QED BY <1>2, <1>3, <1>5, <2>2, <2>3 DEF OneOwner, s
  <1>15. ReliableEntries'
    <2>1. \A x \in DOMAIN m_buf' : m_buf'[x].reliable =>
            x \in DOMAIN m_buf /\ m_buf'[x] = m_buf[x]
      <3> SUFFICES ASSUME NEW x \in DOMAIN m_buf', m_buf'[x].reliable
                   PROVE  x \in DOMAIN m_buf /\ m_buf'[x] = m_buf[x]
        OBVIOUS
      <3>1. x # s
        BY <1>2, <1>6
      <3>2. x \in DOMAIN m_buf
        BY <1>7, <3>1 DEF Ignored, Added, Completed, s
      <3> QED BY <1>7, <3>1, <3>2 DEF SameElsewhere
    <2>2. \A x \in DOMAIN m_buf : x # s => x \in DOMAIN m_buf' /\ m_buf'[x] = m_buf[x]
      BY <1>7 DEF SameElsewhere
    <2> QED BY <1>1, <1>14, <2>1, <2>2 DEF ReliableEntries
  <1>16. DeliveredInv'
    <2>1. CASE handedOn' = handedOn
      <3>1. AllPackets' = AllPackets
        BY <1>1, SentSame
      <3> QED BY <1>1, <2>1, <3>1 DEF DeliveredInv
    <2>2. CASE handedOn' = Append(handedOn, Packet(c.packet))
      <3>1. ~sent[c.packet].reliable
        BY <1>2, <1>3
      <3> HIDE DEF SplitInv
      <3> QED BY <1>1, <1>3, <2>2, <3>1, DeliveredUnreliable
    <2> QED BY <1>7, <2>1, <2>2 DEF Ignored, Added, Completed
  <1> QED BY <1>6, <1>9, <1>11, <1>12, <1>13, <1>15, <1>16

\* The entry of the chunk whose turn it is has the chunks before it.
LEMMA HeadIsNext ==
  ASSUME SplitConstants, SplitInv, stream # <<>>
  PROVE  LET c == stream[1]
         IN /\ c \in AllChunks /\ c.reliable /\ c \in Live
            /\ Taken(c) = 0 .. c.num - 1 /\ c.num \notin Taken(c)
            /\ Taken(c) \cup {c.num} = 0 .. c.num
  <1> USE DEF SplitInv
  <1> DEFINE c == stream[1]
             s == c.seqnum
             sp == EntryFor(c)
  <1>1. 1 \in DOMAIN stream
    BY DEF StreamInv
  <1>2. c \in AllChunks /\ c.reliable /\ c \in Live
    BY <1>1 DEF StreamInv, Live, Streamed
  <1>3. c.num \in Nat
    <2>1. c.count \in Nat /\ c.num \in 0 .. c.count - 1
      BY <1>2, ChunkFacts
    <2> QED BY <2>1
  <1>4. Owns(c)
    BY <1>2, LiveOwns
  <1>5. sp.reliable
    <2>1. sp = [count |-> c.count, reliable |-> c.reliable, chunks |-> sp.chunks,
                time |-> sp.time]
      BY <1>2, <1>4, EntryFacts
    <2> HIDE DEF sp
    <2>2. sp.reliable = c.reliable
      BY <2>1
    <2> QED BY <1>2, <2>2
  <1>6. Taken(c) = 0 .. c.num - 1
    <2>1. CASE s \in DOMAIN m_buf
      <3>1. sp = m_buf[s]
        BY <2>1 DEF EntryFor
      <3>2. m_buf[s].reliable
        BY <1>5, <3>1
      <3>3. DOMAIN m_buf[s].chunks = 0 .. c.num - 1
        BY <2>1, <3>2 DEF ReliableEntries
      <3> QED BY <3>1, <3>3 DEF Taken
    <2>2. CASE s \notin DOMAIN m_buf
      <3>1. c.num = 0
        BY <1>3, <2>2 DEF ReliableEntries
      <3>2. sp.chunks = [k \in {} |-> c]
        BY <2>2 DEF EntryFor
      <3>3. Taken(c) = {}
        BY <3>2 DEF Taken
      <3> QED BY <3>1, <3>3
    <2> QED BY <2>1, <2>2
  <1> QED BY <1>2, <1>3, <1>6

\* The order of what is left of the stream.
LEMMA TailKeepsStream ==
  ASSUME StreamInv, stream # <<>>, stream' = Tail(stream), sent' = sent
  PROVE  /\ StreamInv'
         /\ DOMAIN stream' = 1 .. Len(stream) - 1 /\ DOMAIN stream = 1 .. Len(stream)
         /\ Len(stream) \in Nat /\ Len(stream) >= 1
         /\ \A i \in DOMAIN stream' :
              i + 1 \in DOMAIN stream /\ stream'[i] = stream[i + 1]
  <1> DEFINE n == Len(stream)
  <1>1. AllChunks' = AllChunks
    BY SentSame
  <1>2. /\ stream' \in Seq(AllChunks) /\ n \in Nat /\ n >= 1
        /\ DOMAIN stream' = 1 .. n - 1 /\ DOMAIN stream = 1 .. n
        /\ \A i \in 1 .. n - 1 : stream'[i] = stream[i + 1]
    BY DEF StreamInv
  <1> HIDE DEF n
  <1>3. \A i \in DOMAIN stream' :
          /\ i \in Int /\ i + 1 \in DOMAIN stream /\ stream'[i] = stream[i + 1]
          /\ i + 1 \in DOMAIN stream' <=> (i + 1) + 1 \in DOMAIN stream
    BY <1>2
  <1>4. \A i \in DOMAIN stream' :
          /\ stream'[i].reliable
          /\ stream'[i].num + 1 < stream'[i].count =>
               /\ i + 1 \in DOMAIN stream'
               /\ stream'[i + 1].packet = stream'[i].packet
               /\ stream'[i + 1].num = stream'[i].num + 1
          /\ stream'[i].num + 1 = stream'[i].count /\ i + 1 \in DOMAIN stream' =>
               stream'[i + 1].num = 0
    BY <1>3 DEF StreamInv
  <1>5. \A i, j \in DOMAIN stream' : i < j =>
          \/ stream'[i].packet < stream'[j].packet
          \/ stream'[i].packet = stream'[j].packet /\ stream'[i].num < stream'[j].num
    <2> SUFFICES ASSUME NEW i \in DOMAIN stream', NEW j \in DOMAIN stream', i < j
                 PROVE  \/ stream'[i].packet < stream'[j].packet
                        \/ /\ stream'[i].packet = stream'[j].packet
                           /\ stream'[i].num < stream'[j].num
      OBVIOUS
    <2>1. /\ i + 1 \in DOMAIN stream /\ j + 1 \in DOMAIN stream /\ i + 1 < j + 1
          /\ stream'[i] = stream[i + 1] /\ stream'[j] = stream[j + 1]
      BY <1>3
    <2> QED BY <2>1 DEF StreamInv
  <1>6. StreamInv'
    BY <1>1, <1>2, <1>4, <1>5 DEF StreamInv
  <1> QED BY <1>2, <1>3, <1>6 DEF n

LEMMA ReceiveReliableKeeps ==
  ASSUME SplitConstants, SplitInv, ReceiveReliable
  PROVE  SplitInv'
  <1> USE DEF SplitInv
  <1> DEFINE c == stream[1]
             s == c.seqnum
  <1>1. /\ next_split_seqnum' = next_split_seqnum /\ sent' = sent /\ used' = used
        /\ inFlight' = inFlight /\ stream # <<>> /\ stream' = Tail(stream)
    BY DEF ReceiveReliable
  <1>2. InsertChunk(c)
    <2>1. Head(stream) = stream[1]
      BY <1>1 DEF StreamInv
    <2> QED BY <2>1 DEF ReceiveReliable
  <1>3. /\ c \in AllChunks /\ c.reliable /\ c \in Live
        /\ Taken(c) = 0 .. c.num - 1 /\ c.num \notin Taken(c)
        /\ Taken(c) \cup {c.num} = 0 .. c.num
    BY <1>1, HeadIsNext
  <1>4. /\ c.packet \in DOMAIN sent /\ c.packet \in Nat /\ s \in Numbers
        /\ c.count \in Nat /\ c.num \in 0 .. c.count - 1
        /\ sent[c.packet].reliable
    BY <1>3, ChunkFacts
  <1>5. Owns(c)
    BY <1>3, LiveOwns
  <1>6. /\ BufferInv' /\ Buffered' \subseteq Buffered \cup {c}
        /\ s \in DOMAIN m_buf' => m_buf'[s].reliable = c.reliable
    BY <1>1, <1>2, <1>3, <1>5, InsertBuffer
  <1>7. SameElsewhere(s) /\ (Added(c) \/ Completed(c))
    BY <1>2, <1>3, <1>5, InsertOutcome DEF Ignored
  <1>8. /\ StreamInv'
        /\ DOMAIN stream' = 1 .. Len(stream) - 1 /\ DOMAIN stream = 1 .. Len(stream)
        /\ Len(stream) \in Nat /\ Len(stream) >= 1
        /\ \A i \in DOMAIN stream' :
              i + 1 \in DOMAIN stream /\ stream'[i] = stream[i + 1]
    BY <1>1, TailKeepsStream
  <1>9. 1 \in DOMAIN stream
    BY <1>8
  <1>10. /\ Added(c) => c.num + 1 < c.count
         /\ Completed(c) => c.num + 1 = c.count
    <2>1. Added(c) => 0 .. c.num # 0 .. c.count - 1
      BY <1>3 DEF Added
    <2>2. Completed(c) => 0 .. c.num = 0 .. c.count - 1
      BY <1>3 DEF Completed
    <2> HIDE DEF c
    <2>3. 0 .. c.num = 0 .. c.count - 1 <=> c.num = c.count - 1
      BY <1>4
    <2> QED BY <1>4, <2>1, <2>2, <2>3
  <1>11. c.num + 1 < c.count =>
           /\ stream' # <<>> /\ 1 \in DOMAIN stream' /\ stream'[1] = stream[2]
           /\ stream'[1].packet = c.packet /\ stream'[1].num = c.num + 1
           /\ stream'[1].seqnum = s
    <2> SUFFICES ASSUME c.num + 1 < c.count
                 PROVE  /\ stream' # <<>> /\ 1 \in DOMAIN stream'
                        /\ stream'[1] = stream[2]
                        /\ stream'[1].packet = c.packet /\ stream'[1].num = c.num + 1
                        /\ stream'[1].seqnum = s
      OBVIOUS
    <2>1. /\ 1 + 1 \in DOMAIN stream /\ stream[1 + 1].packet = c.packet
          /\ stream[1 + 1].num = c.num + 1
      BY <1>9 DEF StreamInv
    <2>2. 1 + 1 = 2
      OBVIOUS
    <2>3. 2 \in DOMAIN stream /\ stream[2].packet = c.packet /\ stream[2].num = c.num + 1
      BY <2>1, <2>2
    <2>4. stream[2] \in AllChunks
      BY <2>3 DEF StreamInv
    <2>5. stream[2].seqnum = s
      <3>1. stream[2].seqnum = sent[stream[2].packet].seqnum
        BY <2>4, ChunkFacts
      <3>2. s = sent[c.packet].seqnum
        BY <1>3, ChunkFacts
      <3> QED BY <2>3, <3>1, <3>2
    <2>6. 1 \in DOMAIN stream' /\ stream'[1] = stream[2]
      BY <1>8, <2>2, <2>3
    <2> QED BY <1>8, <2>3, <2>5, <2>6
  <1>12. c.num + 1 = c.count =>
           /\ stream' # <<>> => stream'[1].num = 0
           /\ \A j \in DOMAIN stream' : c.packet < stream'[j].packet
    <2> SUFFICES ASSUME c.num + 1 = c.count
                 PROVE  /\ stream' # <<>> => stream'[1].num = 0
                        /\ \A j \in DOMAIN stream' : c.packet < stream'[j].packet
      OBVIOUS
    <2>1. stream' # <<>> => stream'[1].num = 0
      <3> SUFFICES ASSUME stream' # <<>> PROVE stream'[1].num = 0
        OBVIOUS
      <3>1. 1 \in DOMAIN stream'
        BY <1>8 DEF StreamInv
      <3>2. 1 + 1 \in DOMAIN stream /\ stream'[1] = stream[1 + 1]
        BY <1>8, <3>1
      <3> QED BY <1>9, <3>2 DEF StreamInv
    <2>2. ASSUME NEW j \in DOMAIN stream'
          PROVE  c.packet < stream'[j].packet
      <3>1. j + 1 \in DOMAIN stream /\ stream'[j] = stream[j + 1] /\ 1 < j + 1
        BY <1>8
      <3> DEFINE d == stream[j + 1]
      <3>2. \/ c.packet < d.packet
            \/ c.packet = d.packet /\ c.num < d.num
        BY <1>9, <3>1 DEF StreamInv
      <3>3. d \in AllChunks
        BY <3>1 DEF StreamInv
      <3>4. d.count = ChunkCount(sent[d.packet].size) /\ d.num \in 0 .. d.count - 1
            /\ d.count \in Nat
        BY <3>3, ChunkFacts
      <3>5. c.count = ChunkCount(sent[c.packet].size)
        BY <1>3, ChunkFacts
      <3> HIDE DEF c, d
      <3>6. c.packet = d.packet => ~(c.num < d.num)
        BY <1>4, <3>4, <3>5
      <3> QED BY <3>1, <3>2, <3>6 DEF d
    <2> QED BY <2>1, <2>2
  <1> HIDE DEF c, s
  <1>13. AllChunks' = AllChunks /\ AllPackets' = AllPackets
    BY <1>1, SentSame
  <1>14. SplitTypes'
    BY <1>1 DEF SplitTypes
  <1>15. NetworkInv'
    BY <1>1, <1>13 DEF NetworkInv
  <1>16. OneOwner'
    <2>1. Streamed' \subseteq Streamed
      BY <1>8 DEF Streamed
    <2>2. Live' \subseteq Live
      BY <1>1, <1>3, <1>6, <2>1 DEF Live
    <2> QED BY <2>2, OwnersStay
  <1>17. \A x \in DOMAIN m_buf' : m_buf'[x].reliable => x = s
    <2> SUFFICES ASSUME NEW x \in DOMAIN m_buf', m_buf'[x].reliable, x # s PROVE FALSE
      OBVIOUS
    <2>1. x \in DOMAIN m_buf
      BY <1>7 DEF Added, Completed, s
    <2>2. m_buf'[x] = m_buf[x]
      BY <1>7, <2>1 DEF SameElsewhere
    <2> QED BY <2>1, <2>2 DEF ReliableEntries, s, c
  <1>18. ReliableEntries'
    <2>1. CASE Added(c)
      <3>1. s \in DOMAIN m_buf' /\ m_buf'[s] = WithChunk(EntryFor(c), c)
        BY <2>1 DEF Added, s
      <3>2. DOMAIN WithChunk(EntryFor(c), c).chunks = Taken(c) \cup {c.num}
        BY <1>3, <1>5, WithChunkFacts
      <3>3. /\ stream' # <<>> /\ stream'[1].num = c.num + 1 /\ stream'[1].seqnum = s
        BY <1>10, <1>11, <2>1
      <3>4. (c.num + 1) - 1 = c.num
        BY <1>4
      <3>5. DOMAIN m_buf'[s].chunks = 0 .. stream'[1].num - 1
        BY <1>3, <3>1, <3>2, <3>3, <3>4
      <3>6. m_buf'[s].reliable
        BY <1>3, <1>6, <3>1
      <3> QED BY <1>17, <3>1, <3>3, <3>5, <3>6 DEF ReliableEntries
    <2>2. CASE Completed(c)
      <3>1. s \notin DOMAIN m_buf'
        BY <2>2 DEF Completed, s
      <3>2. stream' # <<>> => stream'[1].num = 0
        BY <1>10, <1>12, <2>2
      <3> QED BY <1>17, <3>1, <3>2 DEF ReliableEntries
    <2> QED BY <1>7, <2>1, <2>2
  <1>19. \A j \in DOMAIN stream :
           j # 1 => j - 1 \in DOMAIN stream' /\ stream'[j - 1] = stream[j]
    <2> SUFFICES ASSUME NEW j \in DOMAIN stream, j # 1
                 PROVE  j - 1 \in DOMAIN stream' /\ stream'[j - 1] = stream[j]
      OBVIOUS
    <2>1. j - 1 \in DOMAIN stream' /\ (j - 1) + 1 = j
      BY <1>8
    <2> QED BY <1>8, <2>1
  <1>20. DeliveredInv'
    <2>1. CASE Added(c)
      <3>1. handedOn' = handedOn
        BY <2>1 DEF Added
      <3>2. \A i \in DOMAIN handedOn, j \in DOMAIN stream' :
              handedOn[i][1].reliable => handedOn[i][1].packet < stream'[j].packet
        BY <1>8 DEF DeliveredInv
      <3>3. 1 \in DOMAIN stream' /\ stream'[1].packet = c.packet
        BY <1>10, <1>11, <2>1
      <3>4. \A id : (\E j \in DOMAIN stream : stream[j].packet = id) =>
              \E j \in DOMAIN stream' : stream'[j].packet = id
        BY <1>19, <3>3 DEF c
      <3> QED BY <1>1, <1>13, <3>1, <3>2, <3>4 DEF DeliveredInv
    <2>2. CASE Completed(c)
      <3> DEFINE p == Packet(c.packet)
                 n == Len(handedOn)
      <3>1. handedOn' = Append(handedOn, p)
        BY <2>2 DEF Completed
      <3>2. p \in AllPackets
        BY <1>4 DEF AllPackets
      <3>3. p[1].packet = c.packet
        <4>1. p[1] = ChunkOf(c.packet, 0)
          BY <1>4, PacketFacts
        <4> HIDE DEF p
        <4> QED BY <4>1 DEF ChunkOf
      <3> HIDE DEF p
      <3>4. handedOn \in Seq(AllPackets) /\ n \in Nat /\ DOMAIN handedOn = 1 .. n
        BY DEF DeliveredInv
      <3>5. /\ handedOn' \in Seq(AllPackets) /\ DOMAIN handedOn' = 1 .. n + 1
            /\ \A i \in 1 .. n : handedOn'[i] = handedOn[i]
            /\ handedOn'[n + 1] = p
        BY <3>1, <3>2, <3>4
      <3> HIDE DEF n
      <3>6. \A i \in DOMAIN handedOn' : i # n + 1 =>
              i \in DOMAIN handedOn /\ handedOn'[i] = handedOn[i]
        BY <3>4, <3>5
      <3>7. \A i \in DOMAIN handedOn : handedOn[i][1].reliable =>
              handedOn[i][1].packet < c.packet
        BY <1>9 DEF DeliveredInv, c
      <3>8. \A j \in DOMAIN stream' : c.packet < stream'[j].packet
        BY <1>10, <1>12, <2>2
      <3>9. \A i, j \in DOMAIN handedOn' :
              /\ i < j /\ handedOn'[i][1].reliable /\ handedOn'[j][1].reliable
              => handedOn'[i][1].packet < handedOn'[j][1].packet
        <4> SUFFICES ASSUME NEW i \in DOMAIN handedOn', NEW j \in DOMAIN handedOn',
                            i < j, handedOn'[i][1].reliable, handedOn'[j][1].reliable
                     PROVE  handedOn'[i][1].packet < handedOn'[j][1].packet
          OBVIOUS
        <4>1. i # n + 1 /\ i \in DOMAIN handedOn /\ handedOn'[i] = handedOn[i]
          <5>1. i # n + 1
            BY <3>4, <3>5
          <5> QED BY <3>6, <5>1
        <4>2. CASE j = n + 1
          BY <3>3, <3>5, <3>7, <4>1, <4>2
        <4>3. CASE j # n + 1
          <5>1. j \in DOMAIN handedOn /\ handedOn'[j] = handedOn[j]
            BY <3>6, <4>3
          <5> QED BY <4>1, <5>1 DEF DeliveredInv
        <4> QED BY <4>2, <4>3
      <3>10. \A i \in DOMAIN handedOn', j \in DOMAIN stream' :
               handedOn'[i][1].reliable => handedOn'[i][1].packet < stream'[j].packet
        <4> SUFFICES ASSUME NEW i \in DOMAIN handedOn', NEW j \in DOMAIN stream',
                            handedOn'[i][1].reliable
                     PROVE  handedOn'[i][1].packet < stream'[j].packet
          OBVIOUS
        <4>1. CASE i = n + 1
          BY <3>3, <3>5, <3>8, <4>1
        <4>2. CASE i # n + 1
          <5>1. i \in DOMAIN handedOn /\ handedOn'[i] = handedOn[i]
            BY <3>6, <4>2
          <5>2. j + 1 \in DOMAIN stream /\ stream'[j] = stream[j + 1]
            BY <1>8
          <5> QED BY <5>1, <5>2 DEF DeliveredInv
        <4> QED BY <4>1, <4>2
      <3>11. ASSUME NEW id \in DOMAIN sent, sent[id].reliable
             PROVE  \/ \E j \in DOMAIN stream' : stream'[j].packet = id
                    \/ \E i \in DOMAIN handedOn' : handedOn'[i][1].packet = id
        <4>1. CASE \E j \in DOMAIN stream : stream[j].packet = id
          <5>1. PICK j \in DOMAIN stream : stream[j].packet = id
            BY <4>1
          <5>2. CASE j = 1
            <6>1. n + 1 \in DOMAIN handedOn' /\ handedOn'[n + 1][1].packet = id
              BY <3>3, <3>4, <3>5, <5>1, <5>2 DEF c
            <6> QED BY <6>1
          <5>3. CASE j # 1
            BY <1>19, <5>1, <5>3
          <5> QED BY <5>2, <5>3
        <4>2. CASE \E i \in DOMAIN handedOn : handedOn[i][1].packet = id
          <5>1. PICK i \in DOMAIN handedOn : handedOn[i][1].packet = id
            BY <4>2
          <5>2. i \in DOMAIN handedOn' /\ handedOn'[i] = handedOn[i]
            BY <3>4, <3>5
          <5> QED BY <5>1, <5>2
        <4> QED BY <3>11, <4>1, <4>2 DEF DeliveredInv
      <3> QED BY <1>1, <1>13, <3>5, <3>9, <3>10, <3>11 DEF DeliveredInv
    <2> QED BY <1>7, <2>1, <2>2
  <1> QED BY <1>6, <1>8, <1>14, <1>15, <1>16, <1>18, <1>20

-----------------------------------------------------------------------------
(***************************************************************************)
(* Time passes.                                                            *)
(***************************************************************************)

LEMMA TickKeeps ==
  ASSUME SplitConstants, SplitInv, Tick
  PROVE  SplitInv'
  <1> USE DEF SplitInv
  <1>1. /\ next_split_seqnum' = next_split_seqnum /\ sent' = sent
        /\ stream' = stream /\ handedOn' = handedOn
        /\ used' = [s \in DOMAIN used |-> Least(used[s] + 1, ReuseTime)]
    BY DEF Tick
  <1>2. AllChunks' = AllChunks /\ AllPackets' = AllPackets
    BY <1>1, SentSame
  <1>3. /\ used' \in [Numbers -> Nat]
        /\ \A s \in Numbers :
             used'[s] <= used[s] + 1 /\ used[s] \in Nat /\ used'[s] \in Nat
    <2>1. used \in [Numbers -> Nat] /\ ReuseTime \in Nat
      BY DEF SplitTypes, SplitConstants
    <2>2. \A s \in Numbers : used[s] \in Nat
      BY <2>1
    <2>3. \A s \in Numbers : /\ Least(used[s] + 1, ReuseTime) \in Nat
                             /\ Least(used[s] + 1, ReuseTime) <= used[s] + 1
      BY <2>1, <2>2 DEF Least
    <2>4. \A s \in Numbers : used'[s] = Least(used[s] + 1, ReuseTime)
      BY <1>1, <2>1
    <2>5. DOMAIN used' = Numbers
      BY <1>1, <2>1
    <2>6. used' = [s \in Numbers |-> used'[s]]
      BY <1>1, <2>1
    <2> QED BY <2>2, <2>3, <2>4, <2>5, <2>6
  <1>4. SplitTypes'
    BY <1>1, <1>3 DEF SplitTypes
  <1>5. \A c \in AllChunks : c.seqnum \in Numbers
    BY ChunkFacts
  <1>6. \A c \in DOMAIN inFlight' :
          /\ c \in DOMAIN inFlight /\ inFlight[c].age < Lifetime
          /\ inFlight'[c].age = inFlight[c].age + 1
    BY DEF Tick
  <1>7. NetworkInv'
    <2> SUFFICES ASSUME NEW c \in DOMAIN inFlight'
                 PROVE  /\ c \in AllChunks /\ ~c.reliable
                        /\ inFlight'[c].age \in Nat /\ inFlight'[c].age <= Lifetime
                        /\ used'[c.seqnum] <= inFlight'[c].age
      BY <1>2 DEF NetworkInv
    <2>1. /\ c \in AllChunks /\ ~c.reliable /\ inFlight[c].age \in Nat
          /\ used[c.seqnum] <= inFlight[c].age
      BY <1>6 DEF NetworkInv
    <2>2. Lifetime \in Nat
      BY DEF SplitConstants
    <2>3. inFlight'[c].age = inFlight[c].age + 1 /\ inFlight[c].age < Lifetime
      BY <1>6
    <2>4. used'[c.seqnum] <= used[c.seqnum] + 1 /\ used[c.seqnum] \in Nat
          /\ used'[c.seqnum] \in Nat
      BY <1>3, <1>5, <2>1
    <2> QED BY <2>1, <2>2, <2>3, <2>4
  <1>8. ASSUME NEW s \in DOMAIN m_buf'
        PROVE  /\ s \in DOMAIN m_buf /\ ~Stale(m_buf[s])
               /\ m_buf'[s] = [count |-> m_buf[s].count, reliable |-> m_buf[s].reliable,
                               chunks |-> m_buf[s].chunks, time |-> m_buf'[s].time]
               /\ m_buf'[s].time = IF m_buf[s].reliable THEN m_buf[s].time
                                   ELSE m_buf[s].time + 1
    <2> DEFINE e == m_buf[s]
    <2>1. /\ s \in DOMAIN m_buf /\ ~Stale(e)
          /\ m_buf'[s] = IF e.reliable THEN e ELSE [e EXCEPT !.time = @ + 1]
      BY DEF Tick
    <2>2. e = [count |-> e.count, reliable |-> e.reliable, chunks |-> e.chunks,
               time |-> e.time]
      BY <2>1 DEF BufferInv, EntryInv
    <2> HIDE DEF e
    <2>3. m_buf'[s] = [count |-> e.count, reliable |-> e.reliable, chunks |-> e.chunks,
                       time |-> IF e.reliable THEN e.time ELSE e.time + 1]
      BY <2>1, <2>2
    <2>4. m_buf'[s].time = IF e.reliable THEN e.time ELSE e.time + 1
      BY <2>3
    <2> QED BY <2>1, <2>3, <2>4 DEF e
  <1>9. ASSUME NEW s \in DOMAIN m_buf'
        PROVE  /\ m_buf'[s].count = m_buf[s].count
               /\ m_buf'[s].reliable = m_buf[s].reliable
               /\ m_buf'[s].chunks = m_buf[s].chunks
    <2> DEFINE t == m_buf'[s].time
    <2>1. m_buf'[s] = [count |-> m_buf[s].count, reliable |-> m_buf[s].reliable,
                       chunks |-> m_buf[s].chunks, time |-> t]
      BY <1>8
    <2> HIDE DEF t
    <2> QED BY <2>1
  <1>10. BufferInv'
    <2> SUFFICES ASSUME NEW s \in DOMAIN m_buf'
                 PROVE  EntryInv(s, m_buf[s])'
      BY DEF BufferInv
    <2>1. s \in DOMAIN m_buf /\ EntryInv(s, m_buf[s])
      BY <1>8 DEF BufferInv
    <2>2. PICK k \in DOMAIN m_buf[s].chunks : TRUE
      BY <2>1 DEF EntryInv
    <2>3. s \in Numbers
      <3>1. m_buf[s].chunks[k] \in AllChunks /\ m_buf[s].chunks[k].seqnum = s
        BY <2>1, <2>2 DEF EntryInv
      <3> QED BY <1>5, <3>1
    <2>4. m_buf'[s] = [count |-> m_buf'[s].count, reliable |-> m_buf'[s].reliable,
                       chunks |-> m_buf'[s].chunks, time |-> m_buf'[s].time]
      BY <1>8, <1>9
    <2>5. m_buf[s].time \in Nat /\ m_buf'[s].time \in Nat
      <3>1. m_buf[s].time \in Nat
        BY <2>1 DEF EntryInv
      <3> QED BY <1>8, <3>1
    <2>6. ~m_buf'[s].reliable =>
            used'[s] <= Lifetime + m_buf'[s].time /\ m_buf'[s].time < Timeout
      <3> SUFFICES ASSUME ~m_buf'[s].reliable
                   PROVE  /\ used'[s] <= Lifetime + m_buf'[s].time
                          /\ m_buf'[s].time < Timeout
        OBVIOUS
      <3>1. ~m_buf[s].reliable /\ m_buf'[s].time = m_buf[s].time + 1
        BY <1>8, <1>9
      <3>2. used[s] <= Lifetime + m_buf[s].time
        BY <2>1, <3>1 DEF EntryInv
      <3>3. m_buf[s].time + 1 < Timeout
        <4>1. ~(m_buf[s].time + 1 >= Timeout)
          BY <1>8, <3>1 DEF Stale
        <4> QED BY <2>5, <4>1 DEF SplitConstants
      <3>4. /\ used'[s] <= used[s] + 1 /\ used[s] \in Nat /\ used'[s] \in Nat
            /\ Lifetime \in Nat
        BY <1>3, <2>3 DEF SplitConstants
      <3> QED BY <2>5, <3>1, <3>2, <3>3, <3>4
    <2>7. \A j \in DOMAIN m_buf'[s].chunks :
            /\ m_buf'[s].chunks[j] \in AllChunks
            /\ m_buf'[s].chunks[j].num = j /\ m_buf'[s].chunks[j].seqnum = s
            /\ m_buf'[s].chunks[j].count = m_buf'[s].count
            /\ m_buf'[s].chunks[j].reliable = m_buf'[s].reliable
      BY <1>9, <2>1 DEF EntryInv
    <2>8. DOMAIN m_buf'[s].chunks # {}
      BY <1>9, <2>1 DEF EntryInv
    <2> QED BY <1>2, <2>4, <2>5, <2>6, <2>7, <2>8 DEF EntryInv
  <1>11. StreamInv'
    BY <1>1, <1>2 DEF StreamInv
  <1>12. OneOwner'
    <2>1. Buffered' \subseteq Buffered
      <3>1. \A s \in DOMAIN m_buf' :
              s \in DOMAIN m_buf /\ m_buf'[s].chunks = m_buf[s].chunks
        BY <1>8, <1>9
      <3> QED BY <3>1 DEF Buffered
    <2>2. Live' \subseteq Live
      BY <1>1, <1>6, <2>1 DEF Live, Streamed
    <2> QED BY <2>2, OwnersStay
  <1>13. ReliableEntries'
    <2>1. \A s \in DOMAIN m_buf' : m_buf'[s].reliable =>
            /\ stream # <<>> /\ stream[1].seqnum = s
            /\ DOMAIN m_buf'[s].chunks = 0 .. stream[1].num - 1
      BY <1>8, <1>9 DEF ReliableEntries
    <2>2. \A s \in DOMAIN m_buf : m_buf[s].reliable => s \in DOMAIN m_buf'
      BY DEF Tick, Stale
    <2>3. stream # <<>> /\ stream[1].num > 0 =>
            stream[1].seqnum \in DOMAIN m_buf' /\ m_buf'[stream[1].seqnum].reliable
      <3> SUFFICES ASSUME stream # <<>>, stream[1].num > 0
                   PROVE  /\ stream[1].seqnum \in DOMAIN m_buf'
                          /\ m_buf'[stream[1].seqnum].reliable
        OBVIOUS
      <3>1. stream[1].seqnum \in DOMAIN m_buf /\ m_buf[stream[1].seqnum].reliable
        BY DEF ReliableEntries
      <3>2. stream[1].seqnum \in DOMAIN m_buf'
        BY <2>2, <3>1
      <3> QED BY <1>9, <3>1, <3>2
    <2> QED BY <1>1, <2>1, <2>3 DEF ReliableEntries
  <1>14. DeliveredInv'
    BY <1>1, <1>2 DEF DeliveredInv
  <1> QED BY <1>4, <1>7, <1>10, <1>11, <1>12, <1>13, <1>14

-----------------------------------------------------------------------------
(***************************************************************************)
(* A packet is sent.                                                       *)
(***************************************************************************)

\* Nothing is left of the packet that had the number before: chunks on their way
\* and what they opened are too young, and a reliable entry has chunks to come.
LEMMA NumberIsFree ==
  ASSUME SplitConstants, SplitInv, NEW s \in Numbers, Free(s), NEW c \in Live
  PROVE  c.seqnum # s
  <1> USE DEF SplitInv
  <1>1. /\ used[s] >= ReuseTime /\ used[s] \in Nat
        /\ \A i \in DOMAIN stream : stream[i].seqnum # s
    BY DEF Free, SplitTypes
  <1>2. /\ Lifetime \in Nat /\ Timeout \in Nat /\ Timeout > 0 /\ ReuseTime \in Nat
        /\ Lifetime + Timeout <= ReuseTime
    BY DEF SplitConstants
  <1>3. CASE c \in DOMAIN inFlight
    <2>1. /\ inFlight[c].age \in Nat /\ inFlight[c].age <= Lifetime
          /\ used[c.seqnum] <= inFlight[c].age
      BY <1>3 DEF NetworkInv
    <2> SUFFICES ASSUME c.seqnum = s PROVE FALSE
      OBVIOUS
    <2>2. used[s] <= inFlight[c].age
      BY <2>1
    <2> QED BY <1>1, <1>2, <2>1, <2>2
  <1>4. CASE c \in Streamed
    BY <1>1, <1>4 DEF Streamed
  <1>5. CASE c \in Buffered
    <2>1. PICK x \in DOMAIN m_buf :
            \E k \in DOMAIN m_buf[x].chunks : c = m_buf[x].chunks[k]
      BY <1>5 DEF Buffered
    <2>2. EntryInv(x, m_buf[x]) /\ c.seqnum = x
      BY <2>1 DEF BufferInv, EntryInv
    <2> SUFFICES ASSUME x = s PROVE FALSE
      BY <2>2
    <2>3. CASE m_buf[x].reliable
      <3>1. stream # <<>> /\ stream[1].seqnum = s
        BY <2>1, <2>3 DEF ReliableEntries
      <3>2. 1 \in DOMAIN stream
        BY <3>1 DEF StreamInv
      <3> QED BY <1>1, <3>1, <3>2
    <2>4. CASE ~m_buf[x].reliable
      <3>1. /\ used[s] <= Lifetime + m_buf[x].time /\ m_buf[x].time < Timeout
            /\ m_buf[x].time \in Nat
        BY <2>2, <2>4 DEF EntryInv
      <3> QED BY <1>1, <1>2, <3>1
    <2> QED BY <2>3, <2>4
  <1> QED BY <1>3, <1>4, <1>5 DEF Live

LEMMA SendSplitAs ==
  ASSUME SplitConstants, SplitInv, NEW size \in Sizes, NEW reliable \in BOOLEAN,
         SendSplit(size, reliable),
         NEW id, id = Len(sent) + 1, NEW s, s = next_split_seqnum
  PROVE  SplitInv'
  <1> USE DEF SplitInv
  <1> DEFINE n == ChunkCount(size)
             new == ChunksOf(id, s, size, reliable)
             record == [seqnum |-> s, size |-> size, reliable |-> reliable]
  <1>1. /\ size \in Nat /\ size > 0
    <2>1. /\ size \in Nat /\ size + 1 > ChunkSizeMax
          /\ ChunkSizeMax \in Nat /\ ChunkSizeMax > 7
      BY DEF SendSplit, SplitConstants, Header
    <2> QED BY <2>1
  <1>2. n \in Nat /\ n >= 1
    BY <1>1, ChunksCover
  <1>3. s \in Numbers /\ used \in [Numbers -> Nat] /\ sent \in Seq(SentPackets)
    BY DEF SplitTypes
  <1>4. /\ Free(s) /\ sent' = Append(sent, record) /\ used' = [used EXCEPT ![s] = 0]
        /\ next_split_seqnum' = (s + 1) % SplitSpace
        /\ m_buf' = m_buf /\ handedOn' = handedOn
    BY DEF SendSplit
  <1>5. reliable => stream' = stream \o new /\ inFlight' = inFlight
    BY DEF SendSplit
  <1>6. ~reliable =>
          /\ stream' = stream
          /\ inFlight' = [c \in DOMAIN inFlight \cup ToSet(new) |->
               IF c \in DOMAIN inFlight THEN inFlight[c]
               ELSE [age |-> 0, copies |-> MaxCopies]]
    BY DEF SendSplit
  <1>7. /\ DOMAIN new = 1 .. n /\ Len(new) = n
        /\ \A k \in 1 .. n : /\ new[k].packet = id /\ new[k].seqnum = s
                             /\ new[k].count = n /\ new[k].num = k - 1
                             /\ new[k].reliable = reliable
    BY <1>2 DEF ChunksOf
  <1>8. record \in SentPackets
    BY <1>1, <1>3 DEF SentPackets
  <1> HIDE DEF n
  <1>9. \A k \in 1 .. n : new[k] = [packet |-> id, seqnum |-> s, count |-> n,
          num |-> k - 1, bytes |-> ByteRange(k - 1, size), reliable |-> reliable]
    BY DEF ChunksOf, n
  <1> HIDE DEF new
  <1>10. record.seqnum = s /\ record.size = size /\ record.reliable = reliable
    OBVIOUS
  <1> HIDE DEF record
  <1>11. /\ sent' \in Seq(SentPackets) /\ DOMAIN sent' = 1 .. id /\ id \in Nat
         /\ DOMAIN sent = 1 .. id - 1 /\ sent'[id] = record
         /\ \A i \in DOMAIN sent : i \in DOMAIN sent' /\ sent'[i] = sent[i] /\ i < id
    BY <1>3, <1>4, <1>8
  <1>12. SplitTypes'
    <2>1. (s + 1) % SplitSpace \in Numbers
      <3>1. SplitSpace \in Nat /\ SplitSpace > 0 /\ s + 1 \in Int
        BY <1>3 DEF SplitConstants, Numbers
      <3>2. (s + 1) % SplitSpace \in 0 .. SplitSpace - 1
        BY <3>1
      <3> QED BY <3>2 DEF Numbers
    <2>2. next_split_seqnum' \in Numbers
      BY <1>4, <2>1
    <2>3. used' \in [Numbers -> Nat]
      BY <1>3, <1>4
    <2> QED BY <1>11, <2>2, <2>3 DEF SplitTypes
  <1>13. AllChunks \subseteq AllChunks'
    <2> SUFFICES ASSUME NEW c \in AllChunks PROVE c \in AllChunks'
      OBVIOUS
    <2>1. PICK i \in DOMAIN sent : \E k \in 0 .. ChunkCount(sent[i].size) - 1 :
            c = ChunkOf(i, k)
      BY DEF AllChunks
    <2>2. PICK k \in 0 .. ChunkCount(sent[i].size) - 1 : c = ChunkOf(i, k)
      BY <2>1
    <2>3. i \in DOMAIN sent' /\ sent'[i] = sent[i]
      BY <1>11
    <2>4. c = ChunkOf(i, k)'
      BY <2>2, <2>3 DEF ChunkOf
    <2>5. k \in 0 .. ChunkCount(sent'[i].size) - 1
      BY <2>3
    <2> QED BY <2>3, <2>4, <2>5 DEF AllChunks
  <1>14. AllPackets \subseteq AllPackets'
    <2> SUFFICES ASSUME NEW i \in DOMAIN sent PROVE Packet(i) \in AllPackets'
      BY DEF AllPackets
    <2>1. i \in DOMAIN sent' /\ sent'[i] = sent[i]
      BY <1>11
    <2>2. Packet(i) = Packet(i)'
      BY <2>1 DEF Packet
    <2> QED BY <2>1, <2>2 DEF AllPackets
  <1>15. \A k \in 1 .. n : new[k] \in AllChunks'
    <2> SUFFICES ASSUME NEW k \in 1 .. n PROVE new[k] \in AllChunks'
      OBVIOUS
    <2>1. /\ sent'[id].seqnum = s /\ sent'[id].size = size
          /\ sent'[id].reliable = reliable /\ id \in DOMAIN sent'
      BY <1>10, <1>11
    <2>2. new[k] = ChunkOf(id, k - 1)'
      BY <1>9, <2>1 DEF ChunkOf, n
    <2>3. k - 1 \in 0 .. ChunkCount(sent'[id].size) - 1
      BY <1>2, <2>1 DEF n
    <2> QED BY <2>1, <2>2, <2>3 DEF AllChunks
  <1>16. ToSet(new) = {new[k] : k \in 1 .. n}
    BY <1>7 DEF ToSet
  <1>17. \A c \in Live : c.seqnum # s
    BY <1>3, <1>4, NumberIsFree
  <1>18. new \in Seq(AllChunks')
    <2> DEFINE f == [k \in 1 .. n |-> new[k]]
    <2>1. f \in Seq(AllChunks')
      BY <1>2, <1>15
    <2>2. new = f
      <3>1. new = [k \in 1 .. n |-> [packet |-> id, seqnum |-> s, count |-> n,
              num |-> k - 1, bytes |-> ByteRange(k - 1, size), reliable |-> reliable]]
        BY DEF new, ChunksOf, n
      <3> QED BY <1>9, <3>1
    <2> QED BY <2>1, <2>2
  <1>19. /\ stream \in Seq(AllChunks') /\ Len(stream) \in Nat
         /\ DOMAIN stream = 1 .. Len(stream)
    BY <1>13 DEF StreamInv
  <1> DEFINE m == Len(stream)
  <1>20. reliable =>
           /\ stream' \in Seq(AllChunks') /\ DOMAIN stream' = 1 .. m + n
           /\ \A i \in 1 .. m : stream'[i] = stream[i]
           /\ \A k \in 1 .. n : stream'[m + k] = new[k]
    <2> SUFFICES ASSUME reliable
                 PROVE  /\ stream' \in Seq(AllChunks') /\ DOMAIN stream' = 1 .. m + n
                        /\ \A i \in 1 .. m : stream'[i] = stream[i]
                        /\ \A k \in 1 .. n : stream'[m + k] = new[k]
      OBVIOUS
    <2>1. stream' = stream \o new
      BY <1>5
    <2>2. /\ stream \o new \in Seq(AllChunks') /\ Len(stream \o new) = m + Len(new)
          /\ \A i \in 1 .. m + Len(new) :
               (stream \o new)[i] = IF i <= m THEN stream[i] ELSE new[i - m]
      BY <1>18, <1>19, ConcatProperties
    <2> HIDE DEF m
    <2>3. \A k \in 1 .. n : m + k \in 1 .. m + n /\ ~(m + k <= m) /\ (m + k) - m = k
      BY <1>2, <1>19 DEF m
    <2>4. \A i \in 1 .. m : i \in 1 .. m + n /\ i <= m
      BY <1>2, <1>19 DEF m
    <2>5. Len(new) = n
      BY <1>7
    <2> QED BY <1>2, <1>19, <2>1, <2>2, <2>3, <2>4, <2>5 DEF m
  <1> HIDE DEF m
  <1>m. m \in Nat /\ DOMAIN stream = 1 .. m
    BY <1>19 DEF m
  <1>21. Streamed' \subseteq Streamed \cup ToSet(new)
    <2>1. CASE reliable
      <3>1. ASSUME NEW i \in DOMAIN stream'
            PROVE  stream'[i] \in Streamed \cup ToSet(new)
        <4>1. CASE i <= m
          <5>1. i \in DOMAIN stream /\ stream'[i] = stream[i]
            BY <1>m, <1>20, <2>1, <4>1
          <5> QED BY <5>1 DEF Streamed
        <4>2. CASE i > m
          <5>1. i - m \in 1 .. n /\ m + (i - m) = i
            BY <1>2, <1>m, <1>20, <2>1, <4>2
          <5>2. stream'[i] = new[i - m]
            BY <1>20, <2>1, <5>1
          <5> QED BY <1>16, <5>1, <5>2
        <4> QED BY <1>2, <1>m, <1>20, <2>1, <4>1, <4>2
      <3> QED BY <3>1 DEF Streamed
    <2>2. CASE ~reliable
      BY <1>6, <2>2 DEF Streamed
    <2> QED BY <2>1, <2>2
  <1>22. Live' \subseteq Live \cup ToSet(new)
    <2>1. Buffered' = Buffered
      BY <1>4 DEF Buffered
    <2>2. DOMAIN inFlight' \subseteq DOMAIN inFlight \cup ToSet(new)
      BY <1>5, <1>6
    <2> QED BY <1>21, <2>1, <2>2 DEF Live
  <1>23. \A c \in ToSet(new) : c.seqnum = s /\ c.packet = id
    BY <1>7, <1>16
  <1>24. OneOwner'
    <2> SUFFICES ASSUME NEW c \in Live', NEW d \in Live', c.seqnum = d.seqnum
                 PROVE  c.packet = d.packet
      BY DEF OneOwner
    <2>1. CASE c \in Live /\ d \in Live
      BY <2>1 DEF OneOwner
    <2>2. CASE c \in ToSet(new) \/ d \in ToSet(new)
      <3>1. c \in ToSet(new) /\ d \in ToSet(new)
        BY <1>17, <1>22, <1>23, <2>2
      <3> QED BY <1>23, <3>1
    <2> QED BY <1>22, <2>1, <2>2
  <1>25. NetworkInv'
    <2> SUFFICES ASSUME NEW c \in DOMAIN inFlight'
                 PROVE  /\ c \in AllChunks' /\ ~c.reliable
                        /\ inFlight'[c].age \in Nat /\ inFlight'[c].age <= Lifetime
                        /\ used'[c.seqnum] <= inFlight'[c].age
      BY DEF NetworkInv
    <2>1. CASE c \in DOMAIN inFlight
      <3>1. inFlight'[c] = inFlight[c]
        BY <1>5, <1>6, <2>1
      <3>2. c \in Live /\ c.seqnum # s
        BY <1>17, <2>1 DEF Live
      <3>3. /\ c \in AllChunks /\ ~c.reliable
            /\ inFlight[c].age \in Nat /\ inFlight[c].age <= Lifetime
            /\ used[c.seqnum] <= inFlight[c].age
        BY <2>1 DEF NetworkInv
      <3>4. c.seqnum \in Numbers
        BY <3>3, ChunkFacts
      <3>5. used'[c.seqnum] = used[c.seqnum]
        BY <1>3, <1>4, <3>2, <3>4
      <3> QED BY <1>13, <3>1, <3>3, <3>5
    <2>2. CASE c \notin DOMAIN inFlight
      <3>1. ~reliable
        BY <1>5, <2>2
      <3>2. c \in ToSet(new) /\ inFlight'[c] = [age |-> 0, copies |-> MaxCopies]
        BY <1>6, <2>2, <3>1
      <3>3. inFlight'[c].age = 0
        BY <3>2
      <3>4. c \in AllChunks' /\ c.reliable = reliable /\ c.seqnum = s
        BY <1>7, <1>15, <1>16, <3>2
      <3>5. used'[s] = 0
        BY <1>3, <1>4
      <3> QED BY <3>1, <3>3, <3>4, <3>5 DEF SplitConstants
    <2> QED BY <2>1, <2>2
  <1>26. BufferInv'
    <2> SUFFICES ASSUME NEW x \in DOMAIN m_buf PROVE EntryInv(x, m_buf[x])'
      BY <1>4 DEF BufferInv
    <2>1. EntryInv(x, m_buf[x])
      BY DEF BufferInv
    <2>2. PICK k \in DOMAIN m_buf[x].chunks : TRUE
      BY <2>1 DEF EntryInv
    <2> DEFINE c == m_buf[x].chunks[k]
    <2>3. c \in AllChunks /\ c.seqnum = x
      BY <2>1, <2>2 DEF EntryInv
    <2>4. c \in Live
      BY <2>2 DEF Live, Buffered
    <2> HIDE DEF c
    <2>5. x \in Numbers /\ x # s
      BY <1>17, <2>3, <2>4, ChunkFacts
    <2>6. used'[x] = used[x]
      BY <1>3, <1>4, <2>5
    <2> QED BY <1>4, <1>13, <2>1, <2>6 DEF EntryInv
  <1>27. StreamInv'
    <2>1. CASE ~reliable
      <3>1. stream' = stream
        BY <1>6, <2>1
      <3> QED BY <1>19, <3>1 DEF StreamInv
    <2>2. CASE reliable
      <3>1. \A i \in DOMAIN stream' :
              \/ i \in 1 .. m /\ i \in DOMAIN stream /\ stream'[i] = stream[i]
              \/ \E k \in 1 .. n : i = m + k /\ stream'[i] = new[k]
        <4> SUFFICES ASSUME NEW i \in DOMAIN stream', ~(i <= m)
                     PROVE  \E k \in 1 .. n : i = m + k /\ stream'[i] = new[k]
          BY <1>2, <1>m, <1>20, <2>2
        <4>1. i - m \in 1 .. n /\ i = m + (i - m)
          BY <1>2, <1>m, <1>20, <2>2
        <4>2. stream'[i] = new[i - m]
          BY <1>20, <2>2, <4>1
        <4> QED BY <4>1, <4>2
      <3>2. ASSUME NEW i \in DOMAIN stream'
            PROVE  /\ stream'[i].reliable
                   /\ stream'[i].num + 1 < stream'[i].count =>
                        /\ i + 1 \in DOMAIN stream'
                        /\ stream'[i + 1].packet = stream'[i].packet
                        /\ stream'[i + 1].num = stream'[i].num + 1
                   /\ stream'[i].num + 1 = stream'[i].count /\ i + 1 \in DOMAIN stream' =>
                        stream'[i + 1].num = 0
        <4>1. CASE i \in 1 .. m
          <5> DEFINE c == stream[i]
          <5>1. i \in DOMAIN stream /\ stream'[i] = c
            BY <1>m, <1>20, <2>2, <4>1
          <5>2. /\ c.reliable
                /\ c.num + 1 < c.count =>
                     /\ i + 1 \in DOMAIN stream
                     /\ stream[i + 1].packet = c.packet
                     /\ stream[i + 1].num = c.num + 1
                /\ c.num + 1 = c.count /\ i + 1 \in DOMAIN stream => stream[i + 1].num = 0
            BY <5>1 DEF StreamInv
          <5> HIDE DEF c
          <5>3. i + 1 \in DOMAIN stream =>
                  i + 1 \in DOMAIN stream' /\ stream'[i + 1] = stream[i + 1]
            BY <1>2, <1>m, <1>20, <2>2
          <5>4. i + 1 \notin DOMAIN stream => stream'[i + 1].num = 0
            <6> SUFFICES ASSUME i + 1 \notin DOMAIN stream PROVE stream'[i + 1].num = 0
              OBVIOUS
            <6>1. i + 1 = m + 1 /\ 1 \in 1 .. n
              BY <1>2, <1>m, <4>1
            <6>2. stream'[m + 1] = new[1]
              BY <1>20, <2>2, <6>1
            <6>3. new[1].num = 1 - 1
              BY <1>7, <6>1
            <6> QED BY <6>1, <6>2, <6>3
          <5> QED BY <5>1, <5>2, <5>3, <5>4
        <4>2. CASE i \notin 1 .. m
          <5>1. PICK k \in 1 .. n : i = m + k /\ stream'[i] = new[k]
            BY <3>1, <4>2
          <5>2. /\ stream'[i].reliable /\ stream'[i].num = k - 1
                /\ stream'[i].count = n /\ stream'[i].packet = id
            BY <1>7, <2>2, <5>1
          <5>3. k < n => /\ i + 1 \in DOMAIN stream'
                         /\ stream'[i + 1].packet = id /\ stream'[i + 1].num = k
            <6> SUFFICES ASSUME k < n
                         PROVE  /\ i + 1 \in DOMAIN stream'
                                /\ stream'[i + 1].packet = id /\ stream'[i + 1].num = k
              OBVIOUS
            <6>1. k + 1 \in 1 .. n /\ i + 1 = m + (k + 1) /\ (k + 1) - 1 = k
              BY <1>2, <1>m, <5>1
            <6>2. stream'[i + 1] = new[k + 1]
              BY <1>20, <2>2, <6>1
            <6>3. new[k + 1].packet = id /\ new[k + 1].num = (k + 1) - 1
              BY <1>7, <6>1
            <6>4. i + 1 \in DOMAIN stream'
              BY <1>2, <1>m, <1>20, <2>2, <6>1
            <6> QED BY <6>1, <6>2, <6>3, <6>4
          <5>4. k = n => i + 1 \notin DOMAIN stream'
            BY <1>2, <1>m, <1>20, <2>2, <5>1
          <5>5. (k - 1) + 1 = k /\ k <= n
            BY <1>2
          <5> QED BY <1>2, <5>2, <5>3, <5>4, <5>5
        <4> QED BY <4>1, <4>2
      <3>3. ASSUME NEW i \in DOMAIN stream', NEW j \in DOMAIN stream', i < j
            PROVE  \/ stream'[i].packet < stream'[j].packet
                   \/ /\ stream'[i].packet = stream'[j].packet
                      /\ stream'[i].num < stream'[j].num
        <4>1. CASE j \in 1 .. m
          <5>1. /\ i \in 1 .. m /\ i \in DOMAIN stream /\ j \in DOMAIN stream
                /\ stream'[i] = stream[i] /\ stream'[j] = stream[j]
            BY <1>m, <1>20, <2>2, <3>3, <4>1
          <5> QED BY <3>3, <5>1 DEF StreamInv
        <4>2. CASE j \notin 1 .. m /\ i \in 1 .. m
          <5>1. stream'[j].packet = id
            BY <1>7, <3>1, <4>2
          <5>2. i \in DOMAIN stream /\ stream'[i] = stream[i]
            BY <1>m, <1>20, <2>2, <4>2
          <5>3. stream[i] \in AllChunks
            BY <5>2 DEF StreamInv
          <5>4. stream[i].packet \in DOMAIN sent
            BY <5>3, ChunkFacts
          <5> QED BY <1>11, <5>1, <5>2, <5>4
        <4>3. CASE j \notin 1 .. m /\ i \notin 1 .. m
          <5>1. PICK k \in 1 .. n : i = m + k /\ stream'[i] = new[k]
            BY <3>1, <4>3
          <5>2. PICK l \in 1 .. n : j = m + l /\ stream'[j] = new[l]
            BY <3>1, <4>3
          <5>3. k - 1 < l - 1
            BY <1>m, <3>3, <5>1, <5>2
          <5> QED BY <1>7, <5>1, <5>2, <5>3
        <4> QED BY <4>1, <4>2, <4>3
      <3> QED BY <1>20, <2>2, <3>2, <3>3 DEF StreamInv
    <2> QED BY <2>1, <2>2
  <1>28. ReliableEntries'
    <2>1. CASE stream' = stream
      BY <1>4, <2>1 DEF ReliableEntries
    <2>2. CASE reliable /\ stream # <<>>
      <3>1. 1 \in 1 .. m /\ 1 \in DOMAIN stream' /\ stream' # <<>>
        BY <1>2, <1>m, <1>19, <1>20, <2>2
      <3>2. stream'[1] = stream[1]
        BY <1>20, <2>2, <3>1
      <3> QED BY <1>4, <2>2, <3>1, <3>2 DEF ReliableEntries
    <2>3. CASE reliable /\ stream = <<>>
      <3>1. m = 0 /\ 1 \in 1 .. n
        BY <1>2, <2>3 DEF m
      <3>2. stream'[m + 1] = new[1]
        BY <1>20, <2>3, <3>1
      <3>3. stream'[1].num = 0
        <4>1. new[1].num = 1 - 1
          BY <1>7, <3>1
        <4>2. m + 1 = 1
          BY <3>1
        <4> QED BY <3>2, <4>1, <4>2
      <3>4. \A x \in DOMAIN m_buf : ~m_buf[x].reliable
        BY <2>3 DEF ReliableEntries
      <3> QED BY <1>4, <3>3, <3>4 DEF ReliableEntries
    <2> QED BY <1>6, <2>1, <2>2, <2>3
  <1>29. DeliveredInv'
    <2>1. handedOn' \in Seq(AllPackets')
      BY <1>4, <1>14 DEF DeliveredInv
    <2>2. ASSUME NEW i \in DOMAIN handedOn, NEW j \in DOMAIN stream',
                 handedOn[i][1].reliable
          PROVE  handedOn[i][1].packet < stream'[j].packet
      <3>1. CASE j \in DOMAIN stream /\ stream'[j] = stream[j]
        BY <2>2, <3>1 DEF DeliveredInv
      <3>2. CASE stream'[j] \in ToSet(new)
        <4>1. handedOn[i] \in AllPackets
          BY DEF DeliveredInv
        <4>2. handedOn[i][1].packet \in DOMAIN sent
          BY <4>1, DeliveredFacts
        <4> QED BY <1>11, <1>23, <3>2, <4>2
      <3>3. CASE ~reliable
        BY <1>6, <3>1, <3>3
      <3>4. CASE reliable
        <4>1. CASE j <= m
          <5>1. j \in DOMAIN stream /\ stream'[j] = stream[j]
            BY <1>m, <1>20, <3>4, <4>1
          <5> QED BY <3>1, <5>1
        <4>2. CASE j > m
          <5>1. j - m \in 1 .. n /\ m + (j - m) = j
            BY <1>2, <1>m, <1>20, <3>4, <4>2
          <5>2. stream'[j] = new[j - m]
            BY <1>20, <3>4, <5>1
          <5> QED BY <1>16, <3>2, <5>1, <5>2
        <4> QED BY <1>2, <1>m, <1>20, <3>4, <4>1, <4>2
      <3> QED BY <3>3, <3>4
    <2>3. ASSUME NEW i \in DOMAIN sent', sent'[i].reliable
          PROVE  \/ \E j \in DOMAIN stream' : stream'[j].packet = i
                 \/ \E j \in DOMAIN handedOn : handedOn[j][1].packet = i
      <3>1. CASE i = id
        <4>1. reliable
          BY <1>10, <1>11, <2>3, <3>1
        <4>2. 1 \in 1 .. n /\ m + 1 \in DOMAIN stream'
          BY <1>2, <1>m, <1>20, <4>1
        <4>3. stream'[m + 1].packet = id
          BY <1>7, <1>20, <4>1, <4>2
        <4> QED BY <3>1, <4>2, <4>3
      <3>2. CASE i # id
        <4>1. i \in DOMAIN sent /\ sent[i].reliable
          BY <1>11, <2>3, <3>2
        <4>2. \A j \in DOMAIN stream : j \in DOMAIN stream' /\ stream'[j] = stream[j]
          BY <1>2, <1>6, <1>m, <1>20
        <4> QED BY <4>1, <4>2 DEF DeliveredInv
      <3> QED BY <3>1, <3>2
    <2> QED BY <1>4, <2>1, <2>2, <2>3 DEF DeliveredInv
  <1> QED BY <1>12, <1>24, <1>25, <1>26, <1>27, <1>28, <1>29

LEMMA SendSplitKeeps ==
  ASSUME SplitConstants, SplitInv, NEW size \in Sizes, NEW reliable \in BOOLEAN,
         SendSplit(size, reliable)
  PROVE  SplitInv'
  <1>1. PICK id : id = Len(sent) + 1
    OBVIOUS
  <1>2. PICK s : s = next_split_seqnum
    OBVIOUS
  <1> QED BY <1>1, <1>2, SendSplitAs

LEMMA PutBackKeeps ==
  ASSUME SplitConstants, SplitInv, PutBack
  PROVE  SplitInv'
  <1>1. /\ sent' = sent /\ used' = used /\ Live' = Live
        /\ UNCHANGED <<inFlight, stream, m_buf, handedOn>>
    BY DEF PutBack, Live, Streamed, Buffered
  <1>2. AllChunks' = AllChunks /\ AllPackets' = AllPackets
    BY <1>1, SentSame
  <1>3. next_split_seqnum' \in Numbers
    BY DEF PutBack, SplitInv, SplitTypes, SplitConstants, Numbers
  <1>4. SplitTypes' /\ NetworkInv' /\ BufferInv'
    BY <1>1, <1>2, <1>3 DEF SplitInv, SplitTypes, NetworkInv, BufferInv, EntryInv
  <1>5. StreamInv' /\ ReliableEntries' /\ DeliveredInv'
    BY <1>1, <1>2 DEF SplitInv, StreamInv, ReliableEntries, DeliveredInv
  <1>6. OneOwner'
    BY <1>1, OwnersStay DEF SplitInv
  <1> QED BY <1>4, <1>5, <1>6 DEF SplitInv

-----------------------------------------------------------------------------
LEMMA SplitStart == SplitConstants => (SplitInit => SplitInv)
  <1> SUFFICES ASSUME SplitConstants, SplitInit PROVE SplitInv
    OBVIOUS
  <1>1. /\ sent = <<>> /\ stream = <<>> /\ handedOn = <<>>
        /\ DOMAIN m_buf = {} /\ DOMAIN inFlight = {}
    BY DEF SplitInit
  <1>2. SplitTypes
    BY <1>1 DEF SplitInit, SplitTypes, SplitConstants, Numbers
  <1>3. NetworkInv /\ BufferInv /\ ReliableEntries
    BY <1>1 DEF NetworkInv, BufferInv, ReliableEntries
  <1>4. StreamInv /\ DeliveredInv
    BY <1>1 DEF StreamInv, DeliveredInv
  <1>5. OneOwner
    BY <1>1 DEF OneOwner, Live, Streamed, Buffered
  <1> QED BY <1>2, <1>3, <1>4, <1>5 DEF SplitInv

LEMMA SplitStep ==
  ASSUME SplitConstants, SplitInv, [SplitNext]_splitVars
  PROVE  SplitInv'
  <1>1. CASE UNCHANGED splitVars
    <2>1. sent' = sent /\ Live' = Live
      BY <1>1 DEF splitVars, Live, Streamed, Buffered
    <2>2. AllChunks' = AllChunks /\ AllPackets' = AllPackets
      BY <2>1, SentSame
    <2>3. SplitTypes' /\ NetworkInv' /\ BufferInv'
      BY <1>1, <2>2 DEF splitVars, SplitInv, SplitTypes, NetworkInv, BufferInv, EntryInv
    <2>4. StreamInv' /\ ReliableEntries' /\ DeliveredInv'
      BY <1>1, <2>2 DEF splitVars, SplitInv, StreamInv, ReliableEntries, DeliveredInv
    <2>5. OneOwner'
      BY <2>1, OwnersStay DEF SplitInv
    <2> QED BY <2>3, <2>4, <2>5 DEF SplitInv
  <1>2. CASE SplitNext
    BY <1>2, SendSplitKeeps, PutBackKeeps, ReceiveUnreliableKeeps, ReceiveReliableKeeps, TickKeeps
       DEF SplitNext
  <1> QED BY <1>1, <1>2

\* The inductive invariant of the split packets.
THEOREM SplitInvariant == SplitConstants => (SplitSpec => []SplitInv)
  <1> SUFFICES ASSUME SplitConstants PROVE SplitSpec => []SplitInv
    OBVIOUS
  <1>1. SplitInit => SplitInv
    BY SplitStart
  <1>2. SplitInv /\ [SplitNext]_splitVars => SplitInv'
    BY SplitStep
  <1> QED BY <1>1, <1>2, PTL DEF SplitSpec

\* Whatever is lost, doubled or overtaken and however long entries are left over,
\* as long as no number is used again while something of its last use is left: what
\* IncomingSplitBuffer::insert hands on is one packet as makeSplitPacket cut it.
THEOREM PacketsComeOutWhole == SplitConstants => (SplitSpec => []WholePackets)
  <1> SUFFICES ASSUME SplitConstants PROVE SplitSpec => []WholePackets
    OBVIOUS
  <1>1. SplitInv => WholePackets
    <2> SUFFICES ASSUME SplitInv, NEW i \in DOMAIN handedOn
                 PROVE  LET d == handedOn[i]
                            packet == sent[d[1].packet]
                        IN /\ \A k \in DOMAIN d : d[k].packet = d[1].packet
                           /\ d[1].bytes[1] = 0 /\ d[Len(d)].bytes[2] = packet.size - 1
                           /\ \A k \in 2 .. Len(d) :
                                d[k].bytes[1] = d[k - 1].bytes[2] + 1
      BY DEF WholePackets
    <2> DEFINE d == handedOn[i]
               id == d[1].packet
    <2>1. d \in AllPackets
      BY DEF SplitInv, DeliveredInv
    <2> HIDE DEF d
    <2>2. id \in DOMAIN sent /\ d = Packet(id)
      BY <2>1, DeliveredFacts DEF SplitInv
    <2>3. sent[id].size \in Nat /\ sent[id].size > 0
      BY <2>2, SentFacts DEF SplitInv
    <2> HIDE DEF id
    <2>4. d = ChunksOf(id, sent[id].seqnum, sent[id].size, sent[id].reliable)
      BY <2>2 DEF Packet
    <2>5. /\ \A k \in DOMAIN d : d[k].packet = id
          /\ d[1].bytes[1] = 0 /\ d[Len(d)].bytes[2] = sent[id].size - 1
          /\ \A k \in 2 .. Len(d) : d[k].bytes[1] = d[k - 1].bytes[2] + 1
      BY <2>3, <2>4, ChunksAreTheData
    <2> QED BY <2>5 DEF d, id
  <1> QED BY <1>1, SplitInvariant, PTL

\* The reliable packets come out in the order they were sent in, each once, and all
\* but those whose last chunk is still on its way.
THEOREM ReliableSplitsComeOut == SplitConstants => (SplitSpec => []ReliableComeOut)
  <1> SUFFICES ASSUME SplitConstants PROVE SplitSpec => []ReliableComeOut
    OBVIOUS
  <1>1. SplitInv => ReliableComeOut
    <2> SUFFICES ASSUME SplitInv PROVE ReliableComeOut
      OBVIOUS
    <2> DEFINE out == {i \in DOMAIN handedOn : handedOn[i][1].reliable}
               P(i) == handedOn[i][1].packet
               waiting == {stream[i].packet : i \in DOMAIN stream}
    <2>1. \A i, j \in out : i < j => P(i) < P(j)
      BY DEF SplitInv, DeliveredInv
    <2>2. \A i \in DOMAIN handedOn :
            /\ P(i) \in DOMAIN sent /\ P(i) \in Nat
            /\ handedOn[i][1].reliable = sent[P(i)].reliable
      <3> SUFFICES ASSUME NEW i \in DOMAIN handedOn
                   PROVE  /\ P(i) \in DOMAIN sent /\ P(i) \in Nat
                          /\ handedOn[i][1].reliable = sent[P(i)].reliable
        OBVIOUS
      <3>1. handedOn[i] \in AllPackets
        BY DEF SplitInv, DeliveredInv
      <3> QED BY <3>1, DeliveredFacts, SentFacts DEF SplitInv
    <2>3. ASSUME NEW i \in out
          PROVE  P(i) \in {id \in DOMAIN sent : sent[id].reliable} \ waiting
      <3>1. P(i) \notin waiting
        <4> SUFFICES ASSUME NEW j \in DOMAIN stream, stream[j].packet = P(i) PROVE FALSE
          OBVIOUS
        <4>1. P(i) < stream[j].packet
          BY DEF SplitInv, DeliveredInv
        <4> QED BY <2>2, <4>1
      <3> QED BY <2>2, <3>1
    <2>4. ASSUME NEW id \in DOMAIN sent, sent[id].reliable, id \notin waiting
          PROVE  \E i \in out : P(i) = id
      <3>1. PICK i \in DOMAIN handedOn : P(i) = id
        BY <2>4 DEF SplitInv, DeliveredInv
      <3> QED BY <2>2, <2>4, <3>1
    <2>5. {P(i) : i \in out} = {id \in DOMAIN sent : sent[id].reliable} \ waiting
      BY <2>3, <2>4
    <2> QED BY <2>1, <2>5 DEF ReliableComeOut
  <1> QED BY <1>1, SplitInvariant, PTL

=============================================================================
