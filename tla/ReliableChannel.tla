-------------------------- MODULE ReliableChannel ---------------------------
(***************************************************************************)
(* One direction of one reliable channel of the Minetest transport         *)
(* protocol: the send thread of the sending process, the receive thread of *)
(* the receiving process, the ACKs that come back, and the datagram        *)
(* network between them, which loses, duplicates and reorders.             *)
(*                                                                         *)
(* Packets carry a sequence number "seq" that wraps, and a ghost "id", the *)
(* position of the packet in the stream, that does not: the code never     *)
(* looks at it and the properties are about it.                            *)
(***************************************************************************)
EXTENDS ReliableBufferOps

CONSTANTS
  MinWindow, MaxWindow, StartWindow,  \* *_RELIABLE_WINDOW_SIZE[_SEND], in packets
  WindowSteps,    \* the changes UpdateTimers makes to the window
  Requeue,        \* m_max_packets_requeued
  ChunkCounts,    \* how many chunks a command may split into
  MaxStream,      \* bound of the model: packets numbered in a behaviour
  MaxPings,       \* bound of the model: how many of them are pings
  NetCapacity     \* bound of the model: datagrams in flight

ASSUME ChannelAssumption ==
  /\ MinWindow \in Nat /\ MaxWindow \in Nat /\ StartWindow \in MinWindow .. MaxWindow
  /\ MaxWindow < RecvWindow /\ RecvWindow > 1
  /\ WindowSteps \subseteq Int
  /\ Requeue \in Nat /\ MaxStream \in Nat /\ MaxPings \in Nat /\ NetCapacity \in Nat
  \* sanity_check(originals.size() < MAX_RELIABLE_WINDOW_SIZE)
  /\ ChunkCounts \subseteq 1 .. RecvWindow - 1 /\ ChunkCounts # {}

VARIABLES
  \* the sender's Channel
  queuedCommands,         \* commands not yet split into packets
  queuedReliables,        \* numbered packets that have not been sent
  outgoingReliablesSent,  \* sent and not acknowledged
  nextOutgoing,           \* next_outgoing_seqnum
  windowSize,             \* m_window_size
  \* the receiver's Channel and its receive thread
  nextIncoming,           \* next_incoming_seqnum
  incomingReliables,      \* received ahead of their turn
  packetQueued,           \* the local packet_queued of run()
  \* the datagrams in flight
  network,
  \* ghosts
  submitted,              \* commands submitted so far
  numbered,               \* numbered[id + 1]: command of packet id, 0 for a ping
  delivered               \* ids of the packets processed in turn

senderVars == <<queuedCommands, queuedReliables, outgoingReliablesSent,
                nextOutgoing, windowSize, submitted, numbered>>
receiverVars == <<nextIncoming, incomingReliables, packetQueued, delivered>>
vars == <<senderVars, receiverVars, network>>

Allocated == Len(numbered)      \* the id of the next packet

\* Chunks of queued commands, each named by its command.
QueuedChunks ==
  FlattenSeq([i \in DOMAIN queuedCommands |->
    [k \in 1 .. queuedCommands[i].chunks |-> queuedCommands[i].cmd]])

Init ==
  /\ queuedCommands = <<>> /\ queuedReliables = <<>> /\ outgoingReliablesSent = <<>>
  /\ nextOutgoing = SeqInitial
  /\ windowSize = StartWindow
  /\ nextIncoming = SeqInitial /\ incomingReliables = <<>>
  /\ packetQueued = TRUE
  /\ network = {}
  /\ submitted = 0 /\ numbered = <<>> /\ delivered = <<>>

-----------------------------------------------------------------------------
(***************************************************************************)
(* The network.  A datagram is a record of its kind and of the packet's    *)
(* number; in flight it can be lost, and it can arrive more than once.     *)
(* One datagram does not outlive RecvWindow newer packets: that is the     *)
(* assumption under which any 16-bit numbering can work.                   *)
(***************************************************************************)
Data(p) == [kind |-> "data", seq |-> p.seq, id |-> p.id]
Ack(p)  == [kind |-> "ack",  seq |-> p.seq, id |-> p.id]

\* Handing a datagram to the socket; with no room it is dropped.
Transmit(net, m) == IF Cardinality(net) < NetCapacity THEN net \cup {m} ELSE net

\* What is left of the network when the stream has grown to n packets.
StillInFlight(net, n) == {m \in net : n - m.id < RecvWindow}

\* The network after m arrived: m is gone, or a second copy is on its way.
AfterArrival(m) == {network \ {m}, network}

Lose == \E m \in network :
  /\ network' = network \ {m}
  /\ UNCHANGED <<senderVars, receiverVars>>

-----------------------------------------------------------------------------
(***************************************************************************)
(* Numbering packets.                                                      *)
(***************************************************************************)

\* Seeded fault: a limit one too large across the wrap.
NumberOneMore(next) ==
  outgoingReliablesSent # <<>> =>
    LET lowest == FirstSeqnum(outgoingReliablesSent)
    IN  IF lowest < next
        THEN next - lowest <= windowSize
        ELSE next + (SeqNumMax - lowest) <= windowSize + 1

\* getOutgoingSequenceNumber: whether "next" may be used.  The second branch
\* is the one for a list that starts before the wrap.
NumberAvailable(next) ==
  outgoingReliablesSent # <<>> =>
    LET lowest == FirstSeqnum(outgoingReliablesSent)
    IN  IF lowest < next
        THEN next - lowest <= windowSize
        ELSE next + (SeqNumMax - lowest) <= windowSize

\* processReliableSendCommand takes one number per chunk and puts all of them
\* back (putBackSequenceNumber) if it cannot have every one.
CanNumber(n) == \A k \in 0 .. n - 1 : NumberAvailable(SeqAdd(nextOutgoing, k))

NewPackets(n) ==
  [k \in 1 .. n |-> [seq |-> SeqAdd(nextOutgoing, k - 1), id |-> Allocated + k - 1]]

Number(cmd, n) ==
  /\ CanNumber(n)
  /\ nextOutgoing' = SeqAdd(nextOutgoing, n)
  /\ numbered' = numbered \o [k \in 1 .. n |-> cmd]

\* Seeded fault: the current window instead of the largest one.
OldestInWindow(next) == SeqAdd(next, -windowSize)

(***************************************************************************)
(* sendAsPacketReliable: what insert() is told to expect next.  The code   *)
(* takes (next - 0x8000) % 0x8001 as a signed int: the remainder leaves a  *)
(* number of -0x8000 .. 0x7fff alone, and the u16 parameter wraps it.      *)
(***************************************************************************)
OldestSendable(next) == SeqAdd(next, -RecvWindow)

\* Model bounds.
StreamRoom(n) == Allocated + Len(QueuedChunks) + n <= MaxStream
PingRoom == Cardinality({i \in DOMAIN numbered : numbered[i] = 0}) < MaxPings

\* Seeded fault: a command overtakes those that wait.
MayOvertake == Len(queuedReliables) + 1 < windowSize \div 2

\* PutReliableSendCommand queues the command behind others, and when too many
\* packets wait already.
MayNumberAtOnce ==
  queuedCommands = <<>> /\ Len(queuedReliables) + 1 < windowSize \div 2

SubmitNumbered(n) ==
  /\ StreamRoom(n)
  /\ MayNumberAtOnce
  /\ submitted' = submitted + 1
  /\ Number(submitted', n)
  /\ queuedReliables' = queuedReliables \o NewPackets(n)
  /\ network' = StillInFlight(network, Allocated')
  /\ UNCHANGED <<queuedCommands, outgoingReliablesSent, windowSize, receiverVars>>

SubmitQueued(n) ==
  /\ StreamRoom(n)
  /\ ~(MayNumberAtOnce /\ CanNumber(n))
  /\ submitted' = submitted + 1
  /\ queuedCommands' = Append(queuedCommands, [cmd |-> submitted', chunks |-> n])
  /\ UNCHANGED <<queuedReliables, outgoingReliablesSent, nextOutgoing, windowSize,
                 numbered, receiverVars, network>>

\* RunCommandQueues retries the oldest queued command.
RunCommandQueues ==
  /\ queuedCommands # <<>>
  /\ Len(queuedReliables) < Requeue
  /\ LET c == Head(queuedCommands)
     IN  /\ Number(c.cmd, c.chunks)
         /\ queuedReliables' = queuedReliables \o NewPackets(c.chunks)
  /\ queuedCommands' = Tail(queuedCommands)
  /\ network' = StillInFlight(network, Allocated')
  /\ UNCHANGED <<outgoingReliablesSent, windowSize, submitted, receiverVars>>

-----------------------------------------------------------------------------
(***************************************************************************)
(* Putting packets on the wire.                                            *)
(***************************************************************************)

\* sendAsPacketReliable: file the packet for re-sending, send it in any case.
SendAsPacketReliable(p, net) ==
  /\ outgoingReliablesSent' =
       InsertPacket(outgoingReliablesSent, p, OldestSendable(nextOutgoing'))
  /\ network' = Transmit(net, Data(p))

WireFull == Len(outgoingReliablesSent) >= windowSize

\* One turn of the loop of sendPackets; the packet quota decides how many
\* turns there are before the thread does something else.
SendQueued ==
  /\ queuedReliables # <<>> /\ ~WireFull
  /\ nextOutgoing' = nextOutgoing
  /\ SendAsPacketReliable(Head(queuedReliables), network)
  /\ queuedReliables' = Tail(queuedReliables)
  /\ UNCHANGED <<queuedCommands, windowSize, submitted, numbered, receiverVars>>

\* A ping goes through rawSendAsPacket(.., reliable = true): it is numbered
\* after the queued packets but sent before them.
Ping ==
  /\ StreamRoom(1) /\ PingRoom
  /\ Number(0, 1)
  /\ LET p == NewPackets(1)[1]
         net == StillInFlight(network, Allocated')
     IN  \/ /\ ~WireFull
            /\ SendAsPacketReliable(p, net)
            /\ UNCHANGED queuedReliables
         \/ /\ WireFull
            /\ queuedReliables' = Append(queuedReliables, p)
            /\ network' = net
            /\ UNCHANGED outgoingReliablesSent
  /\ UNCHANGED <<queuedCommands, windowSize, submitted, receiverVars>>

\* runTimeouts re-sends what has waited too long; any sent packet may have.
Resend(p) ==
  /\ network' = Transmit(network, Data(p))
  /\ UNCHANGED <<senderVars, receiverVars>>

\* setWindowSize, as UpdateTimers calls it once a second.
SetWindowSize(size) ==
  windowSize' = IF size < MinWindow THEN MinWindow
                ELSE IF size > MaxWindow THEN MaxWindow ELSE size

UpdateTimers ==
  /\ \E d \in WindowSteps : SetWindowSize(windowSize + d)
  /\ UNCHANGED <<queuedCommands, queuedReliables, outgoingReliablesSent, nextOutgoing,
                 submitted, numbered, receiverVars, network>>

\* handlePacketType_Control, CONTROLTYPE_ACK, in the sender's receive thread.
ReceiveAck(m) ==
  /\ m.kind = "ack"
  /\ outgoingReliablesSent' = PopSeqnum(outgoingReliablesSent, m.seq)
  /\ network' \in AfterArrival(m)
  /\ UNCHANGED <<queuedCommands, queuedReliables, nextOutgoing, windowSize,
                 submitted, numbered, receiverVars>>

-----------------------------------------------------------------------------
(***************************************************************************)
(* The receive thread: handlePacketType_Reliable and, before the next      *)
(* datagram is read, the draining of incoming_reliables.                   *)
(***************************************************************************)
InReceiveWindow(s) == SeqInWindow(s, nextIncoming, RecvWindow)

\* Seeded fault: whatever is at the front is taken.
FrontIsAny == incomingReliables # <<>>

\* checkIncomingBuffers finds the next packet at the front.
FrontIsNext ==
  incomingReliables # <<>> /\ FirstSeqnum(incomingReliables) = nextIncoming

\* Seeded fault: a datagram does not make receive() look at its buffers again.
ReadDatagramQuietly(m) ==
  /\ m.kind = "data"
  /\ packetQueued => ~FrontIsNext
  /\ UNCHANGED packetQueued

\* receive() drains the buffers, unless nothing came since it last did, then
\* reads one datagram, and any datagram makes it look at them again.
ReadDatagram(m) ==
  /\ m.kind = "data"
  /\ packetQueued => ~FrontIsNext
  /\ packetQueued' = TRUE

\* The packet whose turn it is.
ReceiveInTurn(m) ==
  /\ ReadDatagram(m)
  /\ m.seq = nextIncoming
  /\ InReceiveWindow(m.seq)
  /\ incomingReliables' =
       IF incomingReliables # <<>> /\ FirstSeqnum(incomingReliables) = m.seq
       THEN Tail(incomingReliables) ELSE incomingReliables
  /\ nextIncoming' = SeqAdd(nextIncoming, 1)
  /\ delivered' = Append(delivered, m.id)
  /\ \E net \in AfterArrival(m) : network' = Transmit(net, Ack(m))
  /\ UNCHANGED senderVars

\* Seeded fault: a packet ahead of its turn is acknowledged and dropped.
ReceiveAheadForgetting(m) ==
  /\ ReadDatagram(m)
  /\ m.seq # nextIncoming
  /\ InReceiveWindow(m.seq)
  /\ \E net \in AfterArrival(m) : network' = Transmit(net, Ack(m))
  /\ UNCHANGED <<nextIncoming, incomingReliables, delivered, senderVars>>

\* A packet of the window whose turn has not come.
ReceiveAhead(m) ==
  /\ ReadDatagram(m)
  /\ m.seq # nextIncoming
  /\ InReceiveWindow(m.seq)
  /\ incomingReliables' =
       InsertPacket(incomingReliables, [seq |-> m.seq, id |-> m.id], nextIncoming)
  /\ \E net \in AfterArrival(m) : network' = Transmit(net, Ack(m))
  /\ UNCHANGED <<nextIncoming, delivered, senderVars>>

\* Seeded fault: newer by the bare number.
LooksNewerUnwrapped(s) == s > nextIncoming

\* A packet outside of the window: dropped if it looks newer, acknowledged
\* again if it looks older.
LooksNewer(s) == SeqHigher(s, nextIncoming)

ReceiveOutside(m) ==
  /\ ReadDatagram(m)
  /\ ~InReceiveWindow(m.seq)
  /\ \E net \in AfterArrival(m) :
       network' = IF LooksNewer(m.seq) THEN net ELSE Transmit(net, Ack(m))
  /\ UNCHANGED <<nextIncoming, incomingReliables, delivered, senderVars>>

Unbuffer ==
  /\ packetQueued /\ FrontIsNext
  /\ delivered' = Append(delivered, Head(incomingReliables).id)
  /\ incomingReliables' = Tail(incomingReliables)
  /\ nextIncoming' = SeqAdd(nextIncoming, 1)
  /\ UNCHANGED <<packetQueued, senderVars, network>>

\* A turn of receive() that drains and then finds the socket empty.
Drained ==
  /\ packetQueued /\ ~FrontIsNext
  /\ packetQueued' = FALSE
  /\ UNCHANGED <<nextIncoming, incomingReliables, delivered, senderVars, network>>

ReceiveData(m) == ReceiveInTurn(m) \/ ReceiveAhead(m) \/ ReceiveOutside(m)

-----------------------------------------------------------------------------
Next ==
  \/ \E n \in ChunkCounts : SubmitNumbered(n) \/ SubmitQueued(n)
  \/ RunCommandQueues \/ SendQueued \/ Ping \/ UpdateTimers
  \/ \E i \in DOMAIN outgoingReliablesSent : Resend(outgoingReliablesSent[i])
  \/ \E m \in network : ReceiveAck(m) \/ ReceiveData(m)
  \/ Unbuffer \/ Drained \/ Lose

Spec == Init /\ [][Next]_vars

(***************************************************************************)
(* Fairness.  The send thread wakes at least every 50 ms and its loop      *)
(* reaches every queue, the receive thread drains before it reads: weak    *)
(* fairness.  The network cannot refuse one packet for ever although it is *)
(* re-sent for ever: strong fairness of re-sending the oldest sent packet  *)
(* into the network, of its arrival and of its ACK's arrival, and no       *)
(* datagram stays in flight for ever.                                      *)
(***************************************************************************)
Oldest == Head(outgoingReliablesSent)

ResendOldest == outgoingReliablesSent # <<>> /\ Resend(Oldest)

Consumed(m) == m \notin network'

OldestArrives == \E m \in network :
  outgoingReliablesSent # <<>> /\ m = Data(Oldest) /\ ReceiveData(m) /\ Consumed(m)

OldestAcked == \E m \in network :
  outgoingReliablesSent # <<>> /\ m = Ack(Oldest) /\ ReceiveAck(m) /\ Consumed(m)

DatagramLeaves == \E m \in network : (ReceiveAck(m) \/ ReceiveData(m)) /\ Consumed(m)

Fairness ==
  /\ WF_vars(RunCommandQueues) /\ WF_vars(SendQueued)
  /\ WF_vars(Unbuffer) /\ WF_vars(Drained)
  /\ SF_vars(ResendOldest) /\ SF_vars(OldestArrives)
  /\ SF_vars(OldestAcked) /\ SF_vars(DatagramLeaves)

FairSpec == Spec /\ Fairness

-----------------------------------------------------------------------------
(***************************************************************************)
(* Properties.                                                             *)
(***************************************************************************)
\* Every variable has the type of the field or queue it stands for.
TypeOK ==
  /\ queuedCommands \in Seq([cmd : Nat, chunks : Nat])
  /\ queuedReliables \in Seq(Packets)
  /\ outgoingReliablesSent \in Seq(Packets)
  /\ incomingReliables \in Seq(Packets)
  /\ nextOutgoing \in SeqNums /\ nextIncoming \in SeqNums
  /\ windowSize \in MinWindow .. MaxWindow
  /\ packetQueued \in BOOLEAN
  /\ network \subseteq [kind : {"data", "ack"}, seq : SeqNums, id : Nat]
  /\ submitted \in Nat
  /\ numbered \in Seq(Nat) /\ delivered \in Seq(Nat)

(***************************************************************************)
(* The packets are processed in the order in which they were numbered,     *)
(* each exactly once, whatever the network loses, repeats or reorders      *)
(* (handlePacketType_Reliable, checkIncomingBuffers).                      *)
(***************************************************************************)
InOrderExactlyOnce == \A i \in 1 .. Len(delivered) : delivered[i] = i - 1

(***************************************************************************)
(* A numbered packet stays with the sender, queued or filed for            *)
(* re-sending, until the receiver has it: no ACK ever cancels a packet     *)
(* that was not received, and filing a packet is never refused.            *)
(***************************************************************************)
NothingLost == \A id \in 0 .. Allocated - 1 :
  \/ id < Len(delivered)
  \/ id \in IdsOf(incomingReliables)
  \/ id \in IdsOf(queuedReliables)
  \/ id \in IdsOf(outgoingReliablesSent)

(***************************************************************************)
(* The premise of both: the packets the sender still keeps lie within one  *)
(* RecvWindow of the next number it will give.                             *)
(***************************************************************************)
WithinWindow ==
  \A id \in IdsOf(queuedReliables) \cup IdsOf(outgoingReliablesSent) :
    Allocated - id < RecvWindow

(***************************************************************************)
(* How far the sender lets its backlog grow: getOutgoingSequenceNumber     *)
(* compares with the first sent packet only, so it allows two more than    *)
(* the window across the wrap, and with nothing on the wire it allows what *)
(* was left queued and one whole command, whatever its size.               *)
(***************************************************************************)
QueueLimit == Max({MaxWindow \div 2 - 2, Requeue - 1}) + Max(ChunkCounts)

BacklogLimit == Max({MaxWindow + 2, QueueLimit + MaxPings})

BacklogBounded ==
  \A id \in IdsOf(queuedReliables) \cup IdsOf(outgoingReliablesSent) :
    Allocated - id <= BacklogLimit

(***************************************************************************)
(* Both lists are kept sorted by age, without duplicates, across the wrap  *)
(* (ReliablePacketBuffer::insert), although pings overtake queued packets  *)
(* and packets arrive in any order: getFirstSeqnum is the oldest.          *)
(***************************************************************************)
BuffersAscending == Ascending(outgoingReliablesSent) /\ Ascending(incomingReliables)

(***************************************************************************)
(* The receive thread never goes back to the socket while the packet whose *)
(* turn it is sits in its buffer: it was acknowledged, so nothing would    *)
(* make it look again (receive, packet_queued).                            *)
(***************************************************************************)
NeverStallsOnBuffered ==
  ~packetQueued => \A i \in DOMAIN incomingReliables :
                      incomingReliables[i].seq # nextIncoming

(***************************************************************************)
(* The channel implements a FIFO: what a FifoChannel calls sent and        *)
(* received, without the transport's own pings.                            *)
(***************************************************************************)
ProgramChunks(cmds) ==
  FlattenSeq([i \in DOMAIN cmds |-> IF cmds[i] = 0 THEN <<>> ELSE <<cmds[i]>>])

SentChunks == ProgramChunks(numbered) \o QueuedChunks

ReceivedChunks ==
  ProgramChunks([i \in DOMAIN delivered |-> numbered[delivered[i] + 1]])

Fifo == INSTANCE FifoChannel WITH
  Commands <- 1 .. MaxStream,
  ChunkCounts <- ChunkCounts,
  sent <- SentChunks,
  received <- ReceivedChunks

ImplementsFifo == Fifo!Init /\ [][Fifo!Next]_(Fifo!fifoVars)

(***************************************************************************)
(* What is handed in comes out: a command that has to wait for numbers, a  *)
(* packet that has to wait for the window and one that is lost on the way  *)
(* are all processed in the end.                                           *)
(***************************************************************************)
HandedIn == Allocated + Len(QueuedChunks)

EverythingArrives ==
  \A n \in 1 .. MaxStream : (HandedIn >= n) ~> (Len(delivered) >= n)

(***************************************************************************)
(* The sender is told: no packet stays filed for re-sending for ever, even *)
(* when the ACK of a packet processed long ago was lost (the ACK of an old *)
(* packet is sent again).                                                  *)
(***************************************************************************)
EverythingAcknowledged ==
  \A id \in 0 .. MaxStream - 1 :
    (id \in IdsOf(outgoingReliablesSent)) ~> (id \notin IdsOf(outgoingReliablesSent))

-----------------------------------------------------------------------------
(***************************************************************************)
(* What makes InOrderExactlyOnce and NothingLost inductive.                *)
(***************************************************************************)

\* Every number in the system is the number of the position it stands for.
NumbersMatch ==
  /\ nextOutgoing = SeqNumOf(Allocated) /\ nextIncoming = SeqNumOf(Len(delivered))
  /\ SeqsMatch(queuedReliables) /\ SeqsMatch(outgoingReliablesSent)
  /\ SeqsMatch(incomingReliables)
  /\ \A m \in network : m.seq = SeqNumOf(m.id)

\* Where in the stream packets can be found.
PositionsInRange ==
  /\ Len(delivered) <= Allocated
  /\ \A id \in IdsOf(queuedReliables) \cup IdsOf(outgoingReliablesSent) : id < Allocated
  /\ \A id \in IdsOf(incomingReliables) :
       Len(delivered) <= id /\ id < Len(delivered) + RecvWindow /\ id < Allocated
  /\ \A m \in network : m.id < Allocated /\ Allocated - m.id < RecvWindow

(***************************************************************************)
(* An ACK in flight says the truth: its packet was processed or is in the  *)
(* receiver's buffer (handlePacketType_Reliable acknowledges what it       *)
(* buffers, processes, or takes for an old one).                           *)
(***************************************************************************)
AcksAreHonest == \A m \in network :
  m.kind = "ack" => m.id < Len(delivered) \/ m.id \in IdsOf(incomingReliables)

(***************************************************************************)
(* The inductive invariant, as long as WithinWindow holds.                 *)
(***************************************************************************)
IInv ==
  /\ TypeOK /\ NumbersMatch /\ PositionsInRange /\ AcksAreHonest
  /\ InOrderExactlyOnce /\ NothingLost /\ BuffersAscending /\ NeverStallsOnBuffered

-----------------------------------------------------------------------------
(***************************************************************************)
(* What makes BacklogBounded inductive beside IInv: the send queue is a    *)
(* run of the stream from its head on, but for the pings that overtook it; *)
(* of packets that are no pings it never holds more than QueueLimit.       *)
(***************************************************************************)
OfProgramQueued == {id \in IdsOf(queuedReliables) : numbered[id + 1] # 0}

OnlyPingsOvertake ==
  queuedReliables # <<>> =>
    \A id \in queuedReliables[1].id .. Allocated - 1 :
      id \in IdsOf(queuedReliables) \/ numbered[id + 1] = 0

PingPositions == {i \in DOMAIN numbered : numbered[i] = 0}

BacklogInv ==
  /\ \A i \in DOMAIN queuedCommands :
       queuedCommands[i].cmd > 0 /\ queuedCommands[i].chunks \in ChunkCounts
  /\ Ascending(queuedReliables) /\ OnlyPingsOvertake
  /\ Cardinality(OfProgramQueued) <= QueueLimit
  /\ Cardinality(PingPositions) <= MaxPings
  /\ BacklogBounded

=============================================================================
