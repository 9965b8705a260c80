----------------------------- MODULE Handshake ------------------------------
(***************************************************************************)
(* How a client gets its peer id.  The client sends packets without an id; *)
(* the server makes a half-open peer for the address they come from and    *)
(* answers SET_PEER_ID, a reliable packet that is not re-sent while the    *)
(* peer is half-open: each further packet without an id makes the server   *)
(* send it once more, up to a limit.  A packet with the id opens the peer, *)
(* which from then on ignores packets without one, so that the client puts *)
(* the id into what it has already sent and may have to send again.        *)
(*                                                                         *)
(* One client and channel 0, which carries the dummy packet of connect(),  *)
(* the pings and SET_PEER_ID.  Sequence numbers count from SEQNUM_INITIAL, *)
(* and few enough are used that windows do not matter (ReliableChannel is  *)
(* about these).  What the server sends later has no part in this.         *)
(***************************************************************************)
EXTENDS Naturals, FiniteSets, Sequences

CONSTANTS
  ResendLimit,   \* INIT_PHASE_MIN_TIMEOUT + 1, the limit on CONNCMD_RESEND_ONE
  HalfOpenTime,  \* the time a half-open peer has, in ticks
  SendsEarly,    \* whether the program sends reliably before Connected()
  MaxMade,       \* bound of the model: peers made for the client's address
  MaxNumbered,   \* bound of the model: reliable packets the client numbers
  NetCapacity    \* bound of the model: datagrams in flight to the server

ASSUME HandshakeAssumption ==
  /\ ResendLimit \in Nat /\ HalfOpenTime \in Nat /\ SendsEarly \in BOOLEAN
  /\ MaxMade \in Nat /\ MaxNumbered \in Nat \ {0} /\ NetCapacity \in Nat

Inexistent == 0             \* PEER_ID_INEXISTENT; ids are 1, 2, ... as they are given
Seqs == 0 .. MaxNumbered - 1

VARIABLES
  \* the client
  clientId,    \* m_peer_id
  accepting,   \* the id that its receive thread is about to set
  packets,     \* where each reliable packet is
  carries,     \* the id in the header of each
  numbered,    \* how many have a number
  commands,    \* m_command_queue
  draining,    \* whether the send thread works it off
  owesAck,     \* whether an ACK of SET_PEER_ID waits in m_outgoing_queue
  \* the server
  given,       \* the last id it gave
  peer,        \* what it has under that id: no peer, half-open, or open
  received,    \* what its channel processed or has in incoming_reliables
  unacked,     \* whether SET_PEER_ID is in its outgoing_reliables_sent ...
  resends,     \* ... and resend_count of it
  age,         \* m_timeout_counter while half-open
  \* the datagrams in flight
  toServer, toClient

outgoingVars == <<packets, carries, numbered, draining>>
clientVars == <<clientId, accepting, commands, owesAck, outgoingVars>>
channelVars == <<received, unacked, resends>>
serverVars == <<given, peer, age, channelVars>>
shakeVars == <<clientVars, serverVars, toServer, toClient>>

\* connect() has run: its dummy packet has the first number and no id.
ShakeInit ==
  /\ clientId = Inexistent /\ accepting = Inexistent
  /\ packets = [s \in Seqs |-> IF s = 0 THEN "queued" ELSE "unmade"]
  /\ carries = [s \in Seqs |-> Inexistent]
  /\ numbered = 1 /\ commands = <<>> /\ draining = FALSE /\ owesAck = FALSE
  /\ given = 0 /\ peer = "none"
  /\ received = {} /\ unacked = FALSE /\ resends = 0 /\ age = 0
  /\ toServer = {} /\ toClient = {}

-----------------------------------------------------------------------------
(***************************************************************************)
(* The network loses, duplicates and reorders.                             *)
(***************************************************************************)
\* Handing a datagram for the server to the socket; without room it is dropped.
\* The few that there are for the client always have room.
Transmit(net, m) == IF Cardinality(net) < NetCapacity THEN net \cup {m} ELSE net
AfterArrival(net, m) == {net \ {m}, net}

Data(s, i) == [kind |-> "data", seq |-> s, id |-> i]
InitPacket(i) == [kind |-> "init", seq |-> 0, id |-> i]
AckFromClient(i) == [kind |-> "ack", seq |-> 0, id |-> i]
SetPeerId(i) == [kind |-> "setid", id |-> i]
AckFromServer(s) == [kind |-> "ack", id |-> s]

ToServerPackets == [kind : {"data", "init", "ack"}, seq : Nat, id : Nat]
ToClientPackets == [kind : {"setid", "ack"}, id : Nat]

Lose ==
  /\ \/ \E m \in toServer : toServer' = toServer \ {m} /\ UNCHANGED toClient
     \/ \E m \in toClient : toClient' = toClient \ {m} /\ UNCHANGED toServer
  /\ UNCHANGED <<clientVars, serverVars>>

-----------------------------------------------------------------------------
(***************************************************************************)
(* The client's send thread: it works off its commands, sends what is      *)
(* queued, then re-sends and pings.                                        *)
(***************************************************************************)
Connected == clientId # Inexistent

\* Numbers that the waiting commands will take.
Asked == numbered + Len(SelectSeq(commands, LAMBDA c : c = "send"))

ProgramSends ==
  /\ SendsEarly \/ Connected
  /\ Asked < MaxNumbered
  /\ commands' = Append(commands, "send")
  /\ UNCHANGED <<clientId, accepting, owesAck, outgoingVars, serverVars, toServer, toClient>>

\* A new packet gets the id that the client has at this moment (makePacket).
MakePacket(place) ==
  /\ numbered < MaxNumbered
  /\ numbered' = numbered + 1
  /\ packets' = [packets EXCEPT ![numbered] = place]
  /\ carries' = [carries EXCEPT ![numbered] = clientId]

SendCommand ==
  /\ Head(commands) = "send"
  /\ MakePacket("queued")

\* Seeded fault: only the oldest packet is fixed.
FixFirstPeerId ==
  /\ Head(commands) = "fix"
  /\ carries' = [s \in Seqs |->
       IF packets[s] = "sent" /\ (\A r \in 0 .. s - 1 : packets[r] # "sent")
       THEN clientId ELSE carries[s]]
  /\ UNCHANGED <<packets, numbered>>

\* fix_peer_id goes through outgoing_reliables_sent.
FixPeerId ==
  /\ Head(commands) = "fix"
  /\ carries' = [s \in Seqs |-> IF packets[s] = "sent" THEN clientId ELSE carries[s]]
  /\ UNCHANGED <<packets, numbered>>

StartDraining ==
  /\ ~draining
  /\ \A s \in Seqs : packets[s] \notin {"queued", "made"}
  /\ draining' = TRUE
  /\ UNCHANGED <<clientId, accepting, commands, owesAck, packets, carries, numbered,
                 serverVars, toServer, toClient>>

ProcessCommand ==
  /\ draining /\ commands # <<>>
  /\ SendCommand \/ FixPeerId
  /\ commands' = Tail(commands)
  /\ UNCHANGED <<clientId, accepting, owesAck, draining, serverVars, toServer, toClient>>

EndDraining ==
  /\ draining /\ commands = <<>>
  /\ draining' = FALSE
  /\ UNCHANGED <<clientId, accepting, commands, owesAck, packets, carries, numbered,
                 serverVars, toServer, toClient>>

\* runTimeouts makes a ping, and files and sends it at once.
MakePing ==
  /\ ~draining /\ Asked < MaxNumbered
  /\ \A s \in Seqs : packets[s] # "made"
  /\ MakePacket("made")
  /\ UNCHANGED <<clientId, accepting, commands, owesAck, draining, serverVars, toServer,
                 toClient>>

\* A queued packet, or a ping, is filed and sent for the first time.
SendReliable(s) ==
  /\ ~draining /\ packets[s] \in {"queued", "made"}
  /\ packets[s] = "queued" => \A r \in 0 .. s - 1 : packets[r] # "queued"
  /\ packets' = [packets EXCEPT ![s] = "sent"]
  /\ toServer' = Transmit(toServer, Data(s, carries[s]))
  /\ UNCHANGED <<clientId, accepting, commands, owesAck, carries, numbered, draining,
                 serverVars, toClient>>

\* The client has the server as an open peer from the start: it re-sends.
Resend(s) ==
  /\ ~draining /\ packets[s] = "sent"
  /\ toServer' = Transmit(toServer, Data(s, carries[s]))
  /\ UNCHANGED <<clientVars, serverVars, toClient>>

\* m_outgoing_queue comes after the reliable packets.
ReliablesSent == \A s \in Seqs : packets[s] # "queued"

\* Client::step repeats TOSERVER_INIT, unreliably, until the server answers.
SendInit ==
  /\ ~draining /\ ReliablesSent
  /\ toServer' = Transmit(toServer, InitPacket(clientId))
  /\ UNCHANGED <<clientVars, serverVars, toClient>>

SendAck ==
  /\ ~draining /\ ReliablesSent /\ owesAck
  /\ owesAck' = FALSE
  /\ toServer' = Transmit(toServer, AckFromClient(clientId))
  /\ UNCHANGED <<clientId, accepting, commands, outgoingVars, serverVars, toClient>>

-----------------------------------------------------------------------------
(***************************************************************************)
(* The client's receive thread.                                            *)
(***************************************************************************)

\* SET_PEER_ID has the first sequence number: the first one is in turn.
HeardBefore == accepting # Inexistent \/ clientId # Inexistent

IdToTake(m) == IF HeardBefore THEN Inexistent ELSE m.id

\* The ACK is queued before the packet is looked at.
ReceiveSetPeerId(m) ==
  /\ m \in toClient /\ m.kind = "setid" /\ accepting = Inexistent
  /\ toClient' \in AfterArrival(toClient, m)
  /\ owesAck' = TRUE
  /\ accepting' = IdToTake(m)
  /\ UNCHANGED <<clientId, commands, outgoingVars, serverVars, toServer>>

\* Seeded fault: the packets that are sent already are forgotten.
SetWithoutFixing ==
  /\ accepting # Inexistent
  /\ clientId' = accepting /\ accepting' = Inexistent
  /\ UNCHANGED <<owesAck, commands, outgoingVars, serverVars, toServer, toClient>>

\* Connection::SetPeerID
SetOwnPeerId ==
  /\ accepting # Inexistent
  /\ clientId' = accepting /\ accepting' = Inexistent
  /\ commands' = Append(commands, "fix")
  /\ UNCHANGED <<owesAck, outgoingVars, serverVars, toServer, toClient>>

\* popSeqnum of a packet that was acknowledged before changes nothing.
ClientReceiveAck(m) ==
  /\ m \in toClient /\ m.kind = "ack" /\ accepting = Inexistent
  /\ m.id \in Seqs
  /\ toClient' \in AfterArrival(toClient, m)
  /\ packets' = [packets EXCEPT ![m.id] = IF @ = "sent" THEN "acked" ELSE @]
  /\ UNCHANGED <<clientId, accepting, commands, owesAck, carries, numbered, draining,
                 serverVars, toServer>>

-----------------------------------------------------------------------------
(***************************************************************************)
(* The server.  Its receive thread only queues commands for its send       *)
(* thread (CREATE_PEER, RESEND_ONE, ACK); they take effect at once here,   *)
(* for a queue, like the network, only delays them, and a peer that is     *)
(* gone when its command is processed is a datagram lost.                  *)
(***************************************************************************)

\* processPacket on a channel that has "had" and, if "tell", waits for the ACK
\* of SET_PEER_ID.  In what order packets are handed on is not told apart.
ProcessPacket(m, had, tell) ==
  /\ received' = IF m.kind = "data" THEN had \cup {m.seq} ELSE had
  /\ unacked' = (tell /\ m.kind # "ack")

\* A reliable packet is acknowledged after whatever was sent before.
WithAck(net, m) == IF m.kind = "data" THEN net \cup {AckFromServer(m.seq)} ELSE net

Arrives(m) == m \in toServer /\ toServer' \in AfterArrival(toServer, m)

CreateHalfOpen(m) ==
  /\ given' = given + 1 /\ peer' = "half" /\ age' = 0 /\ resends' = 0
  /\ ProcessPacket(m, {}, TRUE)

\* lookupPeer finds nobody at this address: createPeer.
FromNewcomer(m) ==
  /\ Arrives(m) /\ m.id = Inexistent /\ peer = "none" /\ given < MaxMade
  /\ CreateHalfOpen(m)
  /\ toClient' = WithAck(toClient \cup {SetPeerId(given + 1)}, m)
  /\ UNCHANGED clientVars

\* CONNCMD_RESEND_ONE: getResend counts first, then the limit is looked at.
\* (How far beyond the limit it counts makes no difference.)
Reminded == IF unacked /\ resends <= ResendLimit THEN resends + 1 ELSE resends
Reminder(net) ==
  IF unacked /\ resends < ResendLimit THEN net \cup {SetPeerId(given)} ELSE net

\* Seeded fault: a packet without an id opens the peer, too.
FromHalfOpenOpening(m) ==
  /\ Arrives(m) /\ m.id = Inexistent /\ peer = "half"
  /\ ProcessPacket(m, received, unacked)
  /\ toClient' = WithAck(Reminder(toClient), m)
  /\ resends' = Reminded /\ peer' = "open"
  /\ UNCHANGED <<clientVars, given, age>>

\* Seeded fault: any packet resets the timeout.
FromHalfOpenResetting(m) ==
  /\ Arrives(m) /\ m.id = Inexistent /\ peer = "half"
  /\ ProcessPacket(m, received, unacked)
  /\ toClient' = WithAck(Reminder(toClient), m)
  /\ resends' = Reminded /\ age' = 0
  /\ UNCHANGED <<clientVars, given, peer>>

FromHalfOpen(m) ==
  /\ Arrives(m) /\ m.id = Inexistent /\ peer = "half"
  /\ ProcessPacket(m, received, unacked)
  /\ toClient' = WithAck(Reminder(toClient), m)
  /\ resends' = Reminded
  /\ UNCHANGED <<clientVars, given, peer, age>>

\* Seeded fault: it is acknowledged before it is refused.
FromOpenAcknowledged(m) ==
  /\ Arrives(m) /\ m.id = Inexistent /\ peer = "open"
  /\ toClient' = WithAck(Reminder(toClient), m) /\ resends' = Reminded
  /\ UNCHANGED <<clientVars, given, peer, age, received, unacked>>

\* "sending without peer id?!"
FromOpenWithoutId(m) ==
  /\ Arrives(m) /\ m.id = Inexistent /\ peer = "open"
  /\ toClient' = Reminder(toClient) /\ resends' = Reminded
  /\ UNCHANGED <<clientVars, given, peer, age, received, unacked>>

\* A packet with the peer's id opens it.
FromKnown(m) ==
  /\ Arrives(m) /\ m.id # Inexistent /\ peer # "none" /\ m.id = given
  /\ peer' = "open" /\ age' = 0
  /\ ProcessPacket(m, received, unacked)
  /\ toClient' = WithAck(toClient, m)
  /\ UNCHANGED <<clientVars, given, resends>>

\* An id that nobody has, or a newcomer beyond MAX_NEW_PEERS_PER_SEC.
FromUnknown(m) ==
  /\ Arrives(m)
  /\ IF m.id = Inexistent THEN peer = "none" ELSE peer = "none" \/ m.id # given
  /\ UNCHANGED <<clientVars, serverVars, toClient>>

ServerReceives(m) ==
  FromNewcomer(m) \/ FromHalfOpen(m) \/ FromOpenWithoutId(m) \/ FromKnown(m) \/ FromUnknown(m)

-----------------------------------------------------------------------------
(***************************************************************************)
(* The server's send thread: runTimeouts.                                  *)
(***************************************************************************)

\* SET_PEER_ID is due again: an open peer gets it, a half-open one does not,
\* but it is counted for both.
ServerResends ==
  /\ peer # "none" /\ unacked
  /\ resends' = IF resends <= ResendLimit THEN resends + 1 ELSE resends
  /\ toClient' = IF peer = "open" THEN toClient \cup {SetPeerId(given)} ELSE toClient
  /\ UNCHANGED <<clientVars, given, peer, age, received, unacked, toServer>>

DeletePeer ==
  /\ peer' = "none" /\ received' = {} /\ unacked' = FALSE /\ resends' = 0 /\ age' = 0
  /\ UNCHANGED <<clientVars, given, toServer, toClient>>

\* runTimeouts comes by a half-open peer: it still has time, or is deleted.
HalfOpenTimesOut ==
  /\ peer = "half"
  /\ IF age = HalfOpenTime THEN DeletePeer
     ELSE /\ age' = age + 1
          /\ UNCHANGED <<clientVars, given, peer, channelVars, toServer, toClient>>

\* Nothing came for m_timeout, SET_PEER_ID was not acknowledged for as long,
\* or the program had the peer disconnected.
OpenEnds == peer = "open" /\ DeletePeer

-----------------------------------------------------------------------------
ShakeNext ==
  \/ Lose
  \/ ProgramSends \/ StartDraining \/ ProcessCommand \/ EndDraining
  \/ MakePing \/ SendInit \/ SendAck \/ SetOwnPeerId
  \/ \E s \in Seqs : SendReliable(s) \/ Resend(s)
  \/ \E m \in toClient : ReceiveSetPeerId(m) \/ ClientReceiveAck(m)
  \/ \E m \in toServer : ServerReceives(m)
  \/ ServerResends \/ HalfOpenTimesOut \/ OpenEnds

ShakeSpec == ShakeInit /\ [][ShakeNext]_shakeVars

(***************************************************************************)
(* Fairness.  Both send threads loop for ever and wake at least every      *)
(* 50 ms; time passes and runTimeouts looks at it.  The network does not   *)
(* lose every copy of a packet that is sent again and again.               *)
(***************************************************************************)
OldestSent(s) == packets[s] = "sent" /\ \A r \in 0 .. s - 1 : packets[r] # "sent"

ResendOldest == \E s \in Seqs :
  OldestSent(s) /\ Resend(s) /\ Data(s, carries[s]) \in toServer'
OldestArrives == \E m \in toServer :
  m.kind = "data" /\ OldestSent(m.seq) /\ ServerReceives(m)
  /\ (peer' = "open" => AckFromServer(m.seq) \in toClient')
OldestAcked == \E m \in toClient : m.kind = "ack" /\ OldestSent(m.id) /\ ClientReceiveAck(m)
ServerReads == \E m \in toServer : ServerReceives(m) /\ toServer' = toServer \ {m}
ClientReads == \E m \in toClient :
  (ReceiveSetPeerId(m) \/ ClientReceiveAck(m)) /\ toClient' = toClient \ {m}

ShakeFairness ==
  /\ WF_shakeVars(HalfOpenTimesOut)
  /\ WF_shakeVars(SetOwnPeerId) /\ WF_shakeVars(StartDraining)
  /\ WF_shakeVars(ProcessCommand) /\ WF_shakeVars(EndDraining)
  /\ WF_shakeVars(\E s \in Seqs : SendReliable(s))
  /\ SF_shakeVars(ResendOldest) /\ SF_shakeVars(OldestArrives) /\ SF_shakeVars(OldestAcked)
  /\ SF_shakeVars(ServerReads) /\ SF_shakeVars(ClientReads)

FairShake == ShakeSpec /\ ShakeFairness

-----------------------------------------------------------------------------
(***************************************************************************)
(* Properties                                                              *)
(***************************************************************************)
Places == {"unmade", "queued", "made", "sent", "acked"}

ShakeTypeOK ==
  /\ clientId \in Nat /\ accepting \in Nat
  /\ packets \in [Seqs -> Places] /\ carries \in [Seqs -> Nat]
  /\ numbered \in 0 .. MaxNumbered /\ commands \in Seq({"send", "fix"})
  /\ draining \in BOOLEAN /\ owesAck \in BOOLEAN
  /\ given \in 0 .. MaxMade /\ peer \in {"none", "half", "open"}
  /\ received \subseteq Nat /\ unacked \in BOOLEAN
  /\ resends \in 0 .. ResendLimit + 1 /\ age \in 0 .. HalfOpenTime
  /\ toServer \subseteq ToServerPackets /\ toClient \subseteq ToClientPackets

(***************************************************************************)
(* A peer is open only if the client has taken its id: none that timed out *)
(* before, and not because of what was sent under another id.  An open     *)
(* peer ignores packets without an id, so a client that did not know it    *)
(* would never be heard again.  (ConnectionReceiveThread::receive.)        *)
(***************************************************************************)
OpenMeansAgreed == peer = "open" => clientId = given

(***************************************************************************)
(* Every packet that can still be sent again carries the client's id, or   *)
(* will before the send thread sends it again: Connection::SetPeerID is to *)
(* "fix peer id in existing queued reliable packets".                      *)
(***************************************************************************)
Waiting(c) == \E k \in 1 .. Len(commands) : commands[k] = c
Pending(s) == packets[s] \in {"queued", "made", "sent"}

NoneWithoutId ==
  clientId # Inexistent /\ ~Waiting("fix") =>
    \A s \in Seqs : Pending(s) => carries[s] = clientId

(***************************************************************************)
(* internal.h: "Delivery of all RELIABLE packets shall be forced by ACKs". *)
(* The client has nothing left to send again that an open peer of it does  *)
(* not have.                                                               *)
(***************************************************************************)
Lost == {s \in Seqs : packets[s] = "acked" /\ s \notin received}

NothingLost == peer = "open" => Lost = {}

(***************************************************************************)
(* That holds, open or not, while the server has made only one peer for    *)
(* the client.                                                             *)
(***************************************************************************)
FirstPeerLosesNothing == given <= 1 /\ peer # "none" => Lost = {}

(***************************************************************************)
(* What makes these inductive: the client has one id at most in its life,  *)
(* one that was given, and nothing it sent carries another; no packet is   *)
(* between its making and its filing while commands are worked off; and    *)
(* what was acknowledged to the client arrived.                            *)
(***************************************************************************)
IdsAreGiven ==
  /\ clientId <= given /\ accepting <= given
  /\ accepting # Inexistent => clientId = Inexistent
  /\ peer # "none" => given > 0
  /\ \A m \in toClient : m.kind = "setid" => m.id \in 1 .. given

OneIdInUse ==
  /\ \A m \in toServer : m.id \in {Inexistent, clientId}
  /\ \A s \in Seqs : carries[s] \in {Inexistent, clientId}

NothingHalfMade ==
  /\ draining => \A s \in Seqs : packets[s] # "made"
  /\ ~SendsEarly =>
       /\ Waiting("send") => Connected
       /\ draining => \A s \in Seqs : packets[s] = "queued" => carries[s] # Inexistent
       /\ Connected /\ ~Waiting("fix") =>
            \A s \in Seqs : Pending(s) => carries[s] # Inexistent

AcksAreTrue ==
  /\ given = 0 => toClient = {} /\ \A s \in Seqs : packets[s] # "acked"
  /\ given <= 1 /\ peer # "none" =>
       /\ \A s \in Seqs : packets[s] = "acked" => s \in received
       /\ \A m \in toClient : m.kind = "ack" => m.id \in received

HandshakeInv ==
  /\ ShakeTypeOK /\ OpenMeansAgreed /\ IdsAreGiven /\ OneIdInUse /\ NothingHalfMade /\ AcksAreTrue

(***************************************************************************)
(* A peer does not stay half-open, whatever keeps arriving without an id:  *)
(* "this time is also fixed since the timeout is not reset in half-open    *)
(* state" (runTimeouts).                                                   *)
(***************************************************************************)
HalfOpenEnds == (peer = "half") ~> (peer # "half")

(***************************************************************************)
(* When the peer is open for good, everything the client has sent, with an *)
(* id or without one, is acknowledged in the end.                          *)
(***************************************************************************)
OpenAcknowledges ==
  <>[](peer = "open") =>
    \A s \in Seqs : (packets[s] = "sent") ~> (packets[s] = "acked")

=============================================================================
