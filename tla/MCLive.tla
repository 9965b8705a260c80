------------------------------- MODULE MCLive --------------------------------
(***************************************************************************)
(* What must happen in a channel, in a handshake and to peers that are     *)
(* taken down: small instances side by side, like those of MCPeerParts,    *)
(* each under its own fairness.  ReliableChannel, about which theorems are *)
(* proved, is the module extended.                                         *)
(***************************************************************************)
EXTENDS MCReliableChannel

CONSTANTS
  a, b, None,   \* model values: peer ids, nothing
  ResendLimit, HalfOpenTime, SendsEarly, MaxMade, MaxNumbered,   \* of Handshake
  Ids, ReuseIds, MaxPeers                                        \* of PeerLifecycle

MCIds == {a, b}

VARIABLES
  running,   \* the part that runs
  \* Handshake
  clientId, accepting, packets, carries, given_numbers, commands, draining, owesAck,
  given, peer, received, unacked, resends, age, toServer, toClient,
  \* PeerLifecycle
  peers, peer_id, memory, usage, pendingDeletion, pendingDisconnect, uses, step,
  deleting, condemned, sweeping, requests, events, clients

Shake == INSTANCE Handshake WITH numbered <- given_numbers
Life == INSTANCE PeerLifecycle WITH id <- peer_id

handshakeVars == <<clientId, accepting, packets, carries, given_numbers, commands, draining,
  owesAck, given, peer, received, unacked, resends, age, toServer, toClient>>
lifeVars == <<peers, peer_id, memory, usage, pendingDeletion, pendingDisconnect, uses,
  step, deleting, condemned, sweeping, requests, events, clients>>

InitParts ==
  running \in {"channel", "handshake", "peers"} /\ Init /\ Shake!ShakeInit /\ Life!Init

ChannelRuns == running = "channel" /\ Next
HandshakeRuns == running = "handshake" /\ Shake!ShakeNext
PeersRun == running = "peers" /\ Life!Next

NextParts ==
  /\ UNCHANGED running
  /\ \/ ChannelRuns /\ UNCHANGED <<handshakeVars, lifeVars>>
     \/ HandshakeRuns /\ UNCHANGED <<vars, lifeVars>>
     \/ PeersRun /\ UNCHANGED <<vars, handshakeVars>>

PartsSpec == InitParts /\ [][NextParts]_<<running, vars, handshakeVars, lifeVars>>

ChannelIsFair == running = "channel" /\ Fairness
HandshakeIsFair == running = "handshake" /\ Shake!ShakeFairness
PeersAreFair == running = "peers" /\ Life!Fairness

-----------------------------------------------------------------------------
\* What is handed in comes out.
Arrives == ChannelIsFair => EverythingArrives

\* Every packet that was sent is acknowledged.
Acknowledged == ChannelIsFair => EverythingAcknowledged

\* A peer does not stay half-open.
HalfOpenEnds == HandshakeIsFair => Shake!HalfOpenEnds

\* When the peer stays open what the client has sent is acknowledged.
OpenAcknowledges == HandshakeIsFair => Shake!OpenAcknowledges

\* A peer that was taken out of the map is freed.
TakenOutIsFreed == PeersAreFair => Life!TakenOutIsFreed

\* A client that the program asks to be disconnected stops being one.
DisconnectHappens == PeersAreFair => Life!DisconnectHappens

=============================================================================
