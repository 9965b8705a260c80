-------------------------- MODULE Handshake_proofs --------------------------
(***************************************************************************)
(* The handshake gives a client one id, opens no peer that the client does *)
(* not know of, and loses nothing to the first peer, for every number of   *)
(* peers and packets.                                                      *)
(***************************************************************************)
EXTENDS Handshake, TLAPS

USE HandshakeAssumption DEF Seqs, Inexistent

-----------------------------------------------------------------------------
(***************************************************************************)
(* Helpers.                                                                *)
(***************************************************************************)

\* What a transmission and an arrival may leave in flight.
LEMMA TransmitBounds ==
  ASSUME NEW net, NEW m
  PROVE  Transmit(net, m) \subseteq net \cup {m}
BY DEF Transmit

LEMMA ArrivalShrinks ==
  ASSUME NEW net, NEW m, NEW after \in AfterArrival(net, m)
  PROVE  after \subseteq net
BY DEF AfterArrival

\* The packets of the model, by their fields.
LEMMA PacketFields ==
  /\ \A s \in Nat, i \in Nat : Data(s, i) \in ToServerPackets /\ Data(s, i).id = i
  /\ \A i \in Nat : InitPacket(i) \in ToServerPackets /\ InitPacket(i).id = i
  /\ \A i \in Nat : AckFromClient(i) \in ToServerPackets /\ AckFromClient(i).id = i
  /\ \A i \in Nat : SetPeerId(i) \in ToClientPackets /\ SetPeerId(i).id = i
                    /\ SetPeerId(i).kind = "setid"
  /\ \A s \in Nat : AckFromServer(s) \in ToClientPackets /\ AckFromServer(s).id = s
                    /\ AckFromServer(s).kind = "ack"
BY DEF Data, InitPacket, AckFromClient, SetPeerId, AckFromServer, ToServerPackets, ToClientPackets

\* What a datagram for the server does to what is in flight to the client.
LEMMA AnswersBounds ==
  ASSUME NEW net, NEW m
  PROVE  /\ net \subseteq WithAck(net, m)
         /\ WithAck(net, m) \subseteq net \cup {AckFromServer(m.seq)}
         /\ m.kind # "data" => WithAck(net, m) = net
         /\ net \subseteq Reminder(net)
         /\ Reminder(net) \subseteq net \cup {SetPeerId(given)}
BY DEF WithAck, Reminder

\* The commands that wait after one more was put.
LEMMA AppendWaits ==
  ASSUME ShakeTypeOK, NEW c \in {"send", "fix"}, commands' = Append(commands, c)
  PROVE  /\ commands' \in Seq({"send", "fix"})
         /\ \A d : Waiting(d)' <=> (Waiting(d) \/ d = c)
<1>1. commands \in Seq({"send", "fix"})
  BY DEF ShakeTypeOK
<1>2. /\ commands' \in Seq({"send", "fix"}) /\ Len(commands') = Len(commands) + 1
      /\ \A k \in 1 .. Len(commands') :
           commands'[k] = IF k <= Len(commands) THEN commands[k] ELSE c
  BY <1>1
<1>3. Len(commands) \in Nat
  BY <1>1
<1> QED
  BY <1>2, <1>3 DEF Waiting

\* ... and after the first was taken.
LEMMA TailWaits ==
  ASSUME ShakeTypeOK, commands # <<>>, commands' = Tail(commands)
  PROVE  /\ commands' \in Seq({"send", "fix"})
         /\ Waiting(Head(commands))
         /\ \A d : Waiting(d)' => Waiting(d)
         /\ \A d : Waiting(d) /\ d # Head(commands) => Waiting(d)'
<1>1. commands \in Seq({"send", "fix"}) /\ Len(commands) \in Nat \ {0}
  BY DEF ShakeTypeOK
<1>2. /\ commands' \in Seq({"send", "fix"}) /\ Len(commands') = Len(commands) - 1
      /\ Head(commands) = commands[1]
      /\ \A k \in 1 .. Len(commands') : commands'[k] = commands[k + 1]
  BY <1>1
<1>3. Waiting(Head(commands))
  BY <1>1, <1>2 DEF Waiting
<1>4. ASSUME NEW d, Waiting(d)' PROVE Waiting(d)
  <2>1. PICK k \in 1 .. Len(commands') : commands'[k] = d
    BY <1>4 DEF Waiting
  <2>2. commands[k + 1] = d /\ k + 1 \in 1 .. Len(commands)
    BY <2>1, <1>1, <1>2
  <2> QED
    BY <2>2 DEF Waiting
<1>5. ASSUME NEW d, Waiting(d), d # Head(commands) PROVE Waiting(d)'
  <2>1. PICK k \in 1 .. Len(commands) : commands[k] = d
    BY <1>5 DEF Waiting
  <2>2. k - 1 \in 1 .. Len(commands') /\ commands'[k - 1] = commands[k]
    BY <2>1, <1>1, <1>2, <1>5
  <2> QED
    BY <2>1, <2>2 DEF Waiting
<1> QED
  BY <1>2, <1>3, <1>4, <1>5

-----------------------------------------------------------------------------
(***************************************************************************)
(* The initial state.                                                      *)
(***************************************************************************)
LEMMA InitInv == ShakeInit => HandshakeInv
<1>1. SUFFICES ASSUME ShakeInit PROVE HandshakeInv
  OBVIOUS
<1>2. commands = <<>> /\ Len(commands) = 0 /\ commands \in Seq({"send", "fix"})
  BY <1>1 DEF ShakeInit
<1>3. ShakeTypeOK
  BY <1>1, <1>2 DEF ShakeInit, ShakeTypeOK, Places
<1>4. OpenMeansAgreed /\ IdsAreGiven /\ OneIdInUse /\ NothingHalfMade /\ AcksAreTrue
  BY <1>1, <1>2 DEF ShakeInit, OpenMeansAgreed, IdsAreGiven, OneIdInUse, NothingHalfMade, AcksAreTrue,
    Connected, Waiting, Pending
<1> QED
  BY <1>3, <1>4 DEF HandshakeInv

-----------------------------------------------------------------------------
(***************************************************************************)
(* Every step keeps the invariant: first the client's steps, one by one.   *)
(***************************************************************************)
LEMMA LoseInv ==
  ASSUME HandshakeInv, Lose
  PROVE  HandshakeInv'
<1>1. /\ toServer' \subseteq toServer /\ toClient' \subseteq toClient
      /\ UNCHANGED <<clientVars, serverVars>>
  BY DEF Lose
<1> QED
  BY <1>1 DEF HandshakeInv, ShakeTypeOK, OpenMeansAgreed, IdsAreGiven, OneIdInUse, NothingHalfMade,
    AcksAreTrue, Connected, Waiting, Pending, clientVars, outgoingVars, serverVars, channelVars

LEMMA ProgramSendsInv ==
  ASSUME HandshakeInv, ProgramSends
  PROVE  HandshakeInv'
<1>1. /\ commands' = Append(commands, "send") /\ (SendsEarly \/ Connected)
      /\ UNCHANGED <<clientId, accepting, owesAck, outgoingVars, serverVars, toServer, toClient>>
  BY DEF ProgramSends
<1>2. /\ commands' \in Seq({"send", "fix"})
      /\ \A d : Waiting(d)' <=> (Waiting(d) \/ d = "send")
  BY <1>1, AppendWaits DEF HandshakeInv
<1>3. ShakeTypeOK' /\ OpenMeansAgreed' /\ IdsAreGiven' /\ OneIdInUse' /\ AcksAreTrue'
  BY <1>1, <1>2 DEF HandshakeInv, ShakeTypeOK, OpenMeansAgreed, IdsAreGiven, OneIdInUse,
    AcksAreTrue, outgoingVars, serverVars, channelVars
<1>4. NothingHalfMade'
  BY <1>1, <1>2 DEF HandshakeInv, NothingHalfMade, Connected, Pending, outgoingVars
<1> QED
  BY <1>3, <1>4 DEF HandshakeInv

LEMMA DrainingInv ==
  ASSUME HandshakeInv, StartDraining \/ EndDraining
  PROVE  HandshakeInv'
<1>1. /\ UNCHANGED <<clientId, accepting, commands, owesAck, packets, carries, numbered,
                 serverVars, toServer, toClient>>
      /\ draining' \in BOOLEAN
      /\ draining' => \A s \in Seqs : packets[s] \notin {"queued", "made"}
  BY DEF StartDraining, EndDraining
<1> QED
  BY <1>1 DEF HandshakeInv, ShakeTypeOK, OpenMeansAgreed, IdsAreGiven, OneIdInUse, NothingHalfMade,
    AcksAreTrue, Connected, Waiting, Pending, serverVars, channelVars

LEMMA ProcessCommandInv ==
  ASSUME HandshakeInv, ProcessCommand
  PROVE  HandshakeInv'
<1>1. /\ draining /\ commands # <<>> /\ commands' = Tail(commands)
      /\ SendCommand \/ FixPeerId
      /\ UNCHANGED <<clientId, accepting, owesAck, draining, serverVars, toServer, toClient>>
  BY DEF ProcessCommand
<1>2. /\ commands' \in Seq({"send", "fix"})
      /\ Waiting(Head(commands))
      /\ \A d : Waiting(d)' => Waiting(d)
      /\ \A d : Waiting(d) /\ d # Head(commands) => Waiting(d)'
  BY <1>1, TailWaits DEF HandshakeInv
<1>3. CASE SendCommand
  <2>1. /\ Head(commands) = "send" /\ numbered \in Seqs
        /\ numbered' = numbered + 1
        /\ packets' = [packets EXCEPT ![numbered] = "queued"]
        /\ carries' = [carries EXCEPT ![numbered] = clientId]
    BY <1>3 DEF SendCommand, MakePacket, HandshakeInv, ShakeTypeOK
  <2>2. ShakeTypeOK' /\ OpenMeansAgreed' /\ IdsAreGiven' /\ OneIdInUse' /\ AcksAreTrue'
    BY <1>1, <1>2, <2>1 DEF HandshakeInv, ShakeTypeOK, OpenMeansAgreed, IdsAreGiven, OneIdInUse,
      AcksAreTrue, Places, serverVars, channelVars
  <2>3. NothingHalfMade'
    BY <1>1, <1>2, <2>1 DEF HandshakeInv, ShakeTypeOK, NothingHalfMade, Connected, Pending
  <2> QED
    BY <2>2, <2>3 DEF HandshakeInv
<1>4. CASE FixPeerId
  <2>1. /\ Head(commands) = "fix" /\ UNCHANGED <<packets, numbered>>
        /\ carries' = [s \in Seqs |-> IF packets[s] = "sent" THEN clientId ELSE carries[s]]
    BY <1>4 DEF FixPeerId
  <2>2. ShakeTypeOK' /\ OpenMeansAgreed' /\ IdsAreGiven' /\ OneIdInUse' /\ AcksAreTrue'
    BY <1>1, <1>2, <2>1 DEF HandshakeInv, ShakeTypeOK, OpenMeansAgreed, IdsAreGiven, OneIdInUse,
      AcksAreTrue, serverVars, channelVars
  <2>3. NothingHalfMade'
    BY <1>1, <1>2, <2>1 DEF HandshakeInv, ShakeTypeOK, NothingHalfMade, Connected, Pending
  <2> QED
    BY <2>2, <2>3 DEF HandshakeInv
<1> QED
  BY <1>1, <1>3, <1>4

LEMMA MakePingInv ==
  ASSUME HandshakeInv, MakePing
  PROVE  HandshakeInv'
<1>1. /\ ~draining /\ numbered \in Seqs /\ numbered' = numbered + 1
      /\ packets' = [packets EXCEPT ![numbered] = "made"]
      /\ carries' = [carries EXCEPT ![numbered] = clientId]
      /\ UNCHANGED <<clientId, accepting, commands, owesAck, draining, serverVars, toServer,
                     toClient>>
  BY DEF MakePing, MakePacket, HandshakeInv, ShakeTypeOK
<1>2. ShakeTypeOK' /\ OpenMeansAgreed' /\ IdsAreGiven' /\ OneIdInUse' /\ AcksAreTrue'
  BY <1>1 DEF HandshakeInv, ShakeTypeOK, OpenMeansAgreed, IdsAreGiven, OneIdInUse, AcksAreTrue,
    Places, serverVars, channelVars
<1>3. NothingHalfMade'
  BY <1>1 DEF HandshakeInv, ShakeTypeOK, NothingHalfMade, Connected, Waiting, Pending
<1> QED
  BY <1>2, <1>3 DEF HandshakeInv

\* What the client puts on the wire has its id or none.
LEMMA ClientSendsInv ==
  ASSUME HandshakeInv, SendInit \/ SendAck \/ \E s \in Seqs : SendReliable(s) \/ Resend(s)
  PROVE  HandshakeInv'
<1>0. clientId \in Nat /\ \A s \in Seqs : s \in Nat /\ carries[s] \in Nat /\ carries[s] \in {Inexistent, clientId}
  BY DEF HandshakeInv, ShakeTypeOK, OneIdInUse
<1> DEFINE Sent ==
      /\ \E m \in ToServerPackets : /\ m.id \in {Inexistent, clientId}
                                   /\ toServer' = Transmit(toServer, m)
      /\ UNCHANGED <<clientId, accepting, commands, carries, numbered, draining, serverVars,
                     toClient>>
      /\ owesAck' \in BOOLEAN
      /\ \/ packets' = packets
         \/ \E s \in Seqs : /\ packets' = [packets EXCEPT ![s] = "sent"]
                           /\ packets[s] \in {"queued", "made"}
<1>1. Sent
  <2>1. CASE SendInit
    BY <1>0, <2>1, PacketFields DEF SendInit, clientVars, outgoingVars, HandshakeInv, ShakeTypeOK
  <2>2. CASE SendAck
    BY <1>0, <2>2, PacketFields DEF SendAck, outgoingVars, HandshakeInv, ShakeTypeOK
  <2>3. ASSUME NEW s \in Seqs, SendReliable(s) \/ Resend(s) PROVE Sent
    <3>1. Data(s, carries[s]) \in ToServerPackets /\ Data(s, carries[s]).id = carries[s]
      BY <1>0, PacketFields
    <3>2. toServer' = Transmit(toServer, Data(s, carries[s]))
      BY <2>3 DEF SendReliable, Resend
    <3>3. owesAck \in BOOLEAN
      BY DEF HandshakeInv, ShakeTypeOK
    <3>4. UNCHANGED <<clientId, accepting, commands, owesAck, carries, numbered, draining,
                      serverVars, toClient>>
      BY <2>3 DEF SendReliable, Resend, clientVars, outgoingVars
    <3>5. \/ packets' = packets
          \/ packets' = [packets EXCEPT ![s] = "sent"] /\ packets[s] \in {"queued", "made"}
      BY <2>3 DEF SendReliable, Resend, clientVars, outgoingVars
    <3>6. \E m \in ToServerPackets : m.id \in {Inexistent, clientId} /\ toServer' = Transmit(toServer, m)
      BY <1>0, <3>1, <3>2
    <3> QED
      BY <3>3, <3>4, <3>5, <3>6
  <2> QED
    BY <2>1, <2>2, <2>3
<1>2. PICK m \in ToServerPackets : m.id \in {Inexistent, clientId} /\ toServer' \subseteq toServer \cup {m}
  BY <1>1, TransmitBounds DEF Sent
<1>3. ShakeTypeOK' /\ OneIdInUse'
  BY <1>1, <1>2 DEF HandshakeInv, ShakeTypeOK, OneIdInUse, Places, serverVars, channelVars
<1>5. OpenMeansAgreed' /\ IdsAreGiven'
  BY <1>1 DEF HandshakeInv, OpenMeansAgreed, IdsAreGiven, serverVars, channelVars
<1>6. AcksAreTrue'
  <2>1. \A s \in Seqs : packets'[s] = "acked" => packets[s] = "acked"
    BY <1>1 DEF HandshakeInv, ShakeTypeOK
  <2> QED
    BY <1>1, <2>1 DEF HandshakeInv, AcksAreTrue, serverVars, channelVars
<1>4. NothingHalfMade'
  BY <1>1 DEF HandshakeInv, ShakeTypeOK, NothingHalfMade, Connected, Waiting, Pending
<1> QED
  BY <1>3, <1>4, <1>5, <1>6 DEF HandshakeInv

LEMMA SetOwnPeerIdInv ==
  ASSUME HandshakeInv, SetOwnPeerId
  PROVE  HandshakeInv'
<1>1. /\ accepting # Inexistent /\ clientId = Inexistent
      /\ clientId' = accepting /\ accepting' = Inexistent
      /\ commands' = Append(commands, "fix")
      /\ UNCHANGED <<owesAck, outgoingVars, serverVars, toServer, toClient>>
  BY DEF SetOwnPeerId, HandshakeInv, IdsAreGiven
<1>2. /\ commands' \in Seq({"send", "fix"})
      /\ \A d : Waiting(d)' <=> (Waiting(d) \/ d = "fix")
  BY <1>1, AppendWaits DEF HandshakeInv
<1>3. peer # "open"
  BY <1>1 DEF HandshakeInv, OpenMeansAgreed, IdsAreGiven, ShakeTypeOK
<1>4. ShakeTypeOK' /\ OpenMeansAgreed' /\ IdsAreGiven' /\ OneIdInUse' /\ AcksAreTrue'
  BY <1>1, <1>2, <1>3 DEF HandshakeInv, ShakeTypeOK, OpenMeansAgreed, IdsAreGiven, OneIdInUse,
    AcksAreTrue, outgoingVars, serverVars, channelVars
<1>5. NothingHalfMade'
  BY <1>1, <1>2 DEF HandshakeInv, NothingHalfMade, Connected, Pending, outgoingVars
<1> QED
  BY <1>4, <1>5 DEF HandshakeInv

LEMMA ReceiveSetPeerIdInv ==
  ASSUME HandshakeInv, NEW m \in toClient, ReceiveSetPeerId(m)
  PROVE  HandshakeInv'
<1>1. /\ m.kind = "setid" /\ toClient' \subseteq toClient /\ owesAck' = TRUE
      /\ accepting' = IF HeardBefore THEN Inexistent ELSE m.id
      /\ UNCHANGED <<clientId, commands, outgoingVars, serverVars, toServer>>
  BY ArrivalShrinks DEF ReceiveSetPeerId, IdToTake
<1>2. m.id \in 1 .. given /\ m.id \in Nat
  BY <1>1 DEF HandshakeInv, IdsAreGiven, ShakeTypeOK
<1> QED
  BY <1>1, <1>2 DEF HandshakeInv, ShakeTypeOK, OpenMeansAgreed, IdsAreGiven, OneIdInUse, NothingHalfMade,
    AcksAreTrue, Connected, Waiting, Pending, HeardBefore, outgoingVars, serverVars, channelVars

LEMMA ClientReceiveAckInv ==
  ASSUME HandshakeInv, NEW m \in toClient, ClientReceiveAck(m)
  PROVE  HandshakeInv'
<1>1. /\ m.kind = "ack" /\ m.id \in Seqs /\ toClient' \subseteq toClient
      /\ packets' = [packets EXCEPT ![m.id] = IF @ = "sent" THEN "acked" ELSE @]
      /\ UNCHANGED <<clientId, accepting, commands, owesAck, carries, numbered, draining,
                     serverVars, toServer>>
  BY ArrivalShrinks DEF ClientReceiveAck
<1>2. ShakeTypeOK' /\ OpenMeansAgreed' /\ IdsAreGiven' /\ OneIdInUse'
  BY <1>1 DEF HandshakeInv, ShakeTypeOK, OpenMeansAgreed, IdsAreGiven, OneIdInUse, Places,
    serverVars, channelVars
<1>3. NothingHalfMade'
  BY <1>1 DEF HandshakeInv, ShakeTypeOK, NothingHalfMade, Connected, Waiting, Pending
<1>4. AcksAreTrue'
  <2>1. \A s \in Seqs : packets'[s] = "acked" => packets[s] = "acked" \/ s = m.id
    BY <1>1 DEF HandshakeInv, ShakeTypeOK
  <2>2. given > 0
    BY <1>1 DEF HandshakeInv, AcksAreTrue, ShakeTypeOK
  <2> QED
    BY <1>1, <2>1, <2>2 DEF HandshakeInv, AcksAreTrue, serverVars, channelVars
<1> QED
  BY <1>2, <1>3, <1>4 DEF HandshakeInv

-----------------------------------------------------------------------------
(***************************************************************************)
(* The server's steps.  None of them touches the client, and all of them   *)
(* keep the invariant if the ids and the ACKs they hand out are right.     *)
(***************************************************************************)
LEMMA ServerStepInv ==
  ASSUME HandshakeInv, ShakeTypeOK', UNCHANGED clientVars, toServer' \subseteq toServer,
         given' >= given, peer' # "none" => given' > 0,
         peer' = "open" => given' = clientId,
         \A m \in toClient' \ toClient : m.kind = "setid" => m.id = given',
         AcksAreTrue'
  PROVE  HandshakeInv'
<1>1. OpenMeansAgreed' /\ OneIdInUse'
  BY DEF HandshakeInv, OpenMeansAgreed, OneIdInUse, clientVars, outgoingVars
<1>2. IdsAreGiven'
  <2>1. \A m \in toClient' : m.kind = "setid" => m.id \in 1 .. given'
    <3> SUFFICES ASSUME NEW m \in toClient', m.kind = "setid" PROVE m.id \in 1 .. given'
      OBVIOUS
    <3>1. CASE m \in toClient
      <4>1. m.id \in 1 .. given
        BY <3>1 DEF HandshakeInv, IdsAreGiven
      <4>2. given \in Nat /\ given' \in Nat
        BY DEF HandshakeInv, ShakeTypeOK
      <4> QED
        BY <4>1, <4>2
    <3>2. CASE m \notin toClient
      <4>1. m.id = given' /\ given' \in Nat
        BY <3>2 DEF ShakeTypeOK
      <4>2. given' > 0
        BY DEF HandshakeInv, AcksAreTrue, ShakeTypeOK
      <4> QED
        BY <4>1, <4>2
    <3> QED
      BY <3>1, <3>2
  <2> QED
    BY <2>1 DEF HandshakeInv, IdsAreGiven, ShakeTypeOK, clientVars, outgoingVars
<1>3. NothingHalfMade'
  BY DEF HandshakeInv, NothingHalfMade, Connected, Waiting, Pending, clientVars, outgoingVars
<1> QED
  BY <1>1, <1>2, <1>3 DEF HandshakeInv

LEMMA FromNewcomerInv ==
  ASSUME HandshakeInv, NEW m \in toServer, FromNewcomer(m)
  PROVE  HandshakeInv'
<1>1. /\ toServer' \subseteq toServer /\ UNCHANGED clientVars
      /\ peer = "none" /\ given < MaxMade /\ given' = given + 1 /\ peer' = "half"
      /\ age' = 0 /\ resends' = 0
      /\ received' = (IF m.kind = "data" THEN {} \cup {m.seq} ELSE {})
      /\ unacked' = (TRUE /\ m.kind # "ack")
      /\ toClient' = WithAck(toClient \cup {SetPeerId(given + 1)}, m)
  BY ArrivalShrinks DEF FromNewcomer, Arrives, CreateHalfOpen, ProcessPacket
<1>2. m.seq \in Nat /\ given + 1 \in Nat
  BY DEF HandshakeInv, ShakeTypeOK, ToServerPackets
<1>3. /\ AckFromServer(m.seq) \in ToClientPackets /\ AckFromServer(m.seq).id = m.seq
      /\ AckFromServer(m.seq).kind = "ack"
      /\ SetPeerId(given + 1) \in ToClientPackets /\ SetPeerId(given + 1).id = given + 1
      /\ SetPeerId(given + 1).kind = "setid"
  BY <1>2, PacketFields
<1>4. /\ toClient' \subseteq toClient \cup {SetPeerId(given + 1), AckFromServer(m.seq)}
      /\ m.kind # "data" => toClient' \subseteq toClient \cup {SetPeerId(given + 1)}
  BY <1>1 DEF WithAck
<1>5. ShakeTypeOK'
  <2>1. toClient' \subseteq ToClientPackets
    BY <1>3, <1>4 DEF HandshakeInv, ShakeTypeOK
  <2>2. /\ given' \in 0 .. MaxMade /\ peer' \in {"none", "half", "open"}
        /\ received' \subseteq Nat /\ unacked' \in BOOLEAN
        /\ resends' \in 0 .. ResendLimit + 1 /\ age' \in 0 .. HalfOpenTime
    BY <1>1, <1>2 DEF HandshakeInv, ShakeTypeOK
  <2> QED
    BY <1>1, <2>1, <2>2 DEF HandshakeInv, ShakeTypeOK, clientVars, outgoingVars
<1>6. AcksAreTrue'
  <2>1. given' > 0
    BY <1>1 DEF HandshakeInv, ShakeTypeOK
  <2>2. CASE given = 0
    <3>1. toClient = {} /\ \A s \in Seqs : packets'[s] # "acked"
      BY <2>2, <1>1 DEF HandshakeInv, AcksAreTrue, clientVars, outgoingVars
    <3>2. \A n \in toClient' : n.kind = "ack" => n.id \in received'
      BY <3>1, <1>1, <1>3, <1>4
    <3> QED
      BY <2>1, <3>1, <3>2 DEF AcksAreTrue
  <2>3. CASE given # 0
    BY <2>3, <1>1, <2>1 DEF HandshakeInv, AcksAreTrue, ShakeTypeOK
  <2> QED
    BY <2>2, <2>3
<1>7. \A n \in toClient' \ toClient : n.kind = "setid" => n.id = given'
  BY <1>1, <1>3, <1>4
<1>8. given' >= given /\ given' > 0 /\ peer' # "open"
  BY <1>1, <1>2 DEF HandshakeInv, ShakeTypeOK
<1> QED
  BY <1>1, <1>5, <1>6, <1>7, <1>8, ServerStepInv

\* A packet that the peer takes: from a half-open one, or with its id.
LEMMA TakenInv ==
  ASSUME HandshakeInv, NEW m \in toServer, FromHalfOpen(m) \/ FromKnown(m)
  PROVE  HandshakeInv'
<1>1. /\ toServer' \subseteq toServer /\ UNCHANGED clientVars /\ given' = given
      /\ peer # "none" /\ peer' \in {"half", "open"}
      /\ peer' = "open" => m.id = given /\ m.id # Inexistent
      /\ age' \in {0, age}
      /\ received' = (IF m.kind = "data" THEN received \cup {m.seq} ELSE received)
      /\ unacked' \in BOOLEAN
      /\ resends' \in {resends, Reminded}
      /\ toClient' \in {WithAck(Reminder(toClient), m), WithAck(toClient, m)}
  <2>1. CASE FromHalfOpen(m)
    BY <2>1, ArrivalShrinks DEF FromHalfOpen, Arrives, ProcessPacket, HandshakeInv, ShakeTypeOK
  <2>2. CASE FromKnown(m)
    BY <2>2, ArrivalShrinks DEF FromKnown, Arrives, ProcessPacket, HandshakeInv, ShakeTypeOK
  <2> QED
    BY <2>1, <2>2
<1>2. m.seq \in Nat /\ given \in Nat
  BY DEF HandshakeInv, ShakeTypeOK, ToServerPackets
<1>3. /\ AckFromServer(m.seq) \in ToClientPackets /\ AckFromServer(m.seq).id = m.seq
      /\ AckFromServer(m.seq).kind = "ack"
      /\ SetPeerId(given) \in ToClientPackets /\ SetPeerId(given).id = given
      /\ SetPeerId(given).kind = "setid"
  BY <1>2, PacketFields
<1>4. /\ toClient' \subseteq toClient \cup {SetPeerId(given), AckFromServer(m.seq)}
      /\ m.kind # "data" => toClient' \subseteq toClient \cup {SetPeerId(given)}
  BY <1>1 DEF WithAck, Reminder
<1>5. ShakeTypeOK'
  <2>1. toClient' \subseteq ToClientPackets
    BY <1>3, <1>4 DEF HandshakeInv, ShakeTypeOK
  <2>2. resends' \in 0 .. ResendLimit + 1
    BY <1>1 DEF HandshakeInv, ShakeTypeOK, Reminded
  <2>3. received' \subseteq Nat
    BY <1>1, <1>2 DEF HandshakeInv, ShakeTypeOK
  <2>4. age' \in 0 .. HalfOpenTime
    BY <1>1 DEF HandshakeInv, ShakeTypeOK
  <2> QED
    BY <1>1, <2>1, <2>2, <2>3, <2>4 DEF HandshakeInv, ShakeTypeOK, clientVars, outgoingVars
<1>6. AcksAreTrue'
  <2>1. given > 0
    BY <1>1 DEF HandshakeInv, IdsAreGiven
  <2>2. ASSUME given <= 1
        PROVE  /\ \A s \in Seqs : packets'[s] = "acked" => s \in received'
               /\ \A n \in toClient' : n.kind = "ack" => n.id \in received'
    <3>1. /\ \A s \in Seqs : packets[s] = "acked" => s \in received
          /\ \A n \in toClient : n.kind = "ack" => n.id \in received
      BY <2>2, <1>1 DEF HandshakeInv, AcksAreTrue
    <3>2. packets' = packets /\ received \subseteq received'
      BY <1>1 DEF clientVars, outgoingVars
    <3> QED
      BY <3>1, <3>2, <1>1, <1>3, <1>4
  <2> QED
    BY <1>1, <1>2, <2>1, <2>2 DEF AcksAreTrue
<1>7. peer' = "open" => given' = clientId
  BY <1>1 DEF HandshakeInv, OneIdInUse
<1>8. \A n \in toClient' \ toClient : n.kind = "setid" => n.id = given'
  BY <1>1, <1>3, <1>4
<1>9. given' >= given /\ given' > 0
  BY <1>1, <1>2 DEF HandshakeInv, IdsAreGiven
<1> QED
  BY <1>1, <1>5, <1>6, <1>7, <1>8, <1>9, ServerStepInv

\* A packet that only provokes a reminder, and a SET_PEER_ID that is due again.
LEMMA RemindedInv ==
  ASSUME HandshakeInv, ServerResends \/ \E m \in toServer : FromOpenWithoutId(m)
  PROVE  HandshakeInv'
<1>1. /\ toServer' \subseteq toServer
      /\ UNCHANGED <<clientVars, given, peer, age, received, unacked>>
      /\ peer # "none"
      /\ resends' \in {resends, resends + 1} /\ (resends > ResendLimit => resends' = resends)
      /\ toClient' \subseteq toClient \cup {SetPeerId(given)}
  <2>1. CASE ServerResends
    BY <2>1 DEF ServerResends, HandshakeInv, ShakeTypeOK
  <2>2. ASSUME NEW m \in toServer, FromOpenWithoutId(m) PROVE <1>1
    BY <2>2, ArrivalShrinks DEF FromOpenWithoutId, Arrives, Reminder, Reminded, HandshakeInv, ShakeTypeOK
  <2> QED
    BY <2>1, <2>2
<1>2. SetPeerId(given) \in ToClientPackets /\ SetPeerId(given).id = given
      /\ SetPeerId(given).kind = "setid"
  BY PacketFields DEF HandshakeInv, ShakeTypeOK
<1>3. resends' \in 0 .. ResendLimit + 1
  BY <1>1 DEF HandshakeInv, ShakeTypeOK
<1>4. ShakeTypeOK'
  BY <1>1, <1>2, <1>3 DEF HandshakeInv, ShakeTypeOK, clientVars, outgoingVars
<1>5. AcksAreTrue'
  BY <1>1, <1>2 DEF HandshakeInv, AcksAreTrue, IdsAreGiven, ShakeTypeOK, clientVars, outgoingVars
<1>6. given' >= given /\ (peer' = "open" => given' = clientId) /\ given' > 0
  BY <1>1 DEF HandshakeInv, OpenMeansAgreed, IdsAreGiven, ShakeTypeOK
<1>7. \A n \in toClient' \ toClient : n.kind = "setid" => n.id = given'
  BY <1>1, <1>2
<1> QED
  BY <1>1, <1>4, <1>5, <1>6, <1>7, ServerStepInv

LEMMA QuietServerInv ==
  ASSUME HandshakeInv,
         HalfOpenTimesOut \/ OpenEnds \/ \E m \in toServer : FromUnknown(m)
  PROVE  HandshakeInv'
<1>1. CASE HalfOpenTimesOut /\ age # HalfOpenTime
  <2>1. UNCHANGED <<clientVars, given, peer, channelVars, toServer, toClient>> /\ age' \in 0 .. HalfOpenTime
    BY <1>1 DEF HalfOpenTimesOut, HandshakeInv, ShakeTypeOK
  <2>2. ShakeTypeOK' /\ AcksAreTrue'
    BY <2>1 DEF HandshakeInv, ShakeTypeOK, AcksAreTrue, clientVars, outgoingVars, channelVars
  <2>3. given' >= given /\ (peer' = "open" => given' = clientId) /\ (peer' # "none" => given' > 0)
    BY <2>1 DEF HandshakeInv, ShakeTypeOK, OpenMeansAgreed, IdsAreGiven
  <2> QED
    BY <2>1, <2>2, <2>3, ServerStepInv
<1>2. CASE (HalfOpenTimesOut /\ age = HalfOpenTime) \/ OpenEnds
  <2>1. /\ peer' = "none" /\ received' = {} /\ unacked' = FALSE /\ resends' = 0 /\ age' = 0
        /\ UNCHANGED <<clientVars, given, toServer, toClient>>
        /\ peer # "none"
    BY <1>2 DEF HalfOpenTimesOut, OpenEnds, DeletePeer
  <2>2. ShakeTypeOK'
    <3>1. /\ peer' \in {"none", "half", "open"} /\ received' \subseteq Nat /\ unacked' \in BOOLEAN
          /\ resends' \in 0 .. ResendLimit + 1 /\ age' \in 0 .. HalfOpenTime
      <4>1. /\ peer' = "none" /\ received' = {} /\ unacked' = FALSE /\ resends' = 0
            /\ age' = 0
        BY <2>1
      <4>2. 0 \in 0 .. ResendLimit + 1 /\ 0 \in 0 .. HalfOpenTime /\ FALSE \in BOOLEAN
        OBVIOUS
      <4> QED
        BY <4>1, <4>2
    <3>2. ShakeTypeOK
      BY DEF HandshakeInv
    <3>3. /\ clientId' = clientId /\ accepting' = accepting /\ packets' = packets
          /\ carries' = carries /\ numbered' = numbered /\ commands' = commands
          /\ draining' = draining /\ owesAck' = owesAck /\ given' = given
          /\ toServer' = toServer /\ toClient' = toClient
      BY <2>1 DEF clientVars, outgoingVars
    <3> QED
      BY <3>1, <3>2, <3>3 DEF ShakeTypeOK
  <2>3. AcksAreTrue'
    BY <2>1 DEF HandshakeInv, AcksAreTrue, clientVars, outgoingVars
  <2>4. given' >= given
    BY <2>1 DEF HandshakeInv, ShakeTypeOK
  <2> QED
    BY <2>1, <2>2, <2>3, <2>4, ServerStepInv
<1>3. CASE \E m \in toServer : FromUnknown(m)
  <2>1. toServer' \subseteq toServer /\ UNCHANGED <<clientVars, serverVars, toClient>>
    BY <1>3, ArrivalShrinks DEF FromUnknown, Arrives
  <2>2. ShakeTypeOK' /\ AcksAreTrue'
    BY <2>1 DEF HandshakeInv, ShakeTypeOK, AcksAreTrue, clientVars, outgoingVars, serverVars, channelVars
  <2>3. given' >= given /\ (peer' = "open" => given' = clientId) /\ (peer' # "none" => given' > 0)
    BY <2>1 DEF HandshakeInv, ShakeTypeOK, OpenMeansAgreed, IdsAreGiven, serverVars
  <2> QED
    BY <2>1, <2>2, <2>3, ServerStepInv
<1> QED
  BY <1>1, <1>2, <1>3

-----------------------------------------------------------------------------
LEMMA StutterInv ==
  ASSUME HandshakeInv, UNCHANGED shakeVars
  PROVE  HandshakeInv'
BY DEF HandshakeInv, ShakeTypeOK, OpenMeansAgreed, IdsAreGiven, OneIdInUse, NothingHalfMade, AcksAreTrue,
  Connected, Waiting, Pending, shakeVars, clientVars, outgoingVars, serverVars, channelVars

(***************************************************************************)
(* The invariant holds in every reachable state.                           *)
(***************************************************************************)
THEOREM HandshakeInvariant == ShakeSpec => []HandshakeInv
<1>1. ASSUME HandshakeInv, [ShakeNext]_shakeVars PROVE HandshakeInv'
  <2>1. CASE Lose \/ ProgramSends \/ StartDraining \/ ProcessCommand \/ EndDraining \/ MakePing
    BY <1>1, <2>1, LoseInv, ProgramSendsInv, DrainingInv, ProcessCommandInv, MakePingInv
  <2>2. CASE SendInit \/ SendAck \/ \E s \in Seqs : SendReliable(s) \/ Resend(s)
    BY <1>1, <2>2, ClientSendsInv
  <2>3. CASE SetOwnPeerId \/ \E m \in toClient : ReceiveSetPeerId(m) \/ ClientReceiveAck(m)
    BY <1>1, <2>3, SetOwnPeerIdInv, ReceiveSetPeerIdInv, ClientReceiveAckInv
  <2>4. CASE \E m \in toServer : ServerReceives(m)
    BY <1>1, <2>4, FromNewcomerInv, TakenInv, RemindedInv, QuietServerInv DEF ServerReceives
  <2>5. CASE ServerResends \/ HalfOpenTimesOut \/ OpenEnds
    BY <1>1, <2>5, RemindedInv, QuietServerInv
  <2>6. CASE UNCHANGED shakeVars
    BY <1>1, <2>6, StutterInv
  <2> QED
    BY <1>1, <2>1, <2>2, <2>3, <2>4, <2>5, <2>6 DEF ShakeNext
<1> QED
  BY <1>1, InitInv, PTL DEF ShakeSpec

(***************************************************************************)
(* Type correctness of the handshake.                                      *)
(***************************************************************************)
THEOREM HandshakeTyped == ShakeSpec => []ShakeTypeOK
<1>1. HandshakeInv => ShakeTypeOK
  BY DEF HandshakeInv
<1> QED
  BY <1>1, HandshakeInvariant, PTL

(***************************************************************************)
(* ConnectionReceiveThread::receive opens a peer only for a client that    *)
(* has taken the id of this very peer.                                     *)
(***************************************************************************)
THEOREM OpenOnlyIfAgreed == ShakeSpec => []OpenMeansAgreed
<1>1. HandshakeInv => OpenMeansAgreed
  BY DEF HandshakeInv
<1> QED
  BY <1>1, HandshakeInvariant, PTL

(***************************************************************************)
(* If the program waits for Connected(), fix_peer_id reaches every packet  *)
(* that was made without an id: SetPeerID in the receive thread and        *)
(* makePacket in the send thread may interleave as they like.              *)
(***************************************************************************)
THEOREM EveryPacketGetsTheId ==
  ASSUME ~SendsEarly
  PROVE  ShakeSpec => []NoneWithoutId
<1>1. HandshakeInv => NoneWithoutId
  BY DEF HandshakeInv, NothingHalfMade, OneIdInUse, NoneWithoutId, Connected
<1> QED
  BY <1>1, HandshakeInvariant, PTL

(***************************************************************************)
(* Nothing that the first peer acknowledged is missing there, whatever the *)
(* network does and whether or not the peer is open yet.                   *)
(***************************************************************************)
THEOREM NothingLostToTheFirst == ShakeSpec => []FirstPeerLosesNothing
<1>1. HandshakeInv => FirstPeerLosesNothing
  BY DEF HandshakeInv, AcksAreTrue, FirstPeerLosesNothing, Lost
<1> QED
  BY <1>1, HandshakeInvariant, PTL

=============================================================================
