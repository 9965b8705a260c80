--------------------------- MODULE PeerLifecycle ----------------------------
(***************************************************************************)
(* The peers of a serving con::Connection: who may use a Peer object, who  *)
(* deletes it, and what the program is told.                               *)
(*                                                                         *)
(* Three threads touch the peers.  The receive thread creates them and     *)
(* removes one that says goodbye, the send thread removes those that are   *)
(* timed out or to be disconnected, and the user thread (the server) asks  *)
(* for addresses and statistics.  Each reaches an object through a         *)
(* PeerHelper, which counts the users; deletePeer takes the object out of  *)
(* the map, and whoever lets the count reach zero frees it.  A second      *)
(* helper that a thread takes below its first (processPacket below         *)
(* receive, rawSendAsPacket below runTimeouts) is given up before the      *)
(* first and so never is the last: the two are one here.                   *)
(***************************************************************************)
EXTENDS Naturals, Sequences

CONSTANTS
  Ids,        \* the peer ids that createPeer may pick
  None,       \* no peer, no id
  ReuseIds,   \* whether the random id may be one that was given before
  MaxPeers    \* bound of the model: peers created in a behaviour

ASSUME PeerAssumption ==
  None \notin Nat /\ None \notin Ids /\ ReuseIds \in BOOLEAN /\ MaxPeers \in Nat

Peers == 1 .. MaxPeers
Threads == {"send", "receive", "user"}

VARIABLES
  peers,              \* m_peers: id -> object
  id, memory, usage,  \* of the Peer objects: id, life, m_usage
  pendingDeletion,    \* the objects with m_pending_deletion ...
  pendingDisconnect,  \* ... and with m_pending_disconnect
  uses,               \* the object that a thread has a PeerHelper on
  step, deleting,     \* where a thread is: in its loop, or deleting an object
  condemned,          \* the send thread's timeouted_peers or pendingDisconnect
  sweeping,           \* whether it has begun to delete them
  requests,           \* ids of CONNCMD_DISCONNECT_PEER commands
  events,             \* m_event_queue
  clients             \* what the program made of the events: m_clients

objectVars == <<id, memory, usage, pendingDeletion, pendingDisconnect>>
threadVars == <<uses, step, deleting>>
sendVars == <<condemned, sweeping, requests>>
programVars == <<events, clients>>
vars == <<peers, objectVars, threadVars, sendVars, programVars>>

Init ==
  /\ peers = [i \in Ids |-> None]
  /\ id = [o \in Peers |-> None] /\ memory = [o \in Peers |-> "unborn"]
  /\ usage = [o \in Peers |-> 0]
  /\ pendingDeletion = {} /\ pendingDisconnect = {}
  /\ uses = [t \in Threads |-> None]
  /\ step = [t \in Threads |-> "loop"] /\ deleting = [t \in Threads |-> None]
  /\ condemned = <<>> /\ sweeping = FALSE /\ requests = {}
  /\ events = <<>> /\ clients = {}

Created == {o \in Peers : memory[o] # "unborn"}
Runs(t) == step[t] = "loop"
HoldsNone(t) == uses[t] = None
ShuttingDown == step["user"] \in {"stopping", "stopped"}

-----------------------------------------------------------------------------
(***************************************************************************)
(* Using a peer.                                                           *)
(***************************************************************************)

\* getPeerNoEx: under m_peers_mutex, IncUseCount of what the map holds.
Acquire(t, i) ==
  LET o == peers[i]
  IN  /\ Runs(t) /\ HoldsNone(t) /\ o # None /\ (t = "send" => ~sweeping)
      /\ o \notin pendingDeletion
      /\ usage' = [usage EXCEPT ![o] = @ + 1]
      /\ uses' = [uses EXCEPT ![t] = o]
      /\ UNCHANGED <<peers, id, memory, pendingDeletion, pendingDisconnect, step,
                     deleting, sendVars, programVars>>

\* Seeded fault: the count is looked at before it is lowered.
LastUserTooEarly(o) == usage[o] = 0 /\ o \in pendingDeletion

\* DecUseCount decides under the lock whether this was the last user of a
\* dropped peer ...
LastUser(o) == usage[o] = 1 /\ o \in pendingDeletion

Release(t) ==
  /\ Runs(t) /\ ~HoldsNone(t)
  /\ usage' = [usage EXCEPT ![uses[t]] = @ - 1]
  /\ uses' = [uses EXCEPT ![t] = None]
  /\ IF LastUser(uses[t])
     THEN step' = [step EXCEPT ![t] = "free"] /\ deleting' = [deleting EXCEPT ![t] = uses[t]]
     ELSE UNCHANGED <<step, deleting>>
  /\ UNCHANGED <<peers, id, memory, pendingDeletion, pendingDisconnect, sendVars,
                 programVars>>

\* ... and frees it after the lock, as Drop does ("delete this").
FreePeer(t) ==
  /\ step[t] = "free"
  /\ memory' = [memory EXCEPT ![deleting[t]] = "freed"]
  /\ step' = [step EXCEPT ![t] = "loop"] /\ deleting' = [deleting EXCEPT ![t] = None]
  /\ UNCHANGED <<peers, id, usage, pendingDeletion, pendingDisconnect, uses, sendVars,
                 programVars>>

-----------------------------------------------------------------------------
(***************************************************************************)
(* Creating and deleting peers.                                            *)
(***************************************************************************)
NeverGiven(i) == \A o \in Peers : id[o] # i

\* createPeer for a sender nobody knows, all of it under m_peers_mutex.
CreatePeer(o, i) ==
  /\ Runs("receive") /\ HoldsNone("receive")
  /\ Created = 1 .. o - 1
  /\ peers[i] = None /\ (ReuseIds \/ NeverGiven(i))
  /\ peers' = [peers EXCEPT ![i] = o]
  /\ id' = [id EXCEPT ![o] = i] /\ memory' = [memory EXCEPT ![o] = "live"]
  /\ events' = Append(events, <<"added", i>>)
  /\ UNCHANGED <<usage, pendingDeletion, pendingDisconnect, threadVars, sendVars, clients>>

\* Seeded fault: the program is not told.
TakeOutSilently(t, i) ==
  IF peers[i] = None THEN UNCHANGED <<peers, step, deleting>>
  ELSE /\ peers' = [peers EXCEPT ![i] = None]
       /\ step' = [step EXCEPT ![t] = "drop"]
       /\ deleting' = [deleting EXCEPT ![t] = peers[i]]

\* deletePeer, first part: out of the map, under m_peers_mutex.
TakeOut(t, i) ==
  IF peers[i] = None THEN UNCHANGED <<peers, step, deleting>>
  ELSE /\ peers' = [peers EXCEPT ![i] = None]
       /\ step' = [step EXCEPT ![t] = "tell"]
       /\ deleting' = [deleting EXCEPT ![t] = peers[i]]

\* Second part: the event for the program.
TellRemoved(t) ==
  /\ step[t] = "tell"
  /\ events' = Append(events, <<"removed", id[deleting[t]]>>)
  /\ step' = [step EXCEPT ![t] = "drop"]
  /\ UNCHANGED <<peers, objectVars, uses, deleting, sendVars, clients>>

\* Seeded faults: Drop frees whoever uses the peer; it leaves that to a user.
UnusedAnyway(o) == TRUE
NeverUnused(o) == FALSE

Unused(o) == usage[o] = 0

\* Third part, Peer::Drop: no new users from now on, freed here if it has none.
Drop(t) ==
  /\ step[t] = "drop"
  /\ pendingDeletion' = pendingDeletion \cup {deleting[t]}
  /\ IF Unused(deleting[t])
     THEN step' = [step EXCEPT ![t] = "free"] /\ UNCHANGED deleting
     ELSE step' = [step EXCEPT ![t] = "loop"] /\ deleting' = [deleting EXCEPT ![t] = None]
  /\ UNCHANGED <<peers, id, memory, usage, pendingDisconnect, uses, sendVars, programVars>>

\* A DISCO from the peer that processPacket holds.
Disco ==
  /\ Runs("receive") /\ ~HoldsNone("receive")
  /\ TakeOut("receive", id[uses["receive"]])
  /\ UNCHANGED <<objectVars, uses, sendVars, programVars>>

\* The send thread's loops over the peers: runTimeouts collects a peer that has
\* timed out, sendPackets one that is to be disconnected.
Condemn ==
  LET o == uses["send"]
  IN  /\ Runs("send") /\ ~HoldsNone("send") /\ ~sweeping
      /\ \A k \in DOMAIN condemned : condemned[k].id # id[o]
      /\ condemned' = Append(condemned, [id |-> id[o], marked |-> o \in pendingDisconnect])
      /\ UNCHANGED <<peers, objectVars, threadVars, sweeping, requests, programVars>>

NextCondemned ==
  /\ Runs("send") /\ HoldsNone("send") /\ condemned # <<>>
  /\ condemned' = Tail(condemned)
  /\ sweeping' = (condemned' # <<>>)
  /\ UNCHANGED <<objectVars, uses, requests, programVars>>

\* After the loop deletePeer is called for the ids collected ...
Sweep == NextCondemned /\ TakeOut("send", Head(condemned).id)

\* ... but not for one to be disconnected that has unreliable packets waiting.
PutOff == NextCondemned /\ Head(condemned).marked /\ UNCHANGED <<peers, step, deleting>>

-----------------------------------------------------------------------------
(***************************************************************************)
(* The program, and disconnecting a peer on its demand.                    *)
(***************************************************************************)

\* ReceiveTimeoutMs hands the event to Server::peerAdded or Server::deletingPeer.
HandleEvent ==
  /\ Runs("user") /\ HoldsNone("user") /\ events # <<>>
  /\ clients' = IF Head(events)[1] = "added" THEN clients \cup {Head(events)[2]}
                ELSE clients \ {Head(events)[2]}
  /\ events' = Tail(events)
  /\ UNCHANGED <<peers, objectVars, threadVars, sendVars>>

\* A command for the send thread, by Connection::DisconnectPeer, or for the peer
\* at hand when its packets contradict each other.
RequestDisconnect(i) ==
  /\ \/ Runs("user") /\ i \in clients
     \/ /\ Runs("receive") /\ ~HoldsNone("receive") /\ id[uses["receive"]] = i
        /\ ~ShuttingDown
  /\ requests' = requests \cup {i}
  /\ UNCHANGED <<peers, objectVars, threadVars, condemned, sweeping, programVars>>

\* Seeded fault: the DISCO is sent, and the peer not marked.
DisconnectPeerUnmarked(i) ==
  /\ Runs("send") /\ i \in requests /\ condemned = <<>>
  /\ peers[i] = None => HoldsNone("send")
  /\ requests' = requests \ {i}
  /\ UNCHANGED <<peers, objectVars, threadVars, condemned, sweeping, programVars>>

\* disconnect_peer; a command for a peer that is gone is dropped.
DisconnectPeer(i) ==
  /\ Runs("send") /\ i \in requests /\ condemned = <<>>
  /\ uses["send"] = peers[i]
  /\ pendingDisconnect' = pendingDisconnect \cup ({peers[i]} \ {None})
  /\ requests' = requests \ {i}
  /\ UNCHANGED <<peers, id, memory, usage, pendingDeletion, threadVars, condemned,
                 sweeping, programVars>>

(***************************************************************************)
(* ~Connection asks both threads to stop, waits for them, and frees what   *)
(* is in the map.                                                          *)
(***************************************************************************)
Shutdown ==
  /\ Runs("user") /\ HoldsNone("user")
  /\ step' = [step EXCEPT !["user"] = "stopping"]
  /\ UNCHANGED <<peers, objectVars, uses, deleting, sendVars, programVars>>

ThreadEnds(t) ==
  /\ t # "user" /\ ShuttingDown
  /\ Runs(t) /\ HoldsNone(t) /\ (t = "send" => condemned = <<>>)
  /\ step' = [step EXCEPT ![t] = "stopped"]
  /\ UNCHANGED <<peers, objectVars, uses, deleting, sendVars, programVars>>

InMap(o) == \E i \in Ids : peers[i] = o

Destroy ==
  /\ step["user"] = "stopping"
  /\ step["send"] = "stopped" /\ step["receive"] = "stopped"
  /\ memory' = [o \in Peers |-> IF InMap(o) THEN "freed" ELSE memory[o]]
  /\ peers' = [i \in Ids |-> None]
  /\ step' = [step EXCEPT !["user"] = "stopped"]
  /\ UNCHANGED <<id, usage, pendingDeletion, pendingDisconnect, uses, deleting, sendVars,
                 programVars>>

Next ==
  \/ \E t \in Threads :
       \/ \E i \in Ids : Acquire(t, i)
       \/ Release(t) \/ TellRemoved(t) \/ Drop(t) \/ FreePeer(t) \/ ThreadEnds(t)
  \/ \E o \in Peers, i \in Ids : CreatePeer(o, i)
  \/ \E i \in Ids : RequestDisconnect(i) \/ DisconnectPeer(i)
  \/ Disco \/ Condemn \/ Sweep \/ PutOff \/ HandleEvent \/ Shutdown \/ Destroy

Spec == Init /\ [][Next]_vars

(***************************************************************************)
(* Fairness: deletePeer goes on (weak fairness); what a thread does with a *)
(* peer ends; the send thread's loops visit every peer of the map again    *)
(* and again and look at its flag whenever they do; the unreliable packets *)
(* of a peer do not wait for ever; the program keeps receiving.            *)
(***************************************************************************)

CondemnMarked(o) == uses["send"] = o /\ o \in pendingDisconnect /\ Condemn

Fairness ==
  /\ \A t \in Threads :
       WF_vars(Release(t) \/ TellRemoved(t) \/ Drop(t) \/ FreePeer(t))
  /\ \A i \in Ids : SF_vars(Acquire("send", i)) /\ SF_vars(DisconnectPeer(i))
  /\ \A o \in Peers : SF_vars(CondemnMarked(o))
  /\ SF_vars(Sweep) /\ SF_vars(HandleEvent)

FairSpec == Spec /\ Fairness

-----------------------------------------------------------------------------
(***************************************************************************)
(* Properties.                                                             *)
(***************************************************************************)
\* Every variable has its type.
TypeOK ==
  /\ peers \in [Ids -> Peers \cup {None}]
  /\ id \in [Peers -> Ids \cup {None}]
  /\ memory \in [Peers -> {"unborn", "live", "freed"}]
  /\ usage \in [Peers -> Nat]
  /\ pendingDeletion \subseteq Peers /\ pendingDisconnect \subseteq Peers
  /\ uses \in [Threads -> Peers \cup {None}]
  /\ step \in [Threads -> {"loop", "tell", "drop", "free", "stopping", "stopped"}]
  /\ deleting \in [Threads -> Peers \cup {None}]
  /\ condemned \in Seq([id : Ids, marked : BOOLEAN])
  /\ sweeping \in BOOLEAN
  /\ requests \subseteq Ids /\ clients \subseteq Ids
  /\ events \in Seq({"added", "removed"} \X Ids)

(***************************************************************************)
(* No thread has a reference to a freed peer: neither through a helper,    *)
(* nor through the raw pointer of deletePeer, nor would it find one in the *)
(* map; and no two threads are about to delete the same peer               *)
(* (PeerHelper, deletePeer, Drop, DecUseCount).                            *)
(***************************************************************************)
NoUseAfterFree ==
  /\ \A t \in Threads :
       /\ uses[t] # None => memory[uses[t]] = "live"
       /\ deleting[t] # None => memory[deleting[t]] = "live"
  /\ \A i \in Ids : peers[i] # None => memory[peers[i]] = "live"
  /\ \A t, u \in Threads : t # u /\ deleting[t] = deleting[u] => deleting[t] = None

(***************************************************************************)
(* When ~Connection is done every peer that was ever created has been      *)
(* freed: none was taken out of the map and then forgotten.                *)
(***************************************************************************)
NothingLeaks == step["user"] = "stopped" => \A o \in Created : memory[o] = "freed"

(***************************************************************************)
(* What the two invariants above rest on: a peer's count is the number of  *)
(* its users, what the map holds is not about to be deleted, who deletes a *)
(* peer is at the stage its flag and its count say, a peer that lives is   *)
(* in the map, being deleted or left to its last user, and a thread that   *)
(* has ended uses nothing (IncUseCount, DecUseCount, deletePeer, Drop).    *)
(***************************************************************************)
UsesNow(t, o) == IF uses[t] = o THEN 1 ELSE 0

CountIsRight ==
  \A o \in Peers :
    usage[o] = UsesNow("send", o) + UsesNow("receive", o) + UsesNow("user", o)

BornHaveIds == \A o \in Peers : memory[o] # "unborn" => id[o] \in Ids
PendingAreBorn == \A o \in pendingDeletion : memory[o] # "unborn"

InMapIsUsable ==
  \A i \in Ids : peers[i] # None =>
    /\ id[peers[i]] = i /\ peers[i] \notin pendingDeletion
    /\ \A t \in Threads : deleting[t] # peers[i]

DeletersInStage ==
  \A t \in Threads :
    /\ step[t] \in {"tell", "drop", "free"} <=> deleting[t] # None
    /\ step[t] \in {"tell", "drop"} => deleting[t] \notin pendingDeletion
    /\ step[t] = "free" => deleting[t] \in pendingDeletion /\ usage[deleting[t]] = 0

NobodyForgotten ==
  \A o \in Peers : memory[o] = "live" =>
    \/ InMap(o)
    \/ \E t \in Threads : deleting[t] = o
    \/ o \in pendingDeletion /\ usage[o] > 0

EndedAreIdle ==
  /\ \A t \in Threads : step[t] \in {"stopping", "stopped"} => uses[t] = None
  /\ step["user"] = "stopped" => step["send"] = "stopped" /\ step["receive"] = "stopped"

PeerInv ==
  /\ TypeOK /\ NoUseAfterFree /\ NothingLeaks
  /\ CountIsRight /\ BornHaveIds /\ PendingAreBorn /\ InMapIsUsable /\ DeletersInStage
  /\ NobodyForgotten /\ EndedAreIdle

\* Whether the program has i as a client when it has handled the events that wait:
\* as the newest event about i says or, when none is, as it has it now.
ClientAfterEvents(i) ==
  \/ i \in clients /\ \A n \in DOMAIN events : events[n][2] # i
  \/ \E n \in DOMAIN events :
       /\ events[n] = <<"added", i>>
       /\ \A m \in DOMAIN events : m > n => events[m][2] # i

GivenTwice(i) == \E o, u \in Created : o # u /\ id[o] = i /\ id[u] = i

(***************************************************************************)
(* What the program is told is what happened: when it has handled the      *)
(* events that wait, its clients are the peers of the map, but for one     *)
(* that a thread has taken out and not told of yet.  (Server::peerAdded,   *)
(* Server::deletingPeer.)  An id that was given again is left out: its     *)
(* second "added" may come before the first "removed".                     *)
(***************************************************************************)
ProgramFollows ==
  ~ShuttingDown => \A i \in Ids : ~GivenTwice(i) =>
    (ClientAfterEvents(i) <=>
       \/ peers[i] # None
       \/ \E t \in Threads : step[t] = "tell" /\ id[deleting[t]] = i)

(***************************************************************************)
(* A peer that was taken out of the map is freed in the end, however many  *)
(* threads were using it.                                                  *)
(***************************************************************************)
TakenOutIsFreed ==
  \A o \in Peers : (o \in Created /\ ~InMap(o)) ~> (memory[o] = "freed")

(***************************************************************************)
(* A client the program asks to be disconnected stops being a client,      *)
(* unless everything is shut down first.                                   *)
(***************************************************************************)
DisconnectHappens ==
  \A i \in Ids : (i \in requests) ~> (i \notin clients \/ ShuttingDown)

=============================================================================
