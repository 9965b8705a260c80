----------------------------- MODULE MeshUpdate ------------------------------
(***************************************************************************)
(* How the client's map blocks get their meshes, and the server its        *)
(* acknowledgements (client/mesh_generator_thread.cpp): the main thread    *)
(* queues updates, worker threads make meshes of them, the main thread     *)
(* takes the results in Client::step.                                      *)
(*                                                                         *)
(* client_mesh_chunk is 1, its default: a mesh is of one block, and looks  *)
(* at the blocks round it.  A mesh is what its maker saw: the version of   *)
(* each block, and nothing at all when the block is only air.              *)
(***************************************************************************)
EXTENDS Naturals, FiniteSets, Sequences, SequencesExt

CONSTANTS
  Blocks,
  Around,          \* block -> the blocks that g_26dirs lead to
  Airy,            \* those that are only air at first
  Workers,         \* mesh worker threads
  None,            \* no block, no mesh, no job
  MaxVersions, MaxUnloads  \* bounds of the model: changes; blocks unloaded

VARIABLES
  content,         \* the map: block -> [version, air] or None
  shown,           \* block -> its mesh
  main,            \* the main thread: "step", "adding", "taking"
  adding,          \* the calls of addBlock() it still has to make
  m_queue,         \* of [p, acks, urgent, blocks]
  m_urgents, m_inflight_blocks,
  m_update_sem,    \* per worker: posted
  pc, job,         \* per worker: where it is, and with which update
  m_queue_out, m_queue_out_urgent,
  acked,           \* versions of blocks acknowledged to the server, in order
  received,        \* versions of blocks that came from the server
  versions, unloads,
  overtaken        \* history: blocks whose newest mesh waits before an older one

mapVars == <<content, received, versions, unloads>>
queueVars == <<m_queue, m_urgents, m_inflight_blocks>>
workerVars == <<m_update_sem, pc, job>>
resultVars == <<m_queue_out, m_queue_out_urgent, overtaken>>
vars == <<mapVars, shown, main, adding, queueVars, workerVars, resultVars, acked>>

\* The client has its blocks already, and their meshes.
Init ==
  /\ content = [b \in Blocks |-> [version |-> 0, air |-> b \in Airy]]
  /\ shown = [b \in Blocks |-> [n \in IF b \in Airy THEN {} ELSE Around[b] \cup {b} |-> 0]]
  /\ main = "step" /\ adding = <<>>
  /\ m_queue = <<>> /\ m_urgents = {} /\ m_inflight_blocks = {}
  /\ m_update_sem = [w \in Workers |-> FALSE]
  /\ pc = [w \in Workers |-> "wait"] /\ job = [w \in Workers |-> None]
  /\ m_queue_out = <<>> /\ m_queue_out_urgent = <<>>
  /\ acked = <<>> /\ received = {} /\ versions = 0 /\ unloads = 0
  /\ overtaken = {}

-----------------------------------------------------------------------------
Loaded == {b \in Blocks : content[b] # None}
Working == {w \in Workers : pc[w] = "make"}
Results == m_queue_out_urgent \o m_queue_out

\* Seeded fault: the neighbours keep their meshes.
UpdatesForAlone(b, acks, urgent) ==
  <<[p |-> b, acks |-> acks, urgent |-> urgent, from_neighbor |-> FALSE]>>

\* MeshUpdateManager::updateBlock with its neighbours: the calls of addBlock.
UpdatesFor(b, acks, urgent) ==
  <<[p |-> b, acks |-> acks, urgent |-> urgent, from_neighbor |-> FALSE]>> \o
  SetToSeq({[p |-> n, acks |-> {}, urgent |-> urgent, from_neighbor |-> TRUE] :
              n \in Around[b]})

\* The main thread has changed the map and asks for updates.
Change(b, air, acks, urgent) ==
  /\ main = "step" /\ versions < MaxVersions
  /\ versions' = versions + 1
  /\ content' = [content EXCEPT ![b] = [version |-> versions', air |-> air]]
  /\ adding' = UpdatesFor(b, acks, urgent)
  /\ main' = "adding"
  /\ UNCHANGED <<shown, unloads, queueVars, workerVars, resultVars, acked>>

\* Client::handleCommand_BlockData
BlockData(b, air) ==
  /\ Change(b, air, {versions + 1}, FALSE)
  /\ received' = received \cup {versions'}

\* Client::addNode and removeNode, predicted or told by the server.
ChangeNode(b, air) ==
  /\ b \in Loaded
  /\ Change(b, air, {}, TRUE)
  /\ UNCHANGED received

\* QueuedMeshUpdate::retrieveBlocks: with a reference to each.
RetrieveBlocks(p) == (Around[p] \cup {p}) \cap Loaded

\* Seeded fault: the acknowledgement is forgotten when an update is there.
MergeForgetting(u, i) ==
  [m_queue EXCEPT ![i].urgent = @ \/ u.urgent,
                  ![i].blocks = @ \cup RetrieveBlocks(u.p)]

\* The update is in the queue already: data is added to it.
Merge(u, i) ==
  [m_queue EXCEPT ![i].acks = @ \cup u.acks,
                  ![i].urgent = @ \/ u.urgent,
                  ![i].blocks = @ \cup RetrieveBlocks(u.p)]

\* Seeded fault: what is skipped stays urgent.
UrgentsWhenSkippedKept(u) ==
  IF u.urgent THEN m_urgents \cup {u.p} ELSE m_urgents

\* m_urgents after an update was skipped, having been marked before.
UrgentsWhenSkipped(u) == m_urgents \ {u.p}

\* MeshUpdateQueue::addBlock
AddBlock ==
  /\ main = "adding" /\ adding # <<>>
  /\ adding' = Tail(adding)
  /\ LET u == Head(adding)
         marked == IF u.urgent THEN m_urgents \cup {u.p} ELSE m_urgents
         queued == {i \in DOMAIN m_queue : m_queue[i].p = u.p}
     IN \/ u.p \notin Loaded /\ UNCHANGED <<m_queue, m_urgents>>
        \/ /\ u.p \in Loaded /\ queued # {}
           /\ \E i \in queued : m_queue' = Merge(u, i)
           /\ m_urgents' = marked
        \/ /\ u.p \in Loaded /\ queued = {}
           /\ u.from_neighbor /\ content[u.p].air
           /\ m_urgents' = UrgentsWhenSkipped(u)
           /\ UNCHANGED m_queue
        \/ /\ u.p \in Loaded /\ queued = {}
           /\ ~(u.from_neighbor /\ content[u.p].air)
           /\ m_urgents' = marked
           /\ m_queue' = Append(m_queue,
                [p |-> u.p, acks |-> u.acks, urgent |-> u.urgent,
                 blocks |-> RetrieveBlocks(u.p)])
  /\ UNCHANGED <<mapVars, shown, main, m_inflight_blocks, workerVars, resultVars,
                 acked>>

\* MeshUpdateManager::deferUpdate
DeferUpdate ==
  /\ main = "adding" /\ adding = <<>>
  /\ m_update_sem' = [w \in Workers |-> TRUE]
  /\ main' = "step"
  /\ UNCHANGED <<mapVars, shown, adding, queueVars, pc, job, resultVars, acked>>

-----------------------------------------------------------------------------
Goto(w, place) == pc' = [pc EXCEPT ![w] = place]

\* UpdateThread::run
Wake(w) ==
  /\ pc[w] = "wait" /\ m_update_sem[w]
  /\ m_update_sem' = [m_update_sem EXCEPT ![w] = FALSE]
  /\ Goto(w, "pop")
  /\ UNCHANGED <<mapVars, shown, main, adding, queueVars, job, resultVars, acked>>

MayPop(i) == /\ m_urgents = {} \/ m_queue[i].p \in m_urgents
             /\ m_queue[i].p \notin m_inflight_blocks

\* MeshUpdateQueue::pop
Pop(w) ==
  /\ pc[w] = "pop"
  /\ LET eligible == {i \in DOMAIN m_queue : MayPop(i)}
     IN \/ eligible = {} /\ Goto(w, "wait") /\ UNCHANGED <<queueVars, job>>
        \/ /\ eligible # {}
           /\ LET i == Min(eligible)
              IN /\ job' = [job EXCEPT ![w] = m_queue[i]]
                 /\ m_queue' = RemoveAt(m_queue, i)
                 /\ m_urgents' = m_urgents \ {m_queue[i].p}
                 /\ m_inflight_blocks' = m_inflight_blocks \cup {m_queue[i].p}
           /\ Goto(w, "make")
  /\ UNCHANGED <<mapVars, shown, main, adding, m_update_sem, resultVars, acked>>

\* What a mesh made now of p and the given blocks shows.
MeshOf(p, blocks) ==
  IF content[p].air THEN [n \in {} |-> 0]
  ELSE [n \in blocks |-> content[n].version]

\* doUpdate: fillDataFromMapBlocks, MapBlockMesh and putResult.  What is seen is
\* put a while later, which nobody can tell from an earlier look.
MakeMesh(w) ==
  /\ pc[w] = "make"
  /\ LET u == job[w]
         result == [p |-> u.p, acks |-> u.acks, blocks |-> u.blocks,
                    saw |-> content[u.p].version, mesh |-> MeshOf(u.p, u.blocks)]
         older == \E r \in ToSet(m_queue_out) : r.p = u.p
     IN IF u.urgent
        THEN /\ m_queue_out_urgent' = Append(m_queue_out_urgent, result)
             /\ overtaken' = IF older THEN overtaken \cup {u.p} ELSE overtaken \ {u.p}
             /\ UNCHANGED m_queue_out
        ELSE /\ m_queue_out' = Append(m_queue_out, result)
             /\ overtaken' = overtaken \ {u.p}
             /\ UNCHANGED m_queue_out_urgent
  /\ Goto(w, "done")
  /\ UNCHANGED <<mapVars, shown, main, adding, queueVars, m_update_sem, job, acked>>

\* MeshUpdateQueue::done
Done(w) ==
  /\ pc[w] = "done"
  /\ m_inflight_blocks' = m_inflight_blocks \ {job[w].p}
  /\ job' = [job EXCEPT ![w] = None]
  /\ Goto(w, "pop")
  /\ UNCHANGED <<mapVars, shown, main, adding, m_queue, m_urgents, m_update_sem,
                 resultVars, acked>>

-----------------------------------------------------------------------------
\* Client::step comes to "Replace updated meshes".
BeginTaking ==
  /\ main = "step" /\ Results # <<>>
  /\ main' = "taking"
  /\ UNCHANGED <<mapVars, shown, adding, queueVars, workerVars, resultVars, acked>>

\* getNextResult: the urgent ones first.  The block gets the mesh, the server
\* its acknowledgements.
TakeResult ==
  /\ main = "taking" /\ Results # <<>>
  /\ LET r == Head(Results)
     IN /\ shown' = [shown EXCEPT ![r.p] = r.mesh]
        /\ acked' = acked \o SetToSeq(r.acks)
  /\ IF m_queue_out_urgent # <<>>
     THEN m_queue_out_urgent' = Tail(m_queue_out_urgent) /\ UNCHANGED m_queue_out
     ELSE m_queue_out' = Tail(m_queue_out) /\ UNCHANGED m_queue_out_urgent
  /\ UNCHANGED <<mapVars, main, adding, queueVars, workerVars, overtaken>>

EndTaking ==
  /\ main = "taking" /\ Results = <<>>
  /\ main' = "step"
  /\ UNCHANGED <<mapVars, shown, adding, queueVars, workerVars, resultVars, acked>>

\* References that mesh updates hold to blocks (MapBlock::refGet).
Referenced ==
  UNION ({r.blocks : r \in ToSet(m_queue) \cup ToSet(Results)}
           \cup {job[w].blocks : w \in Working})

\* Map::timerUpdate unloads a block that nobody refers to.
Unload(b) ==
  /\ main = "step" /\ b \in Loaded \ Referenced /\ unloads < MaxUnloads
  /\ unloads' = unloads + 1
  /\ content' = [content EXCEPT ![b] = None]
  /\ shown' = [shown EXCEPT ![b] = None]
  /\ UNCHANGED <<received, versions, main, adding, queueVars, workerVars,
                 resultVars, acked>>

WorkerStep(w) == Wake(w) \/ Pop(w) \/ MakeMesh(w) \/ Done(w)

Next ==
  \/ \E b \in Blocks : \/ \E air \in BOOLEAN : BlockData(b, air) \/ ChangeNode(b, air)
                       \/ Unload(b)
  \/ AddBlock \/ DeferUpdate \/ BeginTaking \/ TakeResult \/ EndTaking
  \/ \E w \in Workers : WorkerStep(w)

Spec == Init /\ [][Next]_vars

-----------------------------------------------------------------------------
\* All acknowledgements that are owed, at each place where they may be.
Owed ==
  [i \in DOMAIN adding |-> adding[i].acks] \o
  [i \in DOMAIN m_queue |-> m_queue[i].acks] \o
  [i \in DOMAIN Results |-> Results[i].acks]

\* Every block that comes from the server is acknowledged once, whatever is
\* merged, skipped or urgent, and not before a mesh was made of it or of what
\* came after it (the server throttles itself by these acknowledgements).
AckedOnce ==
  LET places(v) ==
        Cardinality({i \in DOMAIN Owed : v \in Owed[i]})
          + Cardinality({w \in Working : v \in job[w].acks})
          + Cardinality({i \in DOMAIN acked : acked[i] = v})
  IN /\ \A v \in received : places(v) = 1
     /\ \A i \in DOMAIN Results : \A v \in Results[i].acks : v <= Results[i].saw

\* An update of b's mesh is on its way somewhere.
Pending(b) ==
  \/ \E u \in ToSet(adding) \cup ToSet(m_queue) \cup ToSet(Results) : u.p = b
  \/ \E w \in Working : job[w].p = b

\* When nothing is on its way any more, a block shows what it and the loaded
\* blocks round it are, whichever worker made the meshes and however the
\* updates were merged or skipped - unless an urgent update of it was made
\* while the result of an earlier one lay in the other queue: getNextResult
\* then hands out the older mesh last.
NewestMesh ==
  \A b \in Loaded \ overtaken : ~Pending(b) =>
    IF content[b].air THEN shown[b] = [n \in {} |-> 0]
    ELSE /\ shown[b] # None
         /\ \A n \in RetrieveBlocks(b) :
              n \in DOMAIN shown[b] /\ shown[b][n] = content[n].version

\* No update is left behind: while there is one in the queue a worker is at
\* work or woken - also when the only urgent update is of a block that a worker
\* has in hand, and when an urgent update was skipped.
QueueIsServed ==
  main = "step" /\ m_queue # <<>> =>
    \E w \in Workers : pc[w] # "wait" \/ m_update_sem[w]

=============================================================================
