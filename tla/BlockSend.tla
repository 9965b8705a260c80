------------------------------ MODULE BlockSend ------------------------------
(***************************************************************************)
(* How one client comes to hold the newest content of the map blocks round *)
(* its player: RemoteClient::GetNextBlocks (server/clientiface.cpp) picks  *)
(* blocks cube by cube, Server::SendBlocks puts them on channel 2, the     *)
(* client acknowledges them after meshing, map edits go out as single node *)
(* changes on channel 0 or mark the block as not sent.                     *)
(*                                                                         *)
(* Blocks lie on a line and are named by their coordinate.  The content of *)
(* a block is the set of the edits applied to it, each to another node, so *)
(* a node change adds one edit and a whole block replaces the content.     *)
(* Every channel is reliable and ordered (that is what ReliableChannel     *)
(* shows); nothing orders two channels.                                    *)
(***************************************************************************)
EXTENDS Integers, FiniteSets, Sequences, SequencesExt

CONSTANTS
  Blocks,          \* the blocks of the map, a set of integers
  OnDisk,          \* those generated before and saved
  Places,          \* the blocks that the player may be in
  SendD,           \* full_d_max: blocks up to this distance are wanted
  GenD,            \* d_max_gen: up to here missing blocks are generated
  CullD,           \* m_block_cull_optimize_distance
  AlwaysD,         \* BLOCK_ALWAYS_SEND_MAX_D
  MaxSends,        \* m_max_simul_sends
  LimitedSends,    \* the same while the player is building
  QLimit,          \* m_qlimit_generate, the emerge queue's limit
  FarD, NearD,     \* reach of a node change, with few or many events queued
  ManyEvents,      \* the queue length from which it is NearD (4)
  MaxEdits,        \* bound on edits, names them
  Scenarios        \* records of the bounds that a behaviour has:
                   \*   blocks: the blocks within the map's limits
                   \*   start: the block the player stands in at first
                   \*   edits, drops: of the map; of blocks the client unloads
                   \*   disturbed: moves, restarts, other clients' turns, and
                   \*   mods: blocks that mods send;
                   \*   building: the player is, all the time

Edits == 1 .. MaxEdits

VARIABLES
  m_blocks_sending, m_blocks_sent,      \* RemoteClient
  m_nearest_unsent_d, m_last_center,
  m_nothing_to_send_pause,              \* m_nothing_to_send_pause_timer >= 0
  m_blocks_occ,
  center,          \* the block the player is in
  hidden,          \* the blocks isBlockOccluded() holds of
  loaded,          \* the generated blocks in the server's memory
  m_blocks_enqueued,                    \* the emerge queue: block -> generate?
  world,           \* the content of each block on the server
  m_unsent_map_edit_queue,
  chan2, chan0,    \* to the client: BLOCKDATA, ADDNODE/REMOVENODE
  up2, up0,        \* to the server: GOTBLOCKS/DELETEDBLOCKS, INTERACT
  known, view,     \* the client's blocks and what it holds of each
  toAck,           \* BLOCKDATA received and not yet meshed and acknowledged
  bounds,          \* the scenario of this behaviour
  nedits, ndrops, ndisturbed, nmods,
  astray        \* history: blocks that the client may hold otherwise than the
                \* server and that stay booked: a node change has overtaken them
                \* on the wire, or a node predicted in them was refused

serverVars == <<m_blocks_sending, m_blocks_sent, m_nearest_unsent_d,
                m_last_center, m_nothing_to_send_pause, m_blocks_occ>>
netVars == <<chan2, chan0, up2, up0>>
clientVars == <<known, view, toAck>>
mapVars == <<loaded, m_blocks_enqueued, world, m_unsent_map_edit_queue>>
placeVars == <<center, hidden>>
countVars == <<bounds, nedits, ndrops, ndisturbed, nmods>>
sendingVars == <<serverVars, netVars, clientVars, mapVars, placeVars, countVars,
          astray>>

Abs(n) == IF n < 0 THEN -n ELSE n
Dist(p) == Abs(p - center)
OnWire(b) == \E i \in DOMAIN chan2 : chan2[i].b = b

SendingInit ==
  /\ bounds \in Scenarios
  /\ m_blocks_sending = {} /\ m_blocks_sent = {}
  /\ m_nearest_unsent_d = 0 /\ m_last_center = bounds.start
  /\ m_nothing_to_send_pause = FALSE /\ m_blocks_occ = {}
  /\ center = bounds.start /\ hidden \in SUBSET bounds.blocks
  /\ loaded = {} /\ m_blocks_enqueued = [b \in {} |-> FALSE]
  /\ world = [b \in Blocks |-> {}] /\ m_unsent_map_edit_queue = <<>>
  /\ chan2 = <<>> /\ chan0 = <<>> /\ up2 = <<>> /\ up0 = <<>>
  /\ known = {} /\ view = [b \in Blocks |-> {}]
  /\ toAck = [b \in Blocks |-> 0]
  /\ nedits = 0 /\ ndrops = 0 /\ ndisturbed = 0 /\ nmods = 0
  /\ astray = {}

-----------------------------------------------------------------------------
\* Seeded fault: a block on the wire stays booked.
NotSentUnlessSending(c, p, low_priority) ==
  LET this_d == Abs(p - m_last_center)
      again  == p \in c.sent /\ (~low_priority \/ this_d < CullD)
  IN [sending |-> c.sending, sent |-> c.sent \ {p}, pause |-> FALSE,
      near |-> IF again /\ this_d < c.near THEN this_d ELSE c.near]

\* RemoteClient::SetBlockNotSent on the part of the state it works on.
NotSent(c, p, low_priority) ==
  LET this_d == Abs(p - m_last_center)
      was    == p \in c.sending \cup c.sent
      again  == was /\ (~low_priority \/ this_d < CullD) /\ this_d < c.near
  IN [sending |-> c.sending \ {p}, sent |-> c.sent \ {p}, pause |-> FALSE,
      near |-> IF again THEN this_d ELSE c.near]

Bookkeeping == [sending |-> m_blocks_sending, sent |-> m_blocks_sent,
                pause |-> m_nothing_to_send_pause, near |-> m_nearest_unsent_d]

Become(books) == \E c \in {books} :
  /\ m_blocks_sending' = c.sending
  /\ m_blocks_sent' = c.sent
  /\ m_nothing_to_send_pause' = c.pause
  /\ m_nearest_unsent_d' = c.near

\* RemoteClient::SetBlockNotSent, called for one block.
SetBlockNotSent(p) ==
  /\ Become(NotSent(Bookkeeping, p, FALSE))
  /\ UNCHANGED <<m_last_center, m_blocks_occ>>

\* What GetNextBlocks makes of position p when it gets to it: pass over it,
\* put it into the emerge queue or select it for sending.
Culls(p) ==
  /\ p \notin m_blocks_sending \cup m_blocks_sent
  /\ p \in loaded \/ p \notin DOMAIN m_blocks_enqueued
  /\ p \in m_blocks_occ \cup hidden
Skips(p) == p \in m_blocks_sending \cup m_blocks_sent \/ Culls(p)
Emerges(p) == ~Skips(p) /\ p \notin loaded
Selects(p) == ~Skips(p) /\ p \in loaded

\* Seeded fault: without MYMAX(1, ...) the factor 0.33 leaves nothing.
MaxSimulNoFloor(p) ==
  IF bounds.building /\ Dist(p) > AlwaysD THEN 0 ELSE MaxSends

\* max_simul_dynamic
MaxSimul(p) ==
  IF bounds.building /\ Dist(p) > AlwaysD THEN LimitedSends ELSE MaxSends

\* The loop of GetNextBlocks begins at d_start and takes at most three cubes,
\* where there are many blocks to a cube only one.
d_start == IF m_last_center # center THEN 0 ELSE m_nearest_unsent_d
d_max == LET reach == d_start + (IF d_start < 2 * CullD THEN 2 ELSE 0)
         IN IF SendD > reach THEN reach ELSE SendD

\* The elements of a sequence that are in S, in their order.
Within(s, S) ==
  LET first[i \in 0 .. Len(s)] ==
        IF i = 0 THEN <<>>
        ELSE IF s[i] \in S THEN Append(first[i - 1], s[i]) ELSE first[i - 1]
  IN first[Len(s)]

\* The positions from d_start to d_max, in the order of the loop: cube by cube.
ScanList ==
  Within([i \in 1 .. 2 * SendD + 1 |->
            IF i % 2 = 0 THEN center + (i \div 2) ELSE center - (i \div 2)],
         {p \in bounds.blocks : Dist(p) \in d_start .. d_max})

Before(list, i) == {list[j] : j \in 1 .. i - 1}
Queued(list, i) ==
  DOMAIN m_blocks_enqueued \cup {p \in Before(list, i) : Emerges(p)}

\* The two ways to queue_full_break: enough blocks are selected, or the emerge
\* queue takes no more.
Enough(list, i) ==
  Cardinality(m_blocks_sending)
    + Cardinality({p \in Before(list, i) : Selects(p)})
      >= MaxSimul(list[i])
Refused(list, i) ==
  Emerges(list[i]) /\ Cardinality(Queued(list, i)) >= QLimit

\* Where the loop breaks off; one past the list where it does not.
BreakAt(list) ==
  Min({i \in DOMAIN list : Enough(list, i) \/ Refused(list, i)}
        \cup {Len(list) + 1})

\* RemoteClient::GetNextBlocks after the loop over list has ended at end:
\* where the next search begins, and the pause when there is nothing left.
NextSearch(list, end) ==
  LET d == IF end > Len(list) THEN d_max + 1 ELSE Dist(list[end])
      last == IF end <= Len(list) /\ ~Enough(list, end)
              THEN {d} ELSE {}
      emerged == {Dist(p) : p \in {q \in Before(list, end) : Emerges(q)}}
                   \cup last
      found == {Dist(p) : p \in {q \in Before(list, end) : Selects(q)}}
  IN CASE emerged # {} -> [near |-> Min(emerged), pause |-> FALSE]
       [] emerged = {} /\ d > SendD -> [near |-> 0, pause |-> TRUE]
       [] emerged = {} /\ d <= SendD ->
            [near |-> Min(found \cup {d}), pause |-> FALSE]

\* What GetNextBlocks selected is sent, each block as it is now: all of it, unless
\* the other clients use up max_blocks_to_send.
SendFirst(n, dest) ==
  /\ m_blocks_sending' = m_blocks_sending \cup {dest[i] : i \in 1 .. n}
  /\ chan2' = chan2 \o [i \in 1 .. n |-> [b |-> dest[i], data |-> world[dest[i]]]]
  /\ astray' = astray \ {dest[i] : i \in 1 .. n}

SendSelected(dest) ==
  \/ SendFirst(Len(dest), dest) /\ UNCHANGED ndisturbed
  \/ /\ ndisturbed < bounds.disturbed /\ ndisturbed' = ndisturbed + 1
     /\ \E n \in 0 .. Len(dest) - 1 : SendFirst(n, dest)

\* What GetNextBlocks leaves behind when the loop over list has ended at end.
Searched(list, end, search) ==
  /\ m_nearest_unsent_d' = search.near
  /\ m_nothing_to_send_pause' = search.pause
  /\ m_blocks_occ' =
       IF search.near # d_start THEN {}
       ELSE m_blocks_occ \cup {p \in Before(list, end) : Culls(p)}
  /\ m_blocks_enqueued' =
       [b \in Queued(list, end) |->
          \/ b \in DOMAIN m_blocks_enqueued /\ m_blocks_enqueued[b]
          \/ b \in Before(list, end) /\ Emerges(b) /\ Dist(b) <= GenD]
  /\ m_last_center' = center

\* Server::SendBlocks
SendBlocks ==
  /\ ~m_nothing_to_send_pause
  /\ Cardinality(m_blocks_sending) < MaxSends
  /\ \E list \in {ScanList} : \E end \in {BreakAt(list)} :
     \E dest \in {Within(SubSeq(list, 1, end - 1), {p \in loaded : Selects(p)})} :
       /\ SendSelected(dest)
       /\ Searched(list, end, NextSearch(list, end))
  /\ UNCHANGED <<m_blocks_sent, chan0, up2, up0, clientVars, loaded, world,
                 m_unsent_map_edit_queue, placeVars, bounds, nedits, ndrops,
                 nmods>>

\* m_nothing_to_send_pause_timer runs out.
PauseOver ==
  /\ m_nothing_to_send_pause
  /\ m_nothing_to_send_pause' = FALSE
  /\ UNCHANGED <<m_blocks_sending, m_blocks_sent, m_nearest_unsent_d,
                 m_last_center, m_blocks_occ, netVars, clientVars, mapVars,
                 placeVars, countVars, astray>>

\* m_map_send_completion_timer passes its limit: the scan starts again.
ScanRestart ==
  /\ ndisturbed < bounds.disturbed
  /\ m_nearest_unsent_d' = 0
  /\ ndisturbed' = ndisturbed + 1
  /\ UNCHANGED <<m_blocks_sending, m_blocks_sent, m_nothing_to_send_pause,
                 m_last_center, m_blocks_occ, netVars, clientVars, mapVars,
                 placeVars, bounds, nedits, ndrops, nmods, astray>>

\* Server::SendBlock, for mods: sends a block without booking it as sending.
SendBlock(b) ==
  /\ nmods < bounds.mods
  /\ b \in loaded /\ b \notin m_blocks_sent
  /\ chan2' = Append(chan2, [b |-> b, data |-> world[b]])
  /\ nmods' = nmods + 1
  /\ UNCHANGED <<serverVars, chan0, up2, up0, clientVars, mapVars, placeVars,
                 bounds, nedits, ndrops, ndisturbed,
                 astray>>

\* Server::handleCommand_GotBlocks with RemoteClient::GotBlock, and
\* Server::handleCommand_DeletedBlocks.
HandleBlockReport ==
  /\ up2 # <<>>
  /\ LET r == Head(up2)
     IN \/ /\ r.type = "GOTBLOCKS"
           /\ m_blocks_sending' = m_blocks_sending \ {r.b}
           /\ m_blocks_sent' = IF r.b \in m_blocks_sending
                               THEN m_blocks_sent \cup {r.b} ELSE m_blocks_sent
           /\ UNCHANGED <<m_nearest_unsent_d, m_last_center,
                          m_nothing_to_send_pause, m_blocks_occ>>
        \/ /\ r.type = "DELETEDBLOCKS"
           /\ SetBlockNotSent(r.b)
  /\ up2' = Tail(up2)
  /\ UNCHANGED <<chan2, chan0, up0, clientVars, mapVars, placeVars, countVars,
                 astray>>

-----------------------------------------------------------------------------
\* The map changes: MapEditEvent, queued by Server::onMapEditEvent.
MapEdit(b, type, low) ==
  /\ b \in loaded /\ nedits < bounds.edits
  /\ low => type = "OTHER"
  /\ nedits' = nedits + 1
  /\ world' = [world EXCEPT ![b] = @ \cup {nedits'}]
  /\ m_unsent_map_edit_queue' = Append(m_unsent_map_edit_queue,
       [type |-> type, b |-> b, e |-> nedits', low |-> low])
  /\ UNCHANGED <<serverVars, netVars, clientVars, loaded, m_blocks_enqueued,
                 placeVars, bounds, ndrops, ndisturbed, nmods, astray>>

\* What one event does to the bookkeeping and to channel 0: markBlocksNotSent
\* for MEET_OTHER; sendNodeChangePkt for a node, with the blocks marked as not
\* sent for a far player and for one who has not got the block.
HandleEvent(acc, ev, reach) ==
  IF /\ ev.type = "NODE"
     /\ ev.b \in acc.c.sent
     /\ Dist(ev.b) <= reach
  THEN [acc EXCEPT !.out = Append(@, [b |-> ev.b, e |-> ev.e]),
                   !.over = IF OnWire(ev.b) THEN @ \cup {ev.b} ELSE @]
  ELSE [acc EXCEPT !.c = NotSent(@, ev.b, ev.low)]

\* ... and what all events in the queue do, one after the other.
HandleEvents(reach) ==
  LET after[i \in 0 .. Len(m_unsent_map_edit_queue)] ==
        IF i = 0 THEN [c |-> Bookkeeping, out |-> <<>>, over |-> astray]
        ELSE HandleEvent(after[i - 1], m_unsent_map_edit_queue[i], reach)
  IN after[Len(m_unsent_map_edit_queue)]

\* Server::AsyncRunStep, "Send queued-for-sending map edit events".
SendMapEdits ==
  /\ m_unsent_map_edit_queue # <<>>
  /\ LET reach == IF Len(m_unsent_map_edit_queue) >= ManyEvents
                  THEN NearD ELSE FarD
     IN \E all \in {HandleEvents(reach)} :
        /\ Become(all.c)
        /\ chan0' = chan0 \o all.out
        /\ astray' = all.over
  /\ m_unsent_map_edit_queue' = <<>>
  /\ UNCHANGED <<m_last_center, m_blocks_occ, chan2, up2, up0, clientVars,
                 loaded, m_blocks_enqueued, world, placeVars, countVars>>

\* The emerge thread is done with b (EmergeThread::run): loaded, generated,
\* or cancelled because it is on no disk and may not be generated.
EmergeDone(b) ==
  /\ b \in DOMAIN m_blocks_enqueued
  /\ m_blocks_enqueued' = [x \in DOMAIN m_blocks_enqueued \ {b} |->
                             m_blocks_enqueued[x]]
  /\ \/ /\ b \in OnDisk \/ b \in loaded \/ m_blocks_enqueued[b]
        /\ loaded' = loaded \cup {b}
        /\ m_unsent_map_edit_queue' = Append(m_unsent_map_edit_queue,
             [type |-> "OTHER", b |-> b, e |-> 0, low |-> FALSE])
     \/ /\ b \notin OnDisk \cup loaded /\ ~m_blocks_enqueued[b]
        /\ UNCHANGED <<loaded, m_unsent_map_edit_queue>>
  /\ UNCHANGED <<serverVars, netVars, clientVars, world, placeVars, countVars,
                 astray>>

\* What the end of handleCommand_Interact does to the bookkeeping for a node dug
\* or placed.  Digging: ResendBlockIfOnWire if there is air now, else the block
\* is sent again.  Placing: both blocks are sent again if the item wielded has a
\* prediction for the server, too; else those that are on their way.
NotSentIfOnWire(c, p) == IF p \in c.sending THEN NotSent(c, p, FALSE) ELSE c

AfterDigging(p) ==
  {NotSentIfOnWire(Bookkeeping, p.under), NotSent(Bookkeeping, p.under, FALSE)}
AfterPlacing(p) ==
  {NotSent(NotSent(Bookkeeping, p.above, FALSE), p.under, FALSE),
   NotSentIfOnWire(NotSentIfOnWire(Bookkeeping, p.above), p.under)}

\* The map is changed as the client predicted.
InteractDone(p) ==
  /\ world' = [world EXCEPT ![p.b] = @ \cup {p.e}]
  /\ m_unsent_map_edit_queue' = Append(m_unsent_map_edit_queue,
       [type |-> "NODE", b |-> p.b, e |-> p.e, low |-> FALSE])
  /\ \E c \in IF p.type = "DIG" THEN AfterDigging(p) ELSE AfterPlacing(p) : Become(c)
  /\ UNCHANGED astray

\* It is not, and what the ways out leave of the bookkeeping: as it was, for an
\* item out of range or a player who is leaving; without the block pointed at,
\* for one who is dead or too far away or may not dig this; without the block to
\* be placed into, for one who may not interact; or a mod places something else
\* or nothing.  A block that stays booked keeps its predicted node at the client,
\* unless a copy is on its way.
RefusedBooks(p) ==
  {Bookkeeping, NotSent(Bookkeeping, p.under, FALSE)}
    \cup IF p.type = "DIG" THEN {}
         ELSE AfterPlacing(p) \cup {NotSent(Bookkeeping, p.above, FALSE)}

InteractRefused(p) ==
  /\ \E c \in RefusedBooks(p) :
       /\ Become(c)
       /\ astray' = IF p.b \in c.sending \cup c.sent /\ ~OnWire(p.b)
                    THEN astray \cup {p.b} ELSE astray
  /\ UNCHANGED <<world, m_unsent_map_edit_queue>>

\* Server::handleCommand_Interact for a node the client has already changed on
\* its side.
HandleInteract ==
  /\ up0 # <<>>
  /\ up0' = Tail(up0)
  /\ InteractDone(Head(up0)) \/ InteractRefused(Head(up0))
  /\ UNCHANGED <<m_last_center, m_blocks_occ, chan2, chan0, up2, clientVars,
                 loaded, m_blocks_enqueued, placeVars, countVars>>

-----------------------------------------------------------------------------
\* Client::handleCommand_BlockData; the mesh task will acknowledge it.
ReceiveBlockData ==
  /\ chan2 # <<>>
  /\ LET m == Head(chan2)
     IN /\ known' = known \cup {m.b}
        /\ view' = [view EXCEPT ![m.b] = m.data]
        /\ toAck' = [toAck EXCEPT ![m.b] = @ + 1]
  /\ chan2' = Tail(chan2)
  /\ UNCHANGED <<serverVars, chan0, up2, up0, mapVars, placeVars, countVars,
                 astray>>

\* Client::handleCommand_AddNode and RemoveNode: nothing happens to a block
\* the client does not have.
ReceiveNodeChange ==
  /\ chan0 # <<>>
  /\ LET m == Head(chan0)
     IN view' = IF m.b \in known
                THEN [view EXCEPT ![m.b] = @ \cup {m.e}] ELSE view
  /\ chan0' = Tail(chan0)
  /\ UNCHANGED <<serverVars, chan2, up2, up0, known, toAck, mapVars, placeVars,
                 countVars, astray>>

\* Client::step takes the results of the mesh threads and acknowledges.
AckBlock(b) ==
  /\ toAck[b] > 0
  /\ toAck' = [toAck EXCEPT ![b] = @ - 1]
  /\ up2' = Append(up2, [type |-> "GOTBLOCKS", b |-> b])
  /\ UNCHANGED <<serverVars, chan2, chan0, up0, known, view, mapVars,
                 placeVars, countVars, astray>>

\* Client::step unloads a block (Map::timerUpdate) and tells the server.
DropBlock(b) ==
  /\ b \in known /\ ndrops < bounds.drops
  /\ known' = known \ {b}
  /\ view' = [view EXCEPT ![b] = {}]
  /\ ndrops' = ndrops + 1
  /\ up2' = Append(up2, [type |-> "DELETEDBLOCKS", b |-> b])
  /\ UNCHANGED <<serverVars, chan2, chan0, up0, toAck, mapVars, placeVars,
                 bounds, nedits, ndisturbed, nmods, astray>>

\* The player points at a node in block under, through the air in block above:
\* he digs, or places into the air, or into the node where that gives way.  The
\* client changes the node at once, in block b, and asks.  (What it does not
\* predict is to this model an edit of the map.)
Predict(type, under, above, b) ==
  /\ under \in known /\ b \in known /\ nedits < bounds.edits
  /\ Abs(under - above) <= 1
  /\ IF type = "DIG" THEN b = under /\ above = under ELSE b \in {under, above}
  /\ nedits' = nedits + 1
  /\ view' = [view EXCEPT ![b] = @ \cup {nedits'}]
  /\ up0' = Append(up0, [type |-> type, under |-> under, above |-> above,
                         b |-> b, e |-> nedits'])
  /\ UNCHANGED <<serverVars, chan2, chan0, up2, known, toAck, mapVars,
                 placeVars, bounds, ndrops, ndisturbed, nmods, astray>>

\* The player moves to another block, or looks from elsewhere: other blocks
\* are hidden.
Move(c) ==
  /\ ndisturbed < bounds.disturbed
  /\ center' = c
  /\ hidden' \in SUBSET (Blocks \ {c})
  /\ ndisturbed' = ndisturbed + 1
  /\ UNCHANGED <<serverVars, netVars, clientVars, mapVars, bounds, nedits, ndrops,
                 nmods, astray>>

SendingNext ==
  \/ SendBlocks \/ PauseOver \/ ScanRestart \/ SendMapEdits
  \/ HandleBlockReport \/ HandleInteract
  \/ ReceiveBlockData \/ ReceiveNodeChange
  \/ \E b \in Blocks :
       \/ SendBlock(b) \/ EmergeDone(b) \/ AckBlock(b) \/ DropBlock(b)
       \/ \E under, above \in Blocks, type \in {"DIG", "PLACE"} :
            Predict(type, under, above, b)
       \/ \E type \in {"NODE", "OTHER"}, low \in BOOLEAN : MapEdit(b, type, low)
  \/ \E c \in Places : Move(c)

SendingSpec == SendingInit /\ [][SendingNext]_sendingVars

\* The threads keep running and every channel delivers; nobody has to edit,
\* move or unload.
SendingFairness ==
  /\ WF_sendingVars(SendBlocks) /\ WF_sendingVars(PauseOver) /\ WF_sendingVars(SendMapEdits)
  /\ WF_sendingVars(HandleBlockReport) /\ WF_sendingVars(HandleInteract)
  /\ WF_sendingVars(ReceiveBlockData) /\ WF_sendingVars(ReceiveNodeChange)
  /\ \A b \in Blocks : WF_sendingVars(EmergeDone(b)) /\ WF_sendingVars(AckBlock(b))

FairSending == SendingSpec /\ SendingFairness

-----------------------------------------------------------------------------
\* The node changes of b that are on their way, and the place of the last copy of
\* the block that is.
Changes(b) == {m.e : m \in {x \in ToSet(chan0) : x.b = b}}
LastOnWire(b, i) ==
  /\ i \in DOMAIN chan2 /\ chan2[i].b = b
  /\ \A j \in DOMAIN chan2 : j > i => chan2[j].b # b

\* The client has b or will have it, with its newest content when all that is on
\* its way has arrived, in the order that puts the node changes last.
NewestArrives(b) ==
  \/ ~OnWire(b) /\ b \in known /\ view[b] \cup Changes(b) = world[b]
  \/ \E i \in DOMAIN chan2 :
       LastOnWire(b, i) /\ chan2[i].data \cup Changes(b) = world[b]

Pending(b) ==
  \/ \E ev \in ToSet(m_unsent_map_edit_queue) : ev.b = b
  \/ \E r \in ToSet(up2) : r = [type |-> "DELETEDBLOCKS", b |-> b]
  \/ \E p \in ToSet(up0) : p.b = b

Booked == m_blocks_sending \cup m_blocks_sent

\* A block that the server counts as sent or as on its way is at the client,
\* or arriving there, with its newest content; else something is under way
\* that makes the server reconsider (GotBlock, SetBlockNotSent, the far
\* players of sendNodeChangePkt).  Excepted are the blocks of SentMeansNewest,
\* which a node change overtakes, and those of RefusedIsReverted, in which the
\* server refuses a predicted node without taking them out of its books.
NewestUnlessAstray == \A b \in Booked \ astray : Pending(b) \/ NewestArrives(b)

\* Where handleCommand_Interact refuses and marks the block pointed at as not
\* sent ("Re-send block to revert change on client-side"), the block in which
\* the client predicted the node is sent again.
RevertsBlock(p) ==
  /\ p.under \in Booked /\ Become(NotSent(Bookkeeping, p.under, FALSE))
  /\ up0' = Tail(up0) /\ UNCHANGED world

RefusedIsReverted ==
  [][\A p \in ToSet(up0) :
       p = Head(up0) /\ RevertsBlock(p) => p.b \notin Booked' \/ OnWire(p.b)]_sendingVars

\* The order of the channels is enough for the objects they carry, as the comment
\* on the table of commands requires: when all has arrived, no change is missing
\* from a block that is booked.
SentMeansNewest ==
  \A b \in Booked : \/ OnWire(b) \/ Pending(b)
                    \/ \E m \in ToSet(chan0) : m.b = b
                    \/ world[b] \subseteq view[b] /\ b \in known

\* Within the send distance, in sight, and to be had.
Wanted(b) ==
  /\ b \in bounds.blocks /\ Dist(b) <= SendD /\ b \notin hidden
  /\ b \in loaded \cup OnDisk \/ Dist(b) <= GenD

\* What is within the send distance, in sight and obtainable is at the client
\* with its newest content in the end (but for the blocks excepted above), once
\* nothing disturbs any more: no block falls out of the search
\* (m_nearest_unsent_d, the pause, low priority events, the limits on sends and
\* on the emerge queue, blocks that cannot be had).
WantedArrives ==
  \A b \in Blocks :
    <>[](Wanted(b) => b \in known /\ (view[b] = world[b] \/ b \in astray))

=============================================================================
