# AirMinecraft in TLA+

AirMinecraft is a fork of Luanti (Minetest): a voxel game engine in C++ with a
server, a client, a reliable transport of its own over UDP, and a Lua
interface; the fork adds a drone mode to the client. This directory holds TLA+
models of its parts, TLC configurations that check them on small instances, and
proofs for TLAPS. Paths below are relative to `src/` of the repository's own
tree (`src/src/...` from the top).

    tlc -config MCPeerParts.cfg MCPeerParts # a run
    tlapm ReliableChannel_proofs.tla        # proofs

## The system

| Part | State it keeps | Operations | Talks to | What makes it correct |
|---|---|---|---|---|
| Packet buffer (`network/mtp/impl.cpp`, `internal.h`) | sorted list of packets | insert, popFirst, popSeqnum | the channel that owns it | sorted by age across the wrap, no loss, no duplicate |
| Reliable channel (`network/mtp`) | queued commands, queued packets, sent packets, next numbers, window | send, split, number, send, re-send, acknowledge, buffer, drain | two threads per process, UDP, `Connection` | exactly once, in order, everything in the end |
| Window control (`Channel::UpdateTimers`) | counters of a second | count, decide | send and receive thread | window within limits, reacts to loss |
| Split packets (`IncomingSplitBuffer`) | partial packets by number | insert, reassemble, time out | receive thread | only complete packets, never mixed |
| Peers (`Connection`, `Peer`, `PeerHelper`) | map of peers, use counts, pending deletion | create, look up, use, drop, time out | send thread, receive thread, program | no use after deletion, each peer reported once |
| Handshake (peer id, half-open) | our id, half-open flags | connect, assign id, disconnect, time out | both processes | both sides agree on the id |
| Client states (`server/clientiface.cpp`) | state of each client, blocks sent | events, queueing of blocks | protocol handlers, server step | legal order of states, blocks not lost |
| Protocol handlers (`network/*packethandler.cpp`) | - | one handler per opcode | server, client | opcodes only in their states |
| Emerge (`emerge.cpp`) | queue of blocks to load or generate, per-peer counts | enqueue, pop, finish, cancel | server threads, map generators | each request completed once |
| Map (`map.cpp`, `servermap.cpp`, `mapblock.cpp`) | blocks, reference counts, modified state | load, modify, save, unload | database, emerge, environment | no modification lost |
| Active objects (`serverenvironment.cpp`, `server/activeobjectmgr.cpp`) | active and static objects | activate, deactivate, step, remove | map, Lua | an object exists once |
| Inventories (`inventory.cpp`, `inventorymanager.cpp`) | stacks | move, craft, drop | client prediction, Lua | items conserved |
| Node timers (`nodetimer.cpp`) | ordered map of timers | set, remove, step | map blocks | every timer fires once |
| Mod channels, HTTP fetch, threads | tables, queues | join/leave/send, request/cancel/deliver | Lua, worker threads | deliveries match requests |
| Drone mode (`client/game.cpp`, `camera.cpp`, `localplayer.cpp`, `drone_hud.cpp`) | mode, camera view | toggle, cycle view | input, HUD | camera, physics and HUD agree |
| Mesh queue (`client/mesh_generator_thread.cpp`) | pending updates | add, pop, done | client, workers | newest data wins |
| Rendering, sound, GUI, noise, map generators, databases, Lua bindings | | | | not modelled: output, floating point, adapters |

`PROJECT.json` lists every part with its sources and its status, and every
hazard at its line.

### Where it is hard

The transport is where order, loss and concurrency meet: 16-bit numbers that
wrap, two threads in each process that touch the same lists, pings that overtake
queued packets, re-sends that race late ACKs, a window that shrinks while
packets are out, and limits (`MAX_RELIABLE_WINDOW_SIZE`,
`MAX_RELIABLE_WINDOW_SIZE_SEND`) that different pieces of code trust each other
to keep. Everything above it (login, map blocks, inventories, objects) assumes
an ordered exactly-once stream. That is why it came first.

Above it the difficulty is that one thing is kept in several places:

* a map block as the server's content, the server's idea of what a client has
  (`m_blocks_sent`, `m_blocks_sending`), datagrams of two channels that nothing
  orders, and the client's copy;
* a request for a block in `m_blocks_enqueued`, a thread's queue, and the job a
  thread has in hand, with two locks and Lua callbacks in between;
* a player as a peer, a `RemoteClient` in one of nine states, a `RemotePlayer`
  that outlives both, and a row of the player database;
* an entity as an active object, a static copy in a block, and that block's copy
  on the disk, moved by five timers that do not know of each other;
* a mesh as a queued update, a worker's job, and one of two result queues.

## What is modelled

What a module assumes of its constants is a named assumption in it, or a premise of its
theorems; `PROJECT.json` maps every definition to the lines it stands for.

| Module | Of the code | Kind |
|---|---|---|
| `SeqNum` | `seqnum_higher`, `seqnum_in_window`, increments of a `u16` | operators over a circle of `SeqMax + 1` numbers |
| `ReliableBufferOps` | `ReliablePacketBuffer` | operators on a sequence of numbers |
| `ReliableBuffer` | one buffer and its reader | state machine; implements `OrderedWindow` |
| `OrderedWindow` | what a buffer promises: a set of the numbers of one window | abstract specification |
| `ReliableChannel` | one reliable channel: the sender's `Channel`, the network, the receiver's `Channel` | state machine; implements `FifoChannel` |
| `FifoChannel` | what a channel promises: chunks come out as they went in | abstract specification |
| `WindowControl` | `Channel::UpdateTimers` and its counters | state machine, one step a second |
| `SplitBuffer` | `makeAutoSplitPacket`, `IncomingSplitBuffer` | state machine over a lossy network and a reliable stream |
| `PeerLifecycle` | `Peer`, `PeerHelper`, `createPeer`, `deletePeer`, the events, `~Connection` | state machine |
| `Handshake` | how a client gets its peer id: half-open peers, `SET_PEER_ID`, `fix_peer_id`, `RESEND_ONE` | state machine |
| `PlayerSession` | `RemoteClient::notifyEvent`, the login handlers, `emergePlayer`, saving and removing players | state machine |
| `BlockSend` | `RemoteClient::GetNextBlocks`, `SendBlocks`, map edits, and the client's side of it | state machine |
| `Emerge` | `EmergeManager`, `EmergeThread` | state machine of the server thread and its emerge threads |
| `MeshUpdate` | `MeshUpdateQueue`, `MeshUpdateWorkerThread`, `MeshUpdateManager` | state machine of the client's main thread and its workers |
| `ActiveObjects` | entities in `ServerEnvironment`, `StaticObjectList`, `ServerMap`'s unloading and saving | state machine of one thread's intervals |
| `*_proofs` | | theorems and proofs |
| `MC*` | | constants for TLC; `MCChannelParts`, `MCPeerParts`, `MCClientParts`, `MCWorldParts` and `MCLive` hold several parts side by side |

### ReliableChannel

One direction of one channel. A packet carries a number `seq` that wraps, and a
ghost `id`, its position in the stream, that no guard looks at and the
properties are about. The variables keep the names of the code:
`queuedCommands`, `queuedReliables`, `outgoingReliablesSent`, `nextOutgoing`,
`windowSize` of the sender's `Channel`; `nextIncoming`, `incomingReliables` and
`packetQueued` of the receiver and its thread; `network` holds the datagrams in
flight, data and ACKs; `submitted`, `numbered` and `delivered` record what was
handed in, numbered and processed. Each action is a whole step of one thread:
`SubmitNumbered` and `SubmitQueued` (`PutReliableSendCommand`),
`RunCommandQueues`, `SendQueued` (`sendPackets`), `Ping`, `Resend`
(`resendReliable`), `UpdateTimers`, `ReceiveAck`, `ReceiveData`
(`handlePacketType_Reliable` with its outcomes `ReceiveInTurn`, `ReceiveAhead`,
`ReceiveOutside`), `Unbuffer` and `Drained` (`checkIncomingBuffers` and the loop
of `receive`). Its bounds are `MaxStream`, `MaxPings` and `NetCapacity`.

Abstractions, and why they are sound for the properties:

* The queue between program and send thread, and the one that brings ACKs from
  the receive thread to the send thread, are FIFO; they only delay, and delay is
  what the network already has.
* Time is not modelled: any packet that was sent may be sent again at any
  moment, and the decision of `UpdateTimers` may be any of its steps.
* Allocating numbers and giving back the ones that are not needed is one step.
  Between them only ACKs are handled, which can only make more numbers available.
* A datagram leaves the network before `RecvWindow` newer packets are numbered
  (`StillInFlight`); numbers alone could not tell it from a new one.
* Not modelled here: datagrams that are malformed or contradict each other, and
  half-open peers, which are in `Handshake`.

### PeerLifecycle

The peers of a serving `Connection`, its send and its receive thread, and the
program's thread. An object has an id, a life (`unborn`, `live`, `freed`), a use
count and two flags; `peers` is the map. A thread is in its loop, possibly with
a `PeerHelper`, or in one of the three parts of deleting an object: telling the
program (`tell`), `Peer::Drop` (`drop`), and `delete this` (`free`), between
which other threads run. `condemned` is the list of ids that `runTimeouts` or
`sendPackets` collects in its loop and works off after it. `clients` is what
`Server::peerAdded` and `Server::deletingPeer` make of the events.

A helper taken below another one of the same thread is given up first and never
is the last user, so that a thread has one helper at most. Which peer has timed
out, and which packets wait, is left open: any peer may time out, any
disconnect may be put off. Random peer ids are a choice among all ids
(`ReuseIds = TRUE`) or all that were never given (`FALSE`).

### Handshake

One client and its server, from `connect()` on, and channel 0, which carries the
dummy packet of `connect()`, pings, what the program sends, and `SET_PEER_ID`.
Of each reliable packet of the client the model keeps where it is (`queued`,
`made` for a ping that is not filed yet, `sent`, `acked`) and which id its header
`carries`. The client's send thread takes the commands from `commands` between
`StartDraining` and `EndDraining` (the inner loop of
`ConnectionSendThread::run`), and sends in between; its receive thread takes a
`SET_PEER_ID` in two steps, `ReceiveSetPeerId` and `SetOwnPeerId`, because
packets are made with the old id until the second. The server's receive thread
tells five kinds of datagram apart (`FromNewcomer`, `FromHalfOpen`,
`FromOpenWithoutId`, `FromKnown`, `FromUnknown`); its send thread repeats
`SET_PEER_ID` or only counts it (`ServerResends`) and ends peers
(`HalfOpenTimesOut`, `OpenEnds`).

Abstractions: the order inside the channel is `ReliableChannel`'s, so `received`
is a set; sequence numbers do not wrap, for a handshake takes a few; commands of
the server take effect at once, for its queue only delays; ids count up, where
the code draws random ones; datagrams to the client are never dropped for want
of room, for there are few different ones; an open peer may end at any moment.
The client's own time-outs and `disconnect` are left out: they end the story.

### WindowControl and SplitBuffer

`ReliableChannel` lets the send window change at will; `WindowControl` is the
rule that the code has for it, in exact integers. One `UpdateTimers` is one second;
`Count` is what came in during it. The ghost `silent` counts seconds without an
acknowledgement.

`SplitBuffer` sends packets too long for a datagram. Unreliable chunks may be
lost, doubled (`MaxCopies`) and reordered; reliable ones arrive in order, as
`ReliableChannel` shows, but take their split numbers from the same counter and
lie in the same `m_buf`; a reliable packet for which the channel has no numbers is
put back and cut again under the next split number (`PutBack`). Time is in ticks (`Tick` is `runTimeouts`). Its one
assumption on the traffic is `Free`: a number is not used again while chunks
under it are in flight or an abandoned entry has not timed out. The code does not
check it; 65536 split packets within the 30 s of a time-out would break it.

### PlayerSession

Packets are handled one at a time under the environment lock, so that each
handler is one action, and what the packets say is chosen freely: the names, and
whether what is checked only syntactically is acceptable. `con` is the connection
that `PeerLifecycle` describes; `m_clients` the `RemoteClient`s with the state
that `notifyEvent` keeps; `m_players` the sequence of `RemotePlayer`s, which
matters because `getPlayer` stops at the first one of a name; `password` the auth
database, `database` the player database, `latest` the ghost that the latter is
compared with. A player whose client has gone keeps its place in `m_players`
until `RemoveObject`. Left out: privileges, bans, media and definitions, the
SRP arithmetic (a proof is right, wrong or of the wrong length), mods that log
clients out at arbitrary places other than `Kick`.

### BlockSend

One client and the blocks on a line. `GetNextBlocks` is taken whole: where the
scan starts, how many cubes it takes, which blocks it passes over and why
(sending, sent, occluded, culled, not generated), where it breaks off, what it
leaves in `m_nearest_unsent_d` and whether it pauses. The content of a block is
the set of the edits applied to it, so that a node change adds one edit, a whole
block replaces all, and "newest" can be said. `chan2` and `chan0` are ordered
each and not with one another. The client applies what arrives, acknowledges a
block after its mesh is made (`AckBlock`; `MeshUpdate` shows that each block is
acknowledged once and that no update is left waiting), unloads blocks and tells the
server so.

`Predict` is a player who points at a node in block `under` through the air in block
`above` and digs it, or places a node in one of the two; the client changes the node at
once. `HandleInteract` is the server's answer. Where it carries the action out, both
blocks, one or none are taken out of the books, depending on the prediction and on what
is on the wire (`AfterDigging`, `AfterPlacing`). Where it refuses, each way out of
`handleCommand_Interact` leaves its own blocks booked (`RefusedBooks`): none taken out
for an item out of range, only `under` for a dead or too distant player, whatever
the action, only `above` for one who may not interact, and so on. The history variable
`astray` has the blocks that may differ at the client although they stay booked: those
in which a refused node was left, and those that a node change overtook on the wire;
the next copy that is sent takes them out.

A scenario says which blocks there are, where the player stands, and how many edits,
unloads, disturbances (a move, a restart of the search, other clients that use up the
budget) and mods' blocks there may be. Left out: blocks of air and `d_opt`, the cone
of sight, unloading on the server, exact timers.

### Emerge

The server thread asks for blocks (`enqueueBlockEmergeEx`) and finally stops the
threads; each `EmergeThread` is in one of a dozen places. The environment lock and
the queue mutex are variables only where a thread waits for one of them holding the
other; steps that take one and give it back are atomic. A request with a callback
is a number and `answers` records what it was told. Callbacks may ask for more
blocks, as a mod's `core.emerge_area` does. A scenario says whether they do,
for which blocks, and whether the server shuts down. Left out: fatal errors (the
server stops), the unloading of blocks, blocks at a chunk's border, `on_generated`
as distinct from a callback. A chunk over the map generator's limits
(`OverMapgenLimit`) is refused after it was inserted into `m_chunks_in_progress`, and
stays there.

### MeshUpdate

The main thread changes the map (`BlockData`, `ChangeNode`) and calls `addBlock`
for the block and the blocks around it, one by one (`AddBlock`), wakes the workers
(`DeferUpdate`) and later takes the results. Workers `Pop`, `MakeMesh`, put the
result in one of two queues, and are `Done`. A mesh is which version of each block
its maker saw; a block of air has none. The two places in which updates are lost
or overtaken, `m_urgents` and the two result queues, are the code's. Left out:
`client_mesh_chunk` above 1, the six-neighbour variant, crack overlays, and what a worker
sees of a block that the main thread is just writing; `clear()`, which only the
destructor's path calls.

### ActiveObjects

Everything happens in the server's thread, interval after interval, so that each
interval of `ServerEnvironment::step` is an action over all objects or blocks.
The entities are active in `objs`, with a copy under their id in `active` of a block
of `map`, or in `stored` of a block; blocks go to `disk` when the map is saved
or the block is unloaded, if their `modified` says so. A block counts how many
updates it has been without use (`idle`). `fate` is the ghost that
says what ought to have become of each entity: it is `there` once a mod has added it,
and `removed` once a mod has removed or cleared it, or it had no static data when it was
deactivated. Three fates are the code's own doing and not a mod's: `dropped` (its block has no
room or too many objects), `swept` (added after the clearing that takes it away),
`revived` (the server stops before a removal is carried out). Of these `OneForm` says
only that the entity is not there twice; that two of them contradict a doc, and that the
limit behind `dropped` is not kept, is what the `MCEntity*` configurations show. The loops over objects (`EachObject`)
are functions over ids, and the blocks of one update are activated together: what is
stored in them is matched to ids that are free (`ToActivate`, `ActivateBlocks`), any of
which the code's counter may be at. Assumption of `world`
(`Parting = FALSE`): no block is unloaded while active objects have their
copies in it; `entity_twice` shows what happens without. `removeRemovedObjects` may
run at any time between two updates of the active blocks, where the code does it
every half second. Left out: players' objects (`PlayerSession`), attachments, object
steps and Lua other than as the choice of what to call, the refresh of timestamps of
active blocks every 60 s.

### Composition

`ReliableChannel` is stated with the operators of `ReliableBuffer`; it uses a
window that `WindowControl` explains, and `SplitBuffer` and `BlockSend` take its
result, an ordered exactly-once stream, as their reliable channel. `PeerLifecycle`
makes and removes the peers that `PlayerSession` calls `con`, `Handshake` how
both ends agree on a peer's id. `Emerge`'s promise that every request is
answered is the fairness of `EmergeDone` in `BlockSend`, `MeshUpdate`'s that each
block is acknowledged that of `AckBlock`.

Parts that share no state are checked side by side: `MCChannelParts`, `MCPeerParts`,
`MCClientParts`, `MCWorldParts` and `MCLive` start all of theirs, choose one
(`running` or `part`), and let only that one move. The numbers of states add up and
do not multiply, and a property of a part is checked as if it ran alone. Each of
these modules extends a part about which theorems are proved, so that run and
theorem speak of the same definition; `WindowControl`, whose limits are not those of
the small channel beside it, is instantiated. In `MCLive` and `MCClientParts` each liveness
property has its own module's fairness as a premise, so that no part lends another
its fairness.

## What TLC checks

| Run | Instance | Distinct states | Shows |
|---|---|---|---|
| `channel` (`MCChannelParts`) | channel: window 5 of 10 numbers, start at 8; send window 1-2; commands of 1 or 2 chunks and a ping, 6 packets; 2 datagrams. Buffer: every base of the 10 numbers. Window: 32 to 2048. Split: 2 numbers, 3 packets of 2 or 3 chunks | 2 784 835 | in order and exactly once, nothing forgotten, honest ACKs, no stall, how far the backlog gets, over loss, duplication and reordering; the buffer implements `OrderedWindow`; the window does not grow in silence; whole packets only, reliable ones all |
| `live` (`MCLive`) | channel: window 7 of 14, send window 4, 4 packets, 1 datagram; handshake: one peer, one packet; peers: one | 49 137 | the channel implements `FifoChannel`; all arrives and is acknowledged; no peer stays half-open, an open one acknowledges; a peer is freed and a disconnect comes back |
| `peers` (`MCPeerParts`) | peers: two, ids reused; handshake: two peers for one client, two packets, two datagrams to the server | 2 866 030 | no use after free, no leak, the program follows; both sides mean the same id, every packet gets it, the first peer has what it acknowledged |
| `emerge` | two threads, four blocks in three chunks (one of them over the mapgen limit), 3 requests or 2 and a shutdown | 265 236 | queues and entries agree; one generator per chunk; each request answered once, truly, in the end; the threads stop |
| `clients` (`MCClientParts`) | login: three clients, one place, one name or two; blocks: 0, 2 and 3, at most two of them in each of six scenarios | 315 073 | clients have players, the limit, no name registered twice, one player of a name, saved as left; a block counted as sent is the newest or on its way, unless it was overtaken or a refused node left in it; every wanted block arrives |
| `world` (`MCWorldParts`) | meshes: two blocks side by side, one of air; two workers, two changes, one unload. Entities: two, two blocks, two ids | 1 110 406 | each block acknowledged once, the newest mesh shown, no update left asleep; no entity is there twice, one that was added is there, one that was removed is not; what is settled is on the disk |
| `handshake_stall` | two peers, two packets, one datagram | violation | what a half-open peer acknowledged is lost with it |
| `block_stale` | one block, two edits | violation | a node change overtakes the block it changes |
| `emerge_stop` | a mod asks in its callbacks during a shutdown | violation | the shutdown does not return |
| `player_twice` | three clients of one name | violation | two of them are in the game at once |
| `entity_twice` | `world`'s entities with `Parting = TRUE` | violation | an entity is stored twice |
| `block_revert` | two blocks side by side, one prediction | violation | a refusal sends the wrong block again |

The number circle is scaled down with its proportions kept: in the code the
circle has 65536 numbers, the receive window is half of it (`0x8000`), the send
window 32 to 2048 and the first number is 65500. The instances start a few
numbers before the wrap, so that every run crosses it, and use a receive window
of half the circle. Two datagrams in flight are enough for a duplicate, for one
that overtakes another and for an ACK that crosses a re-sent packet; a
datagram that meets a much later state stays in flight while others are lost and
sent again. `channel`'s backlog stays below 5 (`BacklogBounded`), which is its
receive window: the premise of the channel's theorems holds there.

Two peers are the least with which one can be created while another one is being
deleted; a peer's own life does not depend on others, which is why liveness is
checked with one. Two packets are the least with which one can be on the wire and
one queued, or one acknowledged and one not. Where time matters (`handshake_stall`,
`live`) a half-open peer lives for one tick, in `peers` it may end at once,
which allows strictly more. With two split numbers a number is used again after one
packet; sizes of two and of three chunks make entries that do not fit each
other. Three clients are the least of which two can race while the player of a
third is still being removed. Two blocks at distances 0 and 3 are the
least that lie in different cubes of one scan, of which one is near enough for node
changes. Blocks 2 and 3 are side by side, which is the border that a placed node
needs; and with the player at 0, block 2 is missing and beyond `GenD`, so that the
search is held at it while the block behind it is still to be sent. `GenD` is less than
`SendD`, as the defaults are, and block 3 is within a pass of block 2; `MCBlockStuck.cfg` is the
case in which it is not. Clients are alike and so are entities and their blocks, which is used as
symmetry; no permutation of clients changes a state of `clients`' blocks, so that
`EventuallySent` is checked as without it. Two emerge threads are the least that can meet at a chunk, and three
blocks in two chunks the least with both a shared and an own one; the fourth one is over
the limits of the map generator. Two workers and two
changes of one block are the least with which one mesh overtakes another. With
two ids and two entities an id is free or not when a block becomes active, and a
deactivated object's id may go to another entity; `MaxStored` is small enough for a block to be
full; `MaxCalls` bounds entities added and calls of `clearObjects` together, as
its effect on an empty world is known.

`CHECK_DEADLOCK FALSE` stands where a model ends on purpose: a bounded stream
is delivered, a connection or the server is shut down, bounded requests are
answered. Where the end is not on purpose a liveness property asks for the
progress (`EveryoneAnswered`, `StopReturns`, `EventuallySent`).

### Fairness

`ReliableChannel`: the send thread wakes at least every 50 ms and then runs its
command queues and sends what the window allows, the receive thread loops on its
buffers: weak fairness of `RunCommandQueues`, `SendQueued`, `Unbuffer`,
`Drained`. The oldest packet that is not acknowledged is re-sent again and again
(`getResend` has no limit on repetitions), and the network does not lose every
one of infinitely many: strong fairness of re-sending it, of its arrival, of its
ACK's arrival, and of datagrams leaving the network.

`PeerLifecycle`: a thread that deletes goes on, and a thread gives up its helper
(weak); the send thread visits each peer of the map and looks at its flag again
and again, works off its list, and the program keeps receiving (strong, because
the other steps of the same thread come between). Strong fairness of `Sweep`
says that a peer's unreliable packets do not wait for ever.

`Handshake`: the threads of both sides go on, and time passes for a half-open
peer (weak). The oldest packet not acknowledged is re-sent again and again, some
copy of it and some ACK get through, and both receive threads keep reading
(strong). What lets `OpenAcknowledges` speak of a peer that stays open is its
premise, not fairness.

`Emerge`: each thread takes its next step unless it waits for a lock or its event
(weak), and so does the server thread in its signalling and in `stopThreads`. A lock
is held for a bounded number of steps of its owner only, so weak fairness of the owner
frees it; nothing is assumed of which of two waiting threads gets it first.

`BlockSend`: the server's step sends blocks and map edits, its pause runs out,
it handles what arrives; the client handles what arrives and acknowledges; emerge
threads finish (all weak). Edits, moves, unloading and mods' blocks are not fair.

### Disagreements

* `handshake_stall`. `internal.h:80` promises delivery of all reliable packets,
  forced by ACKs. A half-open peer acknowledges what the client sends. If
  `SET_PEER_ID` and all its reminders are lost until that peer is deleted, the next
  packet makes a new one, which expects sequence numbers from the first one again;
  the client has dropped these. The time a half-open peer has is shorter than the
  time a client keeps trying to connect, and `Client::step` sends `TOSERVER_INIT`
  every 1.5 s.
* `block_stale`. `serveropcodes.cpp:108` requires packets that operate on the same
  objects to be on one channel; blocks go on channel 2, node changes on channel 0.
  A block that is on its way a second time, after the first copy was
  acknowledged, is overtaken by a node change and replaces what that did. The
  client keeps the old node until the block is sent again for another reason.
* `emerge_stop`. `server.cpp:378` finishes the map generation's callbacks before the
  shutdown callbacks. `cancelPendingItems` runs callbacks with the queue mutex
  locked, and a callback that calls `core.emerge_area` locks it again, or waits for
  a thread that does. The shutdown hangs.
* `player_twice`. `serverpackethandler.cpp:1469` says that of several connections
  of one name one only comes to have a player. `getPlayer(name)` gives up at the first
  player of the name when that one has left and waits for its removal, and lets the
  second and the third client in. `OnePlayerUnlessLeaving` in `clients` is what holds:
  that is the only way.
* `entity_twice`. `test_sao.cpp:258` says that a block unloaded under an active object
  is a matter of `static_save = false` in practice. A mod that adds an entity to a
  loaded block about to be unloaded gets it stored twice.
* `block_revert`. `serverpackethandler.cpp:926` and `1016` re-send a block "to revert
  change on client-side", always that of the node pointed at. A placed node is
  predicted in the block above; if a dead or too distant player places one at the
  border of two blocks, the wrong block is sent and the phantom node stays.

More disagreements are left to configurations of their own, each of which TLC finds violated:

* `MCBlockStuck.cfg`. `settingtypes.txt:2311` says from how far blocks are sent. A missing
  block beyond `max_block_generate_distance` is queued in every pass and becomes
  `nearest_emerged_d` each time (`clientiface.cpp:366-391`), so that no pass gets more
  than two cubes beyond it. The defaults, 10 and 12, are just within; Android's 5
  and 12 are not.
* `MCWindowShrinks.cfg`. `impl.cpp:768` counts packets that come too late as congestion, like
  packet loss. The ratio of losses to successes is a division of integers, so
  that it is 0 until as much is lost as comes through: with a fifth of the packets
  lost the window grows. Of the thresholds 0.01, 0.05, 0.1 and 0.15 only the first and
  the last are ever told apart.
* `MCEntityRevived.cfg`. `serveractiveobject.h:258` says that a removal takes priority over a
  deactivation. `deactivateFarObjects(true)` at a shutdown saves an object whose removal has not
  been carried out, and it is back afterwards.
* `MCEntitySwept.cfg`. `lua_api.md:7055` says that the quick mode clears the objects of unloaded
  blocks when these are next activated. It clears what is stored there by then, with
  the entities that came to the block since (`serverenvironment.cpp:559-565`).
* `MCEntityLimit.cfg`. `settingtypes.txt:2325` speaks of a maximum number of stored objects.
  `storeActiveObject` (`mapblock.cpp:661`) does not look at it, and `onObjectsActivation` then
  deletes all objects of the block.

Two more can be seen by changing a constant of a run:

* `internal.h:80` again: with `ChunkCounts` up to `RecvWindow - 1` in
  `MCChannelParts.cfg` and a send window of 4 to 6, `NothingLost` is violated.
  `getOutgoingSequenceNumber` gives any quantity of numbers while nothing is on the
  wire, although numbered packets may wait in `queued_reliables`;
  `ReliablePacketBuffer::insert` then refuses the oldest one, which is sent
  unfiled and never re-sent. It takes a command of about 16 MB.
* `impl.cpp:1639` says that `SetPeerID` fixes the id "in existing queued reliable
  packets"; `fix_peer_id` reaches `outgoing_reliables_sent` only. With
  `SendsEarly = TRUE` in `MCPeerParts.cfg`, `NoneWithoutId` is violated: it takes a program that
  sends reliably before `Connected()`.

### What else the modelling showed

These are facts of the code that no doc contradicts, for whoever changes it.

* Window: with no success at all in a second the losses, which are clipped to the
  successes, are 0, and the branch of `-10` is never taken; the window still grows for
  up to 11 s of silence, until `current_bytes_transfered` is reset. `NoGrowthInSilence` proves that it is not longer.
* Peers: `peerhandler.h` says that `deletingPeer` is called before the peer is
  removed from the container; `deletePeer` always removes it first. `deletePeer` puts
  its event after it has released the mutex under which `createPeer` puts its one: a new
  peer with the same random id can be reported first, and the removed event then takes
  the client from it. `ProgramFollows` leaves that case out.
* Login: a player that joins before the object of the name's last player is
  removed gets the data saved before, and the removal then overwrites what it saves;
  `ComesBackAsLeft` leaves that case out. The comment in `emergePlayer`
  (`server.cpp:4220-4225`) on a `RemoteClient` freed last does not fit `DeleteClient`.
* Blocks: `m_blocks_occ`, the blocks found to be occluded, is cleared only in a pass
  after which the search begins elsewhere (`clientiface.cpp:406-411`): it is never
  cleared while a missing block holds the search, nor when the sending distance is at most 2.
* Emerge: blocks over the limits are dropped from the queue with their callbacks; a
  chunk over the map generator's limits that `initBlockMake` refuses stays in
  `m_chunks_in_progress` (its answer is the same for that); a request that an `on_shutdown`
  hook makes is never answered. `EveryoneAnswered` speaks of the others.
* Meshes: an urgent result is taken before an older one that is not urgent, which
  then replaces it; `NewestMesh` leaves that case out. `clear(false)` would forget blocks a worker
  has in hand, but only `clearAllQueues(true)` is ever called (`client.cpp:405`).
* Objects: an object dropped because the block is full, whose data has not changed,
  does not mark its old block, and is there again after a restart.
  `setStaticForActiveObjectsInBlock` after `delete_area` has no effect
  (`l_env.cpp:1177`). `server_unload_unused_data_timeout` below 2.92 s unloads
  active blocks. An entity stored by `removeRemovedObjects` in a block that has
  become active again sleeps until the next activation. A crash between the save
  of an unloaded block and the next save may double an entity that moved. When ids run
  out stored objects are lost. `lua_api.md` says that `clear_objects` is full by default,
  `l_clear_objects` (`l_env.cpp:1032`) takes the quick mode.

## What is proved

All theorems are proved for every value of the constants within the named
assumptions, whatever the bounds on stream, network and number of peers. A theorem
that needs more than a module assumes names it as its premise: `WindowConstants`,
`SplitConstants`, `SessionConstants`, `BlockConstants`, `MeshConstants` and
`EntityConstants` say what kind of values the constants have, `BacklogLimit < RecvWindow`,
`~SendsEarly` and the last line of `SplitConstants` what use is made of a channel, `~Parting` that no block is unloaded
under an object.

* `ReliableChannel_proofs`, the packet buffer: numbers of positions less than a circle apart differ;
  `seqnum_in_window` is circular distance; outside of the window a number is newer
  or older, never both; `insert` keeps the list sorted and adds exactly the
  packet; `popSeqnum` removes exactly it. From these lemmas, for a buffer in use: its
  list is always sorted by distance from the number its user waits for
  (`BufferIsSorted`), and seen as a set each of its steps is a step of `OrderedWindow`
  or a stutter (`BufferIsWindow`). The invariant needs the distances to be less than the
  window as well: a number that has come around would sort before the base.
* `ReliableChannel_proofs`, the channel: type correctness without a premise. The inductive
  invariant `IInv` joins what the numbers stand for (`NumbersMatch`), where each
  list may have packets (`PositionsInRange`), what an ACK or a buffered packet
  implies (`AcksAreHonest`), and the properties themselves. In-order delivery alone
  is not inductive: a number identifies a position only while all positions in
  play lie in one window, and a late ACK is harmless only because the receiver
  has what it names. `IInv` is preserved as long as the sender's backlog (from the
  oldest packet not acknowledged to the newest numbered) fits the receive window,
  `WithinWindow`. The code does not guarantee that, as commands of the largest size
  show (under Disagreements); for windows, commands and pings whose `BacklogLimit`
  is less than the receive window it does: `BacklogInv`, which says how far the
  allocator has got for each of its callers, is inductive together with `IInv`
  (`BacklogIsBounded`). So `BacklogBounded`, in-order delivery, that nothing is
  lost, honest ACKs and no stall have a premise on constants alone. From the same
  invariant `ChannelIsFifo`: each step of the channel is a step of `FifoChannel` or
  a stutter, where what a command is cut into is taken from the queue and numbered
  without a change to what was handed in.
* `PeerLifecycle_proofs`: `PeerInv` is inductive, without a premise, for any
  number of peers and with ids reused or not; it yields `NoUseAfterFree`,
  `NothingLeaks` and that no use count goes below zero. What makes it inductive:
  the count is the number of threads with a helper, nothing in the map is
  flagged or being deleted, and flag, count and stage of a deleting thread
  belong together, which is what makes the two places that decide to delete
  (`Drop` and `DecUseCount`) exclude each other. `ProgramFollows` (the program's
  clients, once it has handled the events that wait, are the peers of the map) is
  inductive on top of it. It needs no induction over the queue: an event changes one
  peer's client only, so what the queue will leave of an id is said by whether it holds
  a removed event and an added event of it, as long as the id was given once.
* `Handshake_proofs`: `HandshakeInv` is inductive without a premise. That an
  open peer means agreement is not inductive alone: it needs that no datagram and
  no packet carries an id other than the one the client has, which needs that
  the client takes one id in its life. `NoneWithoutId` is proved from
  `~SendsEarly`, over which packets a pass over the command queue can leave
  behind; `FirstPeerLosesNothing` from what an ACK in flight implies.
* `ChannelParts_proofs`, the window: `WindowInv` (types and limits, and that the bytes
  of a period are forgotten when the silence is eleven seconds old) is inductive for any
  limits, packet sizes and counts; it yields that the window stays within its
  limits, and `SilenceStopsGrowth`.
* `ChannelParts_proofs`, the split packets: `SplitInv` is inductive for any circle of
  numbers, chunk size, data and number of packets. A number tells a packet only
  while all chunks under it that are on their way or in `m_buf` are of one packet
  (`OneOwner`). What keeps that true when a number is taken again is time: a chunk on its
  way is at least as old as its number (`NetworkInv`), and an entry of an unreliable
  packet has waited so long that, with the chunk that opened it, it is not younger
  than its number (`BufferInv`). That reliable packets are not disturbed needs that a
  reliable entry is that of the packet whose turn it is and holds the chunks before the
  next one (`ReliableEntries`). Numbers used up by packets that are put back change
  nothing: no chunk was sent under them. It yields `WholePackets`, with the arithmetic of
  `makeSplitPacket` (`ChunksAreTheData`: no gap, no overlap, for any sizes), and
  `ReliableComeOut`. The premise `SplitConstants` has
  `Lifetime + Timeout <= ReuseTime`: like `Free`, it says what the traffic is, not what
  the code checks.
* `Emerge_proofs`: `EmergeInv` is inductive for any number of threads, blocks,
  chunks and requests. That a request is answered once is not inductive alone: one
  must know that it is at one place only while it waits (`HeldOnce`), which needs that a
  block is in one queue only and once (`QueuedOnce`, `QueuedAreEnqueued`), and that a
  request is traceable to the block it asked for (`Traceable`). `OneGenerator` and
  `HonestAnswers` need what each place of a thread says of its job (`JobsInStage`)
  and who holds a lock (`Turns`). `QueuesAgree` has an invariant of its own: what has an
  entry is queued (`EnqueuedAreQueued`), and a peer's count is the size of the set of
  its entries (`PeersCounted`); a push and a pop change that set by one. It needs at
  least one thread, which `initThreads` sees to
  (`emerge.cpp:220`), and finitely many blocks.

* `ClientParts_proofs`, login: `SessionInv` is inductive for any finite set of clients, any
  names and settings: types; that a client which has a name is connected or about to
  be removed (`ClientsKnown`); that each client in the game has the one player with
  its peer, and each player with a peer such a client (`HavePlayers`); the limit; and
  where the newest data of a name is, in its player or in the database (`DataKept`).
  It yields `ClientsHavePlayers`, `UserLimit`, `ComesBackAsLeft`; `RegisteredOnce` and
  `OnePlayerUnlessLeaving` are action properties of each step from it. The limit
  counts clients in a state of the join process, not players, and is asked for in one
  handler and relied on in a later one: the proof shows that no handler between moves
  a client into the count.
* `ClientParts_proofs`, blocks: `SendInv` is inductive for any blocks, positions, limits and
  scenarios; `BlockConstants` only says that the send distance is a natural.
  It yields `NewestUnlessAstray`, from which the blocks in `astray` are excepted. That what is
  counted as sent is the newest is not inductive alone, since it says nothing of a block
  for which something is under way. `BookedArrive` says it of every block that
  nothing doubts: what will be there when all has arrived is the content of the
  server, but for the changes that still wait in the queue and those that the client
  has made on its own and the server has not answered. A change that goes out to a
  client which has not got the block yet is the difficulty: the copy on the wire must have it
  already (`CopiesHaveChanges`), or be overtaken by it. `GetNextBlocks` and the
  queue of edits are loops over a list; that what is selected is loaded and that each
  event either puts its change out or takes its block out of the books is shown by
  induction over the list. Without the operators of the library's induction theorems
  that is done with a set: the numbers up to which it holds (`SetInduction`).
* `MeshUpdate_proofs`: `MeshInv` is inductive for any blocks, any symmetric and finite
  relation of neighbours and at least one worker. `QueueIsServed` needs where each
  worker stands and which semaphores are up. `NewestMesh` needs, for each block, that
  as long as no call that would replace it is owed, the update in the queue, with a worker
  or among the results, or else the mesh that is shown, fits the map (`Fresh`).
  `AckedOnce` needs that each version that came from the server is at exactly one of
  six places: the calls to make, the queue, the workers' jobs, the two queues of results,
  or acknowledged (`Acknowledged`).

* `ActiveObjects_proofs`: `ObjectsInv` is inductive for any blocks, entities, ids and
  limits, as long as blocks are not unloaded under objects (`~Parting` in
  `EntityConstants`; with `Parting`, `OneForm` is false, as `entity_twice` shows). It is said of
  any objects, map, fates and disk (`Between`, `Consistent`, `Fits`), because the
  calls of one step work on worlds that are no states. Of each entity it says four
  things: it is one object at most, which has its one copy in the block it names and
  nothing stored (`OneObject`); else it is stored in one block, once (`StoredOnce`); what
  its fate asks for, unless the code has dropped, swept or revived it (`AsFated`); and a block that need not be written is on the disk as it
  is (`OnDiskToo`). `OneForm` alone is not inductive: an object that is to be removed
  and to be deactivated must have lost its copy, or that copy would be a form of what is
  gone; an active block must be loaded and not be older than the last `clearObjects`, or
  the new time stamp it gets when it is no longer active would bring back what that call
  cleared. `SavedWhenSettled` needs where the disk
  may have an entity at all: only in the block where its object says, even while
  other blocks wait to be written. Each call is shown to do to one entity what
  its own lemma says and to leave the others alone (`Undisturbed`), the loops keep
  that by induction over ids, and activation by the bijection between what is
  stored and the ids it gets.

Only model-checked: all liveness, which is beyond the prover, as is `ENABLED`; and the
disagreements, which are counterexamples.

## Plan

Done: `SeqNum`, `ReliableBuffer` over `OrderedWindow`, `ReliableChannel` over
`FifoChannel`, `SplitBuffer`, `WindowControl`, `PeerLifecycle`, `Handshake`, `Emerge`,
`PlayerSession`, `BlockSend`, `MeshUpdate` and `ActiveObjects`, each with its proofs. Every
invariant that a passing run checks is a theorem.

Modules to write, the most important first:

| Module | Of the code | What is promised | Instance |
|---|---|---|---|
| `Inventory` | `IMoveAction::apply`, `InventoryList::moveItem`, `moveItemSomewhere` | items conserved, and what the callbacks allowed is what moves | 2 lists of 2 slots |
| `NodeTimers` | `NodeTimerList` | both maps agree; a timer fires once, not before its time | 3 positions |
| `ModChannels`, `HttpFetch` | join, leave and send; caller ids and results | a message to those who joined; a result only to the caller that asked and is still there | 2 peers; 2 callers |
| `DroneMode` | toggles and camera views of `client/game.cpp` | mode, camera and physics agree after any order of keys | all modes |

## Not modelled

Rendering, sound, GUI, noise, map generators and lighting are floating point, output
or loops over voxels, in which no order of steps matters; databases, sockets,
settings and the Lua bindings are adapters; `lib/` is vendored. These are most of the
tree, so that the models cover a small share of its lines. `PROJECT.json` names every
part with its reason.
