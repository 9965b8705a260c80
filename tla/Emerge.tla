------------------------------- MODULE Emerge -------------------------------
(***************************************************************************)
(* The emerge queue of the server (emerge.cpp): EmergeManager, which takes *)
(* requests for map blocks, and the EmergeThreads, which get the blocks    *)
(* from memory, from disk or from the map generator and answer.            *)
(*                                                                         *)
(* Two mutexes matter: the environment lock, which the server thread holds *)
(* while it asks for blocks and a thread while it touches the map or is in *)
(* a Lua callback, and the queue mutex.  A step that takes a lock and      *)
(* gives it back without waiting for the other one is one action here; the *)
(* owner of a lock is kept where a thread waits for one with the other in  *)
(* hand.                                                                   *)
(***************************************************************************)
EXTENDS Naturals, FiniteSets, Sequences, SequencesExt

CONSTANTS
  Blocks,
  ChunkOf,          \* the chunk that a block is generated with
  OverLimit,        \* the blocks for which blockpos_over_max_limit() holds
  OnDisk,           \* the generated blocks of the database
  OverMapgenLimit,  \* the chunks that are not fully inside the mapgen limits
  NThreads,         \* m_threads.size()
  Peers,
  None,             \* PEER_ID_INEXISTENT; nobody
  QTotal, QGen, QDisk,  \* m_qlimit_total, _generate, _diskonly
  Scenarios,        \* [asks, stops, requests, blocks]: whether Lua callbacks ask for
                    \* further blocks, whether the server is shut down, and how many
                    \* requests are made for which blocks (bounds of the model)
  Kinds,            \* [peer, gen, callback]: the requests the server makes
  MaxRequests       \* the largest of these bounds

ASSUME EmergeAssumption ==
  /\ NThreads \in Nat \ {0} /\ MaxRequests \in Nat /\ None \notin Nat
  /\ IsFiniteSet(Blocks) /\ OnDisk \subseteq Blocks
  /\ Scenarios \subseteq [asks : BOOLEAN, stops : BOOLEAN, requests : 0 .. MaxRequests,
                          blocks : SUBSET Blocks]
  /\ Kinds \subseteq [peer : Peers \cup {None}, gen : BOOLEAN, callback : BOOLEAN]

Threads == 1 .. NThreads
Server == 0            \* as the owner of the environment lock
Requests == 1 .. MaxRequests
Answers == {"FROM_MEMORY", "FROM_DISK", "GENERATED", "CANCELLED"}

VARIABLES
  m_blocks_enqueued,   \* block -> [gen, peer, callbacks]
  m_peer_queue_count,
  m_block_queue,       \* per thread
  m_queue_event,       \* per thread: the event is signalled
  m_request_stop,      \* per thread
  pc, job,             \* per thread: where it is, and with which block
  present, generated,  \* the map's blocks in memory; those that are complete
  m_chunks_in_progress,
  envLock, queueLock,  \* the owner
  server, toSignal,    \* where the server thread is; whom it has to signal
  stopping,            \* Server::~Server is in stopThreads()
  made,                \* number of requests made
  asked,               \* the blocks of the requests with a callback
  answers,             \* request with a callback -> its answers, in order
  scenario

queueVars == <<m_blocks_enqueued, m_peer_queue_count, m_block_queue>>
threadVars == <<m_queue_event, m_request_stop, pc, job>>
mapVars == <<present, generated, m_chunks_in_progress>>
lockVars == <<envLock, queueLock>>
serverVars == <<server, toSignal, stopping>>
requestVars == <<made, asked, answers>>
vars == <<queueVars, threadVars, mapVars, lockVars, serverVars, requestVars,
          scenario>>

NoJob == [block |-> None, gen |-> FALSE, callbacks |-> {},
          action |-> "CANCELLED", found |-> FALSE]

Init ==
  /\ m_blocks_enqueued = [b \in {} |-> None]
  /\ m_peer_queue_count = [p \in Peers \cup {None} |-> 0]
  /\ m_block_queue = [t \in Threads |-> <<>>]
  /\ m_queue_event = [t \in Threads |-> FALSE]
  /\ m_request_stop = [t \in Threads |-> FALSE]
  /\ pc = [t \in Threads |-> "loop"]
  /\ job = [t \in Threads |-> NoJob]
  /\ present = {} /\ generated = {} /\ m_chunks_in_progress = {}
  /\ envLock = None /\ queueLock = None
  /\ server = "idle" /\ toSignal = None /\ stopping = FALSE
  /\ made = 0 /\ asked = <<>> /\ answers = [r \in Requests |-> <<>>]
  /\ scenario \in Scenarios

-----------------------------------------------------------------------------
Enqueued == DOMAIN m_blocks_enqueued

\* pushBlockEmergeData: the limits on a request that is not forced.
MayQueue(peer, gen) ==
  /\ Cardinality(Enqueued) < QTotal
  /\ IF peer = None THEN 2 * m_peer_queue_count[None] < QTotal
     ELSE m_peer_queue_count[peer] < (IF gen THEN QGen ELSE QDisk)

\* getOptimalThread: the first thread with the fewest blocks queued.
OptimalThread ==
  Min({t \in Threads : \A u \in Threads :
         Len(m_block_queue[t]) <= Len(m_block_queue[u])})

\* Seeded fault: entry_already_exists is ignored.
PushAgain(b, peer, gen, callbacks) ==
  /\ m_blocks_enqueued' = [x \in Enqueued \cup {b} |->
       IF x # b THEN m_blocks_enqueued[x]
       ELSE IF b \in Enqueued
       THEN [m_blocks_enqueued[b] EXCEPT !.callbacks = @ \cup callbacks]
       ELSE [gen |-> gen, peer |-> peer, callbacks |-> callbacks]]
  /\ m_peer_queue_count' = [m_peer_queue_count EXCEPT ![peer] = @ + 1]
  /\ m_block_queue' = [m_block_queue EXCEPT ![OptimalThread] = Append(@, b)]

\* Seeded fault: a second callback replaces the first.
PushReplacing(b, peer, gen, callbacks) ==
  IF b \in Enqueued
  THEN /\ m_blocks_enqueued' = [m_blocks_enqueued EXCEPT
            ![b].gen = @ \/ gen, ![b].callbacks = callbacks]
       /\ UNCHANGED <<m_peer_queue_count, m_block_queue>>
  ELSE /\ m_blocks_enqueued' = [x \in Enqueued \cup {b} |->
            IF x = b
            THEN [gen |-> gen, peer |-> peer, callbacks |-> callbacks]
            ELSE m_blocks_enqueued[x]]
       /\ m_peer_queue_count' = [m_peer_queue_count EXCEPT ![peer] = @ + 1]
       /\ m_block_queue' =
            [m_block_queue EXCEPT ![OptimalThread] = Append(@, b)]

\* enqueueBlockEmergeEx on the queues: pushBlockEmergeData and, for a block
\* that was not queued, pushBlock.
Push(b, peer, gen, callbacks) ==
  IF b \in Enqueued
  THEN /\ m_blocks_enqueued' = [m_blocks_enqueued EXCEPT
            ![b].gen = @ \/ gen, ![b].callbacks = @ \cup callbacks]
       /\ UNCHANGED <<m_peer_queue_count, m_block_queue>>
  ELSE /\ m_blocks_enqueued' = [x \in Enqueued \cup {b} |->
            IF x = b
            THEN [gen |-> gen, peer |-> peer, callbacks |-> callbacks]
            ELSE m_blocks_enqueued[x]]
       /\ m_peer_queue_count' = [m_peer_queue_count EXCEPT ![peer] = @ + 1]
       /\ m_block_queue' =
            [m_block_queue EXCEPT ![OptimalThread] = Append(@, b)]

\* EmergeManager::enqueueBlockEmergeEx, called for a client by GetNextBlocks,
\* for nobody by ServerMap::getBlockOrEmerge, and with a callback, forced, by
\* core.emerge_area.  The server thread holds the environment lock, in its step
\* or a handler, and takes the queue mutex.
ServerAsks(b, peer, gen, callback) ==
  /\ ~stopping /\ server = "idle" /\ envLock = None /\ queueLock = None
  /\ made < scenario.requests /\ b \in scenario.blocks
  /\ made' = made + 1
  /\ asked' = IF callback THEN Append(asked, b) ELSE asked
  /\ IF callback \/ MayQueue(peer, gen)
     THEN Push(b, peer, gen, IF callback THEN {Len(asked')} ELSE {})
     ELSE UNCHANGED queueVars
  /\ IF Enqueued' = Enqueued
     THEN UNCHANGED <<server, toSignal, envLock>>
     ELSE /\ server' = "signalling" /\ toSignal' = OptimalThread
          /\ envLock' = Server
  /\ UNCHANGED <<threadVars, mapVars, queueLock, stopping, answers>>

\* Seeded fault: always the first thread is woken.
SignalFirst ==
  /\ server = "signalling"
  /\ m_queue_event' = [m_queue_event EXCEPT ![1] = TRUE]
  /\ server' = "idle" /\ toSignal' = None /\ envLock' = None
  /\ UNCHANGED <<queueVars, m_request_stop, pc, job, mapVars, queueLock,
                 stopping, requestVars>>

\* ... thread->signal(), after the queue mutex is released.
ServerSignals ==
  /\ server = "signalling"
  /\ m_queue_event' = [m_queue_event EXCEPT ![toSignal] = TRUE]
  /\ server' = "idle" /\ toSignal' = None /\ envLock' = None
  /\ UNCHANGED <<queueVars, m_request_stop, pc, job, mapVars, queueLock,
                 stopping, requestVars>>

\* Server::~Server: the server thread has ended, now the emerge threads are
\* told, one by one (EmergeManager::stopThreads).
StopThreads ==
  /\ scenario.stops /\ ~stopping /\ server = "idle"
  /\ stopping' = TRUE
  /\ UNCHANGED <<queueVars, threadVars, mapVars, lockVars, server, toSignal,
                 requestVars>>

\* Seeded fault: told to stop, but not woken.
StopUnsignalled(t) ==
  /\ stopping /\ ~m_request_stop[t]
  /\ m_request_stop' = [m_request_stop EXCEPT ![t] = TRUE]
  /\ UNCHANGED <<queueVars, m_queue_event, pc, job, mapVars, lockVars,
                 serverVars, requestVars>>

StopThread(t) ==
  /\ stopping /\ ~m_request_stop[t]
  /\ m_request_stop' = [m_request_stop EXCEPT ![t] = TRUE]
  /\ m_queue_event' = [m_queue_event EXCEPT ![t] = TRUE]
  /\ UNCHANGED <<queueVars, pc, job, mapVars, lockVars, serverVars,
                 requestVars>>

-----------------------------------------------------------------------------
Goto(t, place) == pc' = [pc EXCEPT ![t] = place]

\* popBlockEmergeData for the head of t's queue; the thread has the job next.
PopHead(t, next) ==
  LET head == Head(m_block_queue[t])
      data == m_blocks_enqueued[head]
  IN /\ m_block_queue' = [m_block_queue EXCEPT ![t] = Tail(@)]
     /\ m_blocks_enqueued' =
          [x \in Enqueued \ {head} |-> m_blocks_enqueued[x]]
     /\ m_peer_queue_count' =
          [m_peer_queue_count EXCEPT ![data.peer] = @ - 1]
     /\ job' = [job EXCEPT ![t] =
          IF next = "loop" THEN NoJob
          ELSE [NoJob EXCEPT !.block = head, !.gen = data.gen,
                             !.callbacks = data.callbacks]]
     /\ Goto(t, next)

\* EmergeThread::run, the head of the loop: stopRequested, popBlockEmerge.  A
\* block over the limit is dropped, with its callbacks.
Pop(t) ==
  /\ pc[t] = "loop" /\ ~m_request_stop[t]
  /\ queueLock = None /\ m_block_queue[t] # <<>>
  /\ PopHead(t, IF Head(m_block_queue[t]) \in OverLimit THEN "loop" ELSE "decide")
  /\ UNCHANGED <<m_queue_event, m_request_stop, mapVars, lockVars, serverVars,
                 requestVars>>

FindNothing(t) ==
  /\ pc[t] = "loop" /\ ~m_request_stop[t]
  /\ queueLock = None /\ m_block_queue[t] = <<>>
  /\ Goto(t, "wait")
  /\ UNCHANGED <<queueVars, m_queue_event, m_request_stop, job, mapVars,
                 lockVars, serverVars, requestVars>>

\* Event::wait
Wake(t) ==
  /\ pc[t] = "wait" /\ m_queue_event[t]
  /\ m_queue_event' = [m_queue_event EXCEPT ![t] = FALSE]
  /\ Goto(t, "loop")
  /\ UNCHANGED <<queueVars, m_request_stop, job, mapVars, lockVars, serverVars,
                 requestVars>>

\* getBlockOrStartGen is done with the block: action and *block.
Outcome(t, action) ==
  /\ job' = [job EXCEPT ![t].action = action,
                        ![t].found = job[t].block \in present']
  /\ Goto(t, "answer")

\* Seeded fault: two threads may generate one chunk.
StartGenAgain(t) ==
  LET chunk == ChunkOf[job[t].block]
      blocks == {b \in Blocks : ChunkOf[b] = chunk}
  IN IF job[t].gen
     THEN /\ m_chunks_in_progress' = m_chunks_in_progress \cup {chunk}
          /\ generated' = generated \cup ((blocks \ present) \cap OnDisk)
          /\ present' = present \cup blocks
          /\ Goto(t, "generate")
          /\ UNCHANGED job
     ELSE /\ UNCHANGED mapVars
          /\ Outcome(t, "CANCELLED")

\* ServerMap::initBlockMake: false when the chunk is in progress, or when it is
\* not inside the mapgen limits, in progress from then on; else its blocks are
\* loaded or created.
StartGen(t) ==
  LET chunk == ChunkOf[job[t].block]
      blocks == {b \in Blocks : ChunkOf[b] = chunk}
  IN IF job[t].gen /\ chunk \in OverMapgenLimit
     THEN /\ m_chunks_in_progress' = m_chunks_in_progress \cup {chunk}
          /\ UNCHANGED <<present, generated>>
          /\ Outcome(t, "CANCELLED")
     ELSE IF job[t].gen /\ chunk \notin m_chunks_in_progress
     THEN /\ m_chunks_in_progress' = m_chunks_in_progress \cup {chunk}
          /\ generated' = generated \cup ((blocks \ present) \cap OnDisk)
          /\ present' = present \cup blocks
          /\ Goto(t, "generate")
          /\ UNCHANGED job
     ELSE /\ UNCHANGED mapVars
          /\ Outcome(t, "CANCELLED")

\* Seeded fault: a block that is in memory will do, generated or not.
DecideHasty(t) ==
  /\ pc[t] = "decide" /\ envLock = None
  /\ IF job[t].block \in present
     THEN UNCHANGED mapVars /\ Outcome(t, "FROM_MEMORY")
     ELSE Goto(t, "redecide") /\ UNCHANGED <<job, mapVars>>
  /\ UNCHANGED <<queueVars, m_queue_event, m_request_stop, lockVars, serverVars,
                 requestVars>>

\* getBlockOrStartGen without data from the database.
Decide(t) ==
  /\ pc[t] = "decide" /\ envLock = None
  /\ IF job[t].block \in generated
     THEN UNCHANGED mapVars /\ Outcome(t, "FROM_MEMORY")
     ELSE IF job[t].block \in present THEN StartGen(t)
     ELSE Goto(t, "redecide") /\ UNCHANGED <<job, mapVars>>
  /\ UNCHANGED <<queueVars, m_queue_event, m_request_stop, lockVars, serverVars,
                 requestVars>>

\* getBlockOrStartGen with the data; somebody may have been faster.
Redecide(t) ==
  /\ pc[t] = "redecide" /\ envLock = None
  /\ IF job[t].block \in generated
     THEN UNCHANGED mapVars /\ Outcome(t, "FROM_MEMORY")
     ELSE IF job[t].block \in OnDisk \ present
     THEN /\ present' = present \cup {job[t].block}
          /\ generated' = generated \cup {job[t].block}
          /\ UNCHANGED m_chunks_in_progress
          /\ Outcome(t, "FROM_DISK")
     ELSE StartGen(t)
  /\ UNCHANGED <<queueVars, m_queue_event, m_request_stop, lockVars, serverVars,
                 requestVars>>

\* After makeChunk, which needs no lock: finishGen with
\* ServerMap::finishBlockMake and the on_generated callbacks.
FinishGen(t) ==
  /\ pc[t] = "generate" /\ envLock = None
  /\ LET chunk == ChunkOf[job[t].block]
     IN /\ generated' = generated \cup {b \in Blocks : ChunkOf[b] = chunk}
        /\ m_chunks_in_progress' = m_chunks_in_progress \ {chunk}
  /\ job' = [job EXCEPT ![t].action = "GENERATED", ![t].found = TRUE]
  /\ \/ Goto(t, "answer") /\ UNCHANGED <<envLock, made>>
     \/ /\ scenario.asks /\ made < scenario.requests /\ made' = made + 1
        /\ Goto(t, "ask") /\ envLock' = t
  /\ UNCHANGED <<queueVars, m_queue_event, m_request_stop, present, queueLock,
                 serverVars, asked, answers>>

\* runCompletionCallbacks and LuaEmergeAreaCallback, one callback; the mod may
\* ask again in it.
Callback(t, r) ==
  /\ pc[t] \in {"answer", "cancel"} /\ r \in job[t].callbacks
  /\ envLock = None
  /\ answers' = [answers EXCEPT ![r] = Append(@, job[t].action)]
  /\ job' = [job EXCEPT ![t].callbacks = @ \ {r}]
  /\ \/ UNCHANGED <<pc, envLock, made>>
     \/ /\ scenario.asks /\ made < scenario.requests /\ made' = made + 1
        /\ Goto(t, IF pc[t] = "answer" THEN "ask" ELSE "askAtEnd")
        /\ envLock' = t
  /\ UNCHANGED <<queueVars, m_queue_event, m_request_stop, mapVars, queueLock,
                 serverVars, asked>>

\* core.emerge_area in a callback on thread t: the queue mutex is taken with
\* the environment lock held.  The signal is given before the lock is.
CallbackAsks(t, b) ==
  /\ pc[t] \in {"ask", "askAtEnd"} /\ queueLock = None /\ b \in scenario.blocks
  /\ asked' = Append(asked, b)
  /\ Push(b, None, TRUE, {Len(asked')})
  /\ m_queue_event' = IF b \in Enqueued THEN m_queue_event
                      ELSE [m_queue_event EXCEPT ![OptimalThread] = TRUE]
  /\ Goto(t, IF pc[t] = "ask" THEN "answer" ELSE "cancel")
  /\ envLock' = None
  /\ UNCHANGED <<m_request_stop, job, mapVars, queueLock, serverVars, made,
                 answers>>

\* The end of the loop's body: the map edit event for the block.
Answered(t) ==
  /\ pc[t] = "answer" /\ job[t].callbacks = {}
  /\ job[t].found => envLock = None
  /\ Goto(t, "loop")
  /\ job' = [job EXCEPT ![t] = NoJob]
  /\ UNCHANGED <<queueVars, m_queue_event, m_request_stop, mapVars, lockVars,
                 serverVars, requestVars>>

\* The loop ends; cancelPendingItems keeps the queue mutex to the end.
LeaveLoop(t) ==
  /\ pc[t] = "loop" /\ m_request_stop[t]
  /\ Goto(t, "end")
  /\ UNCHANGED <<queueVars, m_queue_event, m_request_stop, job, mapVars,
                 lockVars, serverVars, requestVars>>
BeginCancel(t) ==
  /\ pc[t] = "end" /\ queueLock = None
  /\ queueLock' = t
  /\ Goto(t, "cancel")
  /\ job' = [job EXCEPT ![t] = NoJob]
  /\ UNCHANGED <<queueVars, m_queue_event, m_request_stop, mapVars, envLock,
                 serverVars, requestVars>>
CancelNext(t) ==
  /\ pc[t] = "cancel" /\ job[t].callbacks = {}
  /\ m_block_queue[t] # <<>>
  /\ PopHead(t, "cancel")
  /\ UNCHANGED <<m_queue_event, m_request_stop, mapVars, lockVars,
                 serverVars, requestVars>>
EndThread(t) ==
  /\ pc[t] = "cancel" /\ job[t].callbacks = {}
  /\ m_block_queue[t] = <<>>
  /\ queueLock' = None
  /\ Goto(t, "ended")
  /\ job' = [job EXCEPT ![t] = NoJob]
  /\ UNCHANGED <<queueVars, m_queue_event, m_request_stop, mapVars, envLock,
                 serverVars, requestVars>>

ThreadStep(t) ==
  \/ Pop(t) \/ FindNothing(t) \/ Wake(t)
  \/ Decide(t) \/ Redecide(t) \/ FinishGen(t)
  \/ \E r \in Requests : Callback(t, r)
  \/ \E b \in Blocks : CallbackAsks(t, b)
  \/ Answered(t) \/ LeaveLoop(t)
  \/ BeginCancel(t) \/ CancelNext(t) \/ EndThread(t)

Step ==
  \/ \E b \in Blocks, k \in Kinds : ServerAsks(b, k.peer, k.gen, k.callback)
  \/ ServerSignals \/ StopThreads
  \/ \E t \in Threads : StopThread(t) \/ ThreadStep(t)

Next == Step /\ UNCHANGED scenario

Spec == Init /\ [][Next]_vars

\* Threads run; who has begun to stop them goes on.
Fairness ==
  /\ WF_vars(ServerSignals /\ UNCHANGED scenario)
  /\ \A t \in Threads : /\ WF_vars(StopThread(t) /\ UNCHANGED scenario)
                        /\ WF_vars(ThreadStep(t) /\ UNCHANGED scenario)

FairSpec == Spec /\ Fairness

-----------------------------------------------------------------------------
\* Types.
Entries == [gen : BOOLEAN, peer : Peers \cup {None}, callbacks : SUBSET Requests]
Jobs == [block : Blocks \cup {None}, gen : BOOLEAN, callbacks : SUBSET Requests,
         action : Answers, found : BOOLEAN]
Places == {"loop", "wait", "decide", "redecide", "generate", "answer", "ask",
           "end", "cancel", "askAtEnd", "ended"}

TypeOK ==
  /\ Enqueued \subseteq Blocks /\ m_blocks_enqueued \in [Enqueued -> Entries]
  /\ m_block_queue \in [Threads -> Seq(Blocks)]
  /\ pc \in [Threads -> Places] /\ job \in [Threads -> Jobs]
  /\ generated \subseteq present /\ present \subseteq Blocks
  /\ made \in Nat /\ asked \in Seq(Blocks)
  /\ answers \in [Requests -> Seq(Answers)] /\ scenario \in Scenarios

\* popBlockEmergeData takes for granted what pushBlockEmergeData and pushBlock
\* set up: a block that has an entry is in the queue of one thread, once, what
\* is in a queue has an entry, and every entry is counted for its peer.
QueuesAgree ==
  /\ \A b \in Blocks :
       Cardinality({place \in Threads \X (1 .. Cardinality(Blocks)) :
                      LET queue == m_block_queue[place[1]]
                      IN place[2] \in DOMAIN queue /\ queue[place[2]] = b})
         = IF b \in Enqueued THEN 1 ELSE 0
  /\ \A p \in Peers \cup {None} :
       m_peer_queue_count[p] =
         Cardinality({b \in Enqueued : m_blocks_enqueued[b].peer = p})

\* Where the answer to r still has to come from.
Waiting(r) ==
  {b \in Enqueued : r \in m_blocks_enqueued[b].callbacks} \cup
  {job[t].block : t \in {u \in Threads : r \in job[u].callbacks}}

Due(r) == r \in DOMAIN asked /\ asked[r] \notin OverLimit

\* A mod that asked with a callback is answered once: until then the request
\* is at one place, with the block it is about, and after that at none.  (A
\* block over the limit is never answered: EmergeThread::run drops it.)
AnsweredOnce ==
  \A r \in Requests : Due(r) =>
    \/ answers[r] = <<>> /\ Waiting(r) = {asked[r]}
    \/ Len(answers[r]) = 1 /\ Waiting(r) = {}

\* A chunk is generated by one thread at a time (m_chunks_in_progress): the
\* second would overwrite the first one's blocks and all that was built there.
OneGenerator ==
  \A t \in Threads : pc[t] = "generate" =>
    /\ ChunkOf[job[t].block] \in m_chunks_in_progress
    /\ \A u \in Threads \ {t} : pc[u] = "generate" =>
         ChunkOf[job[u].block] # ChunkOf[job[t].block]

\* The answer a mod gets is true when it gets it: any but CANCELLED means that
\* the block is there and complete; CANCELLED is what it gets at shutdown and
\* while another thread is generating the chunk.
HonestAnswers ==
  [][\A r \in Requests : answers'[r] # answers[r] =>
       \/ Last(answers'[r]) = "CANCELLED"
       \/ asked[r] \in generated]_vars

\* Who waits for an answer gets one, whichever thread the block was given to.
EveryoneAnswered ==
  \A r \in Requests : Due(r) ~> answers[r] # <<>>

\* stopThreads returns: every thread ends, with nothing left in its queue.
StopReturns ==
  stopping ~> \A t \in Threads : pc[t] = "ended" /\ m_block_queue[t] = <<>>

=============================================================================
