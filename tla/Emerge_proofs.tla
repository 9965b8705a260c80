--------------------------- MODULE Emerge_proofs ----------------------------
(***************************************************************************)
(* One generator per chunk, one true answer per request, and queues that   *)
(* agree with what is enqueued and counted, for any number of threads,     *)
(* blocks and requests and for all limits.                                 *)
(***************************************************************************)
EXTENDS Emerge, SequenceTheorems, FiniteSetTheorems, WellFoundedInduction, TLAPS

(***************************************************************************)
(* The inductive invariant.  The entries and jobs that hold a request are  *)
(* followed through the queues: a request is at one place, which is about  *)
(* its block, until it is answered.                                        *)
(***************************************************************************)
Asking == {t \in Threads : pc[t] \in {"ask", "askAtEnd"}}
Idle == {t \in Threads : pc[t] \in {"loop", "wait", "end", "ended"}}

\* Callbacks ask one at a time, under the environment lock.
Turns ==
  /\ \A t \in Asking : envLock = t
  /\ server = "signalling" => envLock = Server
  /\ Len(asked) <= made /\ made <= scenario.requests
  /\ Asking # {} => Len(asked) < made

\* What is in a queue has an entry, and is there once.
QueuedAreEnqueued ==
  \A t \in Threads : \A i \in DOMAIN m_block_queue[t] : m_block_queue[t][i] \in Enqueued
QueuedOnce ==
  \A t, u \in Threads :
    \A i \in DOMAIN m_block_queue[t], j \in DOMAIN m_block_queue[u] :
      m_block_queue[t][i] = m_block_queue[u][j] => t = u /\ i = j

\* Entries and jobs hold requests for their block only ...
Traceable ==
  /\ \A b \in Enqueued : \A r \in m_blocks_enqueued[b].callbacks :
       r \in DOMAIN asked /\ asked[r] = b
  /\ \A t \in Threads : \A r \in job[t].callbacks :
       r \in DOMAIN asked /\ asked[r] = job[t].block

\* ... and no two hold the same.
HeldOnce ==
  /\ \A t, u \in Threads : t # u => job[t].callbacks \cap job[u].callbacks = {}
  /\ \A t \in Threads, b \in Enqueued :
       job[t].callbacks \cap m_blocks_enqueued[b].callbacks = {}

Held(r) ==
  \/ \E b \in Enqueued : r \in m_blocks_enqueued[b].callbacks
  \/ \E t \in Threads : r \in job[t].callbacks

\* What is held is not answered, and what is not held is, if it is due.
AnsweredOrHeld ==
  \A r \in Requests :
    /\ Held(r) \/ r \notin DOMAIN asked => answers[r] = <<>>
    /\ Due(r) /\ answers[r] = <<>> => Held(r)
    /\ Len(answers[r]) <= 1

ChunkBlocks(b) == {x \in Blocks : ChunkOf[x] = ChunkOf[b]}

\* The jobs of threads that have none, what the map has of a chunk that is
\* being generated, and the answers that the others give.
JobsInStage ==
  \A t \in Threads :
    /\ t \in Idle => job[t].callbacks = {}
    /\ pc[t] \in {"decide", "redecide", "generate", "answer", "ask"} => job[t].block \in Blocks
    /\ pc[t] = "generate" => ChunkBlocks(job[t].block) \subseteq present
    /\ pc[t] \in {"answer", "ask"} /\ job[t].action # "CANCELLED" => job[t].block \in generated
    /\ pc[t] \in {"cancel", "askAtEnd"} => job[t].action = "CANCELLED"

EmergeInv ==
  /\ TypeOK /\ Turns /\ QueuedAreEnqueued /\ QueuedOnce /\ Traceable /\ HeldOnce
  /\ AnsweredOrHeld /\ JobsInStage /\ OneGenerator

-----------------------------------------------------------------------------
(***************************************************************************)
(* What happens to the queues.                                             *)
(***************************************************************************)
USE DEF Requests

LEMMA InitInv == Init => EmergeInv
<1>1. SUFFICES ASSUME Init PROVE EmergeInv
  OBVIOUS
<1>2. /\ Enqueued = {} /\ \A r \in Requests : answers[r] = <<>>
      /\ \A t \in Threads : m_block_queue[t] = <<>> /\ job[t] = NoJob /\ pc[t] = "loop"
  BY <1>1 DEF Init, Enqueued
<1>3. NoJob \in Jobs /\ NoJob.callbacks = {}
  BY DEF NoJob, Jobs, Answers
<1>4. TypeOK
  <2>1. m_blocks_enqueued \in [Enqueued -> Entries] /\ Enqueued \subseteq Blocks
    BY <1>1, <1>2 DEF Init, Enqueued
  <2>2. m_block_queue \in [Threads -> Seq(Blocks)] /\ answers \in [Requests -> Seq(Answers)]
    BY <1>1 DEF Init
  <2>3. pc \in [Threads -> Places] /\ job \in [Threads -> Jobs]
    BY <1>1, <1>3 DEF Init, Places
  <2> QED
    BY <1>1, <2>1, <2>2, <2>3 DEF Init, TypeOK
<1>5. Turns
  <2>1. scenario.requests \in Nat
    BY <1>1, EmergeAssumption DEF Init
  <2>2. Asking = {} /\ Len(asked) = 0 /\ made = 0
    BY <1>1, <1>2 DEF Init, Asking
  <2> QED
    BY <1>1, <2>1, <2>2 DEF Init, Turns
<1>6. QueuedAreEnqueued /\ QueuedOnce
  BY <1>2 DEF QueuedAreEnqueued, QueuedOnce
<1>7. Traceable /\ HeldOnce
  BY <1>2, <1>3 DEF Traceable, HeldOnce
<1>8. AnsweredOrHeld
  BY <1>1, <1>2 DEF Init, AnsweredOrHeld, Due
<1>9. JobsInStage /\ OneGenerator
  BY <1>2, <1>3 DEF JobsInStage, OneGenerator
<1> QED
  BY <1>4, <1>5, <1>6, <1>7, <1>8, <1>9 DEF EmergeInv

\* A push adds b, or adds to b, and touches nothing else.
LEMMA PushQueues ==
  ASSUME EmergeInv, NEW b \in Blocks, NEW peer \in Peers \cup {None}, NEW gen \in BOOLEAN,
         NEW new \in SUBSET Requests, Push(b, peer, gen, new)
  PROVE  /\ Enqueued' = Enqueued \cup {b} /\ m_blocks_enqueued' \in [Enqueued' -> Entries]
         /\ \A x \in Enqueued \ {b} :
              m_blocks_enqueued'[x].callbacks = m_blocks_enqueued[x].callbacks
         /\ b \in Enqueued =>
              m_blocks_enqueued'[b].callbacks = m_blocks_enqueued[b].callbacks \cup new
         /\ b \notin Enqueued => m_blocks_enqueued'[b].callbacks = new
         /\ m_block_queue' \in [Threads -> Seq(Blocks)]
         /\ QueuedAreEnqueued' /\ QueuedOnce'
<1>0. TypeOK /\ QueuedAreEnqueued /\ QueuedOnce
  BY DEF EmergeInv
<1>1. CASE b \in Enqueued
  <2>1. /\ m_block_queue' = m_block_queue
        /\ m_blocks_enqueued' = [m_blocks_enqueued EXCEPT
             ![b].gen = @ \/ gen, ![b].callbacks = @ \cup new]
    BY <1>1 DEF Push
  <2>2. m_blocks_enqueued[b] \in Entries
    BY <1>0, <1>1 DEF TypeOK
  <2>3. Enqueued' = Enqueued
    BY <2>1 DEF Enqueued
  <2>4. /\ \A x \in Enqueued \ {b} : m_blocks_enqueued'[x] = m_blocks_enqueued[x]
        /\ m_blocks_enqueued'[b] = [m_blocks_enqueued[b] EXCEPT
             !.gen = @ \/ gen, !.callbacks = @ \cup new]
    BY <1>0, <1>1, <2>1 DEF TypeOK
  <2>5. /\ m_blocks_enqueued'[b] \in Entries
        /\ m_blocks_enqueued'[b].callbacks = m_blocks_enqueued[b].callbacks \cup new
    BY <2>2, <2>4 DEF Entries
  <2>6. m_blocks_enqueued' \in [Enqueued' -> Entries]
    BY <1>0, <2>1, <2>3, <2>4, <2>5 DEF TypeOK
  <2>7. QueuedAreEnqueued' /\ QueuedOnce'
    BY <1>0, <2>1, <2>3 DEF QueuedAreEnqueued, QueuedOnce
  <2> QED
    BY <1>0, <1>1, <2>1, <2>3, <2>4, <2>5, <2>6, <2>7 DEF TypeOK
<1>2. CASE b \notin Enqueued
  <2> DEFINE o == OptimalThread
  <2>1. /\ m_blocks_enqueued' = [x \in Enqueued \cup {b} |->
             IF x = b THEN [gen |-> gen, peer |-> peer, callbacks |-> new]
             ELSE m_blocks_enqueued[x]]
        /\ m_block_queue' = [m_block_queue EXCEPT ![o] = Append(@, b)]
    BY <1>2 DEF Push
  <2>2. Enqueued' = Enqueued \cup {b}
    BY <2>1 DEF Enqueued
  <2>3. /\ \A x \in Enqueued \ {b} : m_blocks_enqueued'[x] = m_blocks_enqueued[x]
        /\ m_blocks_enqueued'[b] = [gen |-> gen, peer |-> peer, callbacks |-> new]
    BY <2>1
  <2>4. [gen |-> gen, peer |-> peer, callbacks |-> new] \in Entries
    BY DEF Entries
  <2>5. m_blocks_enqueued' \in [Enqueued' -> Entries]
    BY <1>0, <2>1, <2>2, <2>4 DEF TypeOK
  <2> HIDE DEF o
  <2>6. m_block_queue' \in [Threads -> Seq(Blocks)]
    <3>1. CASE o \in Threads
      <4>1. Append(m_block_queue[o], b) \in Seq(Blocks)
        BY <1>0, <3>1 DEF TypeOK
      <4> QED
        BY <1>0, <2>1, <4>1 DEF TypeOK
    <3>2. CASE o \notin Threads
      BY <1>0, <2>1, <3>2 DEF TypeOK
    <3> QED
      BY <3>1, <3>2
  <2>7. \A t \in Threads :
          \/ m_block_queue'[t] = m_block_queue[t]
          \/ t = o /\ m_block_queue'[t] = Append(m_block_queue[t], b)
    BY <1>0, <2>1 DEF TypeOK
  <2>8. \A t \in Threads : \A i \in DOMAIN m_block_queue'[t] :
          \/ i \in DOMAIN m_block_queue[t] /\ m_block_queue'[t][i] = m_block_queue[t][i]
          \/ t = o /\ i = Len(m_block_queue[t]) + 1 /\ m_block_queue'[t][i] = b
    <3> SUFFICES ASSUME NEW t \in Threads
                 PROVE  \A i \in DOMAIN m_block_queue'[t] :
          \/ i \in DOMAIN m_block_queue[t] /\ m_block_queue'[t][i] = m_block_queue[t][i]
          \/ t = o /\ i = Len(m_block_queue[t]) + 1 /\ m_block_queue'[t][i] = b
      OBVIOUS
    <3>1. m_block_queue[t] \in Seq(Blocks)
      BY <1>0 DEF TypeOK
    <3>2. \A i \in DOMAIN Append(m_block_queue[t], b) :
            \/ i \in DOMAIN m_block_queue[t]
                 /\ Append(m_block_queue[t], b)[i] = m_block_queue[t][i]
            \/ i = Len(m_block_queue[t]) + 1 /\ Append(m_block_queue[t], b)[i] = b
      BY <3>1
    <3> QED
      BY <2>7, <3>2
  <2>9. QueuedAreEnqueued'
    BY <1>0, <2>2, <2>8 DEF QueuedAreEnqueued
  <2>10. \A t \in Threads : \A i \in DOMAIN m_block_queue[t] : m_block_queue[t][i] # b
    BY <1>0, <1>2 DEF QueuedAreEnqueued
  <2>11. QueuedOnce'
    BY <1>0, <2>8, <2>10 DEF QueuedOnce
  <2> QED
    BY <1>2, <2>2, <2>3, <2>5, <2>6, <2>9, <2>11
<1> QED
  BY <1>1, <1>2

\* A pop takes the entry of the head of t's queue; the thread has its callbacks
\* or, when the block is over the limit, nobody has.
LEMMA PopQueues ==
  ASSUME EmergeInv, NEW t \in Threads, NEW next \in Places,
         m_block_queue[t] # <<>>, PopHead(t, next)
  PROVE  \E b \in Enqueued :
         /\ b = Head(m_block_queue[t])
         /\ Enqueued' = Enqueued \ {b} /\ m_blocks_enqueued' \in [Enqueued' -> Entries]
         /\ \A x \in Enqueued' : m_blocks_enqueued'[x] = m_blocks_enqueued[x]
         /\ m_block_queue' \in [Threads -> Seq(Blocks)]
         /\ QueuedAreEnqueued' /\ QueuedOnce'
         /\ job' \in [Threads -> Jobs] /\ pc' \in [Threads -> Places]
         /\ pc'[t] = next /\ job'[t].action = "CANCELLED"
         /\ job'[t].callbacks = IF next = "loop" THEN {} ELSE m_blocks_enqueued[b].callbacks
         /\ next # "loop" => job'[t].block = b
         /\ \A u \in Threads \ {t} : job'[u] = job[u] /\ pc'[u] = pc[u]
<1> DEFINE b == Head(m_block_queue[t])
<1>0. TypeOK /\ QueuedAreEnqueued /\ QueuedOnce
  BY DEF EmergeInv
<1>1. m_block_queue[t] \in Seq(Blocks)
  BY <1>0 DEF TypeOK
<1>2. 1 \in DOMAIN m_block_queue[t] /\ b = m_block_queue[t][1]
  BY <1>1
<1>3. b \in Enqueued /\ b \in Blocks
  BY <1>0, <1>2 DEF QueuedAreEnqueued, TypeOK
<1>4. /\ m_block_queue' = [m_block_queue EXCEPT ![t] = Tail(@)]
      /\ m_blocks_enqueued' = [x \in Enqueued \ {b} |-> m_blocks_enqueued[x]]
      /\ job' = [job EXCEPT ![t] =
           IF next = "loop" THEN NoJob
           ELSE [NoJob EXCEPT !.block = b, !.gen = m_blocks_enqueued[b].gen,
                              !.callbacks = m_blocks_enqueued[b].callbacks]]
      /\ pc' = [pc EXCEPT ![t] = next]
  BY DEF PopHead, Goto
<1> HIDE DEF b
<1>5. Enqueued' = Enqueued \ {b}
  BY <1>4 DEF Enqueued
<1>6. /\ m_blocks_enqueued' \in [Enqueued' -> Entries]
      /\ \A x \in Enqueued' : m_blocks_enqueued'[x] = m_blocks_enqueued[x]
  BY <1>0, <1>4, <1>5 DEF TypeOK
<1>7. m_block_queue' \in [Threads -> Seq(Blocks)]
  BY <1>0, <1>1, <1>4 DEF TypeOK
<1>8. /\ Len(Tail(m_block_queue[t])) = Len(m_block_queue[t]) - 1
      /\ \A i \in DOMAIN Tail(m_block_queue[t]) :
           /\ i + 1 \in DOMAIN m_block_queue[t] /\ i \in Nat \ {0}
           /\ Tail(m_block_queue[t])[i] = m_block_queue[t][i + 1]
  BY <1>1
<1>9. \A u \in Threads \ {t} : m_block_queue'[u] = m_block_queue[u]
  BY <1>0, <1>4 DEF TypeOK
<1>10. m_block_queue'[t] = Tail(m_block_queue[t])
  BY <1>0, <1>4 DEF TypeOK
<1>11. QueuedAreEnqueued'
  <2> SUFFICES ASSUME NEW u \in Threads, NEW i \in DOMAIN m_block_queue'[u]
               PROVE  m_block_queue'[u][i] \in Enqueued'
    BY DEF QueuedAreEnqueued
  <2>1. CASE u = t
    <3>1. i + 1 \in DOMAIN m_block_queue[t] /\ m_block_queue'[t][i] = m_block_queue[t][i + 1]
          /\ i \in Nat \ {0}
      BY <1>8, <1>10, <2>1
    <3>2. i + 1 # 1
      BY <3>1
    <3> QED
      BY <1>0, <1>2, <1>5, <2>1, <3>1, <3>2 DEF QueuedAreEnqueued, QueuedOnce
  <2>2. CASE u # t
    BY <1>0, <1>2, <1>5, <1>9, <2>2 DEF QueuedAreEnqueued, QueuedOnce
  <2> QED
    BY <2>1, <2>2
<1>12. QueuedOnce'
  <2> DEFINE from(u, i) == IF u = t THEN i + 1 ELSE i
  <2>1. \A u \in Threads : \A i \in DOMAIN m_block_queue'[u] :
          /\ from(u, i) \in DOMAIN m_block_queue[u] /\ i \in Nat
          /\ m_block_queue'[u][i] = m_block_queue[u][from(u, i)]
    <3> SUFFICES ASSUME NEW u \in Threads, NEW i \in DOMAIN m_block_queue'[u]
                 PROVE  /\ from(u, i) \in DOMAIN m_block_queue[u] /\ i \in Nat
                        /\ m_block_queue'[u][i] = m_block_queue[u][from(u, i)]
      OBVIOUS
    <3>1. CASE u = t
      BY <1>8, <1>10, <3>1
    <3>2. CASE u # t
      <4>1. m_block_queue[u] \in Seq(Blocks)
        BY <1>0 DEF TypeOK
      <4> QED
        BY <1>9, <3>2, <4>1
    <3> QED
      BY <3>1, <3>2
  <2> SUFFICES ASSUME NEW u \in Threads, NEW v \in Threads,
                      NEW i \in DOMAIN m_block_queue'[u], NEW j \in DOMAIN m_block_queue'[v],
                      m_block_queue'[u][i] = m_block_queue'[v][j]
               PROVE  u = v /\ i = j
    BY DEF QueuedOnce
  <2>2. u = v /\ from(u, i) = from(v, j) /\ i \in Nat /\ j \in Nat
    <3> HIDE DEF from
    <3> QED
      BY <1>0, <2>1 DEF QueuedOnce
  <2> QED
    BY <2>2
<1>13. m_blocks_enqueued[b] \in Entries
  BY <1>0, <1>3 DEF TypeOK
<1>14. /\ job'[t] \in Jobs /\ job'[t].action = "CANCELLED"
       /\ job'[t].callbacks = IF next = "loop" THEN {} ELSE m_blocks_enqueued[b].callbacks
       /\ next # "loop" => job'[t].block = b
  <2>1. job'[t] = IF next = "loop" THEN NoJob
           ELSE [NoJob EXCEPT !.block = b, !.gen = m_blocks_enqueued[b].gen,
                              !.callbacks = m_blocks_enqueued[b].callbacks]
    BY <1>0, <1>4 DEF TypeOK
  <2>2. NoJob \in Jobs /\ NoJob.callbacks = {} /\ NoJob.action = "CANCELLED"
    BY DEF NoJob, Jobs, Answers
  <2>3. CASE next = "loop"
    BY <2>1, <2>2, <2>3
  <2>4. CASE next # "loop"
    <3>1. job'[t] = [NoJob EXCEPT !.block = b, !.gen = m_blocks_enqueued[b].gen,
                                  !.callbacks = m_blocks_enqueued[b].callbacks]
      BY <2>1, <2>4
    <3> QED
      BY <1>3, <1>13, <2>2, <2>4, <3>1 DEF Jobs, Entries
  <2> QED
    BY <2>3, <2>4
<1>15. /\ \A u \in Threads \ {t} : job'[u] = job[u] /\ pc'[u] = pc[u]
       /\ pc'[t] = next /\ pc' \in [Threads -> Places]
       /\ job' \in [Threads -> Jobs]
  BY <1>0, <1>4, <1>14 DEF TypeOK
<1>16. b = Head(m_block_queue[t])
  BY DEF b
<1> QED
  BY <1>3, <1>5, <1>6, <1>7, <1>11, <1>12, <1>14, <1>15, <1>16

-----------------------------------------------------------------------------
(***************************************************************************)
(* What happens to the requests.                                           *)
(***************************************************************************)
RequestsInOrder == Traceable /\ HeldOnce /\ AnsweredOrHeld

\* Nobody's callbacks change.
LEMMA RequestsKept ==
  ASSUME EmergeInv, UNCHANGED <<m_blocks_enqueued, asked, answers>>,
         \A t \in Threads : /\ job'[t].callbacks = job[t].callbacks
                            /\ job[t].callbacks = {} \/ job'[t].block = job[t].block
  PROVE  RequestsInOrder'
<1>0. Traceable /\ HeldOnce /\ AnsweredOrHeld
  BY DEF EmergeInv
<1>1. Enqueued' = Enqueued
  BY DEF Enqueued
<1>2. Traceable'
  BY <1>0, <1>1 DEF Traceable
<1>3. HeldOnce'
  BY <1>0, <1>1 DEF HeldOnce
<1>4. \A r \in Requests : Held(r)' <=> Held(r)
  BY <1>1, SMTT(60) DEF Held
<1>5. AnsweredOrHeld'
  BY <1>0, <1>4 DEF AnsweredOrHeld, Due
<1> QED
  BY <1>2, <1>3, <1>5 DEF RequestsInOrder

\* A push without a request, or with the next one.
LEMMA RequestsPushed ==
  ASSUME EmergeInv, NEW b \in Blocks, NEW peer \in Peers \cup {None}, NEW gen \in BOOLEAN,
         NEW new \in SUBSET Requests, Push(b, peer, gen, new),
         \/ new = {} /\ asked' = asked
         \/ /\ Len(asked) + 1 \in Requests
            /\ new = {Len(asked) + 1} /\ asked' = Append(asked, b),
         UNCHANGED <<job, answers>>
  PROVE  RequestsInOrder'
<1>0. TypeOK /\ Traceable /\ HeldOnce /\ AnsweredOrHeld
  BY DEF EmergeInv
<1>1. /\ Enqueued' = Enqueued \cup {b}
      /\ \A x \in Enqueued \ {b} :
           m_blocks_enqueued'[x].callbacks = m_blocks_enqueued[x].callbacks
      /\ b \in Enqueued =>
           m_blocks_enqueued'[b].callbacks = m_blocks_enqueued[b].callbacks \cup new
      /\ b \notin Enqueued => m_blocks_enqueued'[b].callbacks = new
  BY PushQueues
<1>2. \A r \in DOMAIN asked : r \in DOMAIN asked' /\ asked'[r] = asked[r]
  BY <1>0 DEF TypeOK
<1>3. \A r \in new : r \in DOMAIN asked' /\ asked'[r] = b /\ r \notin DOMAIN asked
  BY <1>0 DEF TypeOK
<1>4. \A r \in DOMAIN asked' : r \in DOMAIN asked \/ r \in new
  BY <1>0 DEF TypeOK
<1>5. \A x \in Enqueued' : \A r \in m_blocks_enqueued'[x].callbacks :
        \/ x \in Enqueued /\ r \in m_blocks_enqueued[x].callbacks
        \/ x = b /\ r \in new
  BY <1>1
<1>6. Traceable'
  <2>1. \A x \in Enqueued' : \A r \in m_blocks_enqueued'[x].callbacks :
          r \in DOMAIN asked' /\ asked'[r] = x
    BY <1>0, <1>2, <1>3, <1>5 DEF Traceable
  <2>2. \A t \in Threads : \A r \in job'[t].callbacks :
          r \in DOMAIN asked' /\ asked'[r] = job'[t].block
    BY <1>0, <1>2 DEF Traceable
  <2> QED
    BY <2>1, <2>2 DEF Traceable
<1>7. HeldOnce'
  <2>1. \A t \in Threads, x \in Enqueued' : \A r \in job'[t].callbacks :
          r \notin m_blocks_enqueued'[x].callbacks
    BY <1>0, <1>3, <1>5 DEF HeldOnce, Traceable
  <2> QED
    BY <1>0, <2>1 DEF HeldOnce
<1>8. \A r \in Requests : Held(r)' <=> Held(r) \/ r \in new
  <2> SUFFICES ASSUME NEW r \in Requests PROVE Held(r)' <=> Held(r) \/ r \in new
    OBVIOUS
  <2>1. Held(r)' => Held(r) \/ r \in new
    BY <1>5 DEF Held
  <2>2. \A x \in Enqueued : m_blocks_enqueued[x].callbacks \subseteq m_blocks_enqueued'[x].callbacks
    BY <1>1
  <2>3. Held(r) => Held(r)'
    BY <1>1, <2>2 DEF Held
  <2>4. r \in new => Held(r)'
    BY <1>1 DEF Held
  <2> QED
    BY <2>1, <2>3, <2>4
<1>9. AnsweredOrHeld'
  <2> SUFFICES ASSUME NEW r \in Requests
               PROVE  /\ Held(r)' \/ r \notin DOMAIN asked' => answers[r] = <<>>
                      /\ Due(r)' /\ answers[r] = <<>> => Held(r)'
                      /\ Len(answers[r]) <= 1
    BY DEF AnsweredOrHeld
  <2>1. Held(r)' \/ r \notin DOMAIN asked' => answers[r] = <<>>
    BY <1>0, <1>2, <1>3, <1>8 DEF AnsweredOrHeld
  <2>2. Due(r)' /\ r \notin new => Due(r)
    BY <1>2, <1>4 DEF Due
  <2>3. Due(r)' /\ answers[r] = <<>> => Held(r)'
    BY <1>0, <1>8, <2>2 DEF AnsweredOrHeld
  <2> QED
    BY <1>0, <2>1, <2>3 DEF AnsweredOrHeld
<1> QED
  BY <1>6, <1>7, <1>9 DEF RequestsInOrder

\* A pop by a thread that held nothing.  What is dropped is over the limit.
LEMMA RequestsPopped ==
  ASSUME EmergeInv, NEW t \in Threads, NEW next \in Places,
         m_block_queue[t] # <<>>, PopHead(t, next), job[t].callbacks = {},
         next = "loop" => Head(m_block_queue[t]) \in OverLimit,
         UNCHANGED <<asked, answers>>
  PROVE  RequestsInOrder'
<1>0. TypeOK /\ Traceable /\ HeldOnce /\ AnsweredOrHeld
  BY DEF EmergeInv
<1>1. PICK b \in Enqueued :
         /\ b = Head(m_block_queue[t])
         /\ Enqueued' = Enqueued \ {b}
         /\ \A x \in Enqueued' : m_blocks_enqueued'[x] = m_blocks_enqueued[x]
         /\ job'[t].callbacks = IF next = "loop" THEN {} ELSE m_blocks_enqueued[b].callbacks
         /\ next # "loop" => job'[t].block = b
         /\ \A u \in Threads \ {t} : job'[u] = job[u]
  BY PopQueues
<1>2. Traceable'
  <2>1. \A x \in Enqueued' : \A r \in m_blocks_enqueued'[x].callbacks :
          r \in DOMAIN asked /\ asked[r] = x
    BY <1>0, <1>1 DEF Traceable
  <2>2. \A u \in Threads : \A r \in job'[u].callbacks :
          r \in DOMAIN asked /\ asked[r] = job'[u].block
    BY <1>0, <1>1 DEF Traceable
  <2> QED
    BY <2>1, <2>2 DEF Traceable
<1>3. HeldOnce'
  <2>1. \A u, v \in Threads : u # v => job'[u].callbacks \cap job'[v].callbacks = {}
    BY <1>0, <1>1 DEF HeldOnce
  <2>2. \A u \in Threads, x \in Enqueued' :
          job'[u].callbacks \cap m_blocks_enqueued'[x].callbacks = {}
    BY <1>0, <1>1 DEF HeldOnce, Traceable
  <2> QED
    BY <2>1, <2>2 DEF HeldOnce
<1>4. \A r \in Requests : Held(r)' => Held(r)
  BY <1>1 DEF Held
<1>5. \A r \in Requests : Held(r) /\ Due(r) => Held(r)'
  <2> SUFFICES ASSUME NEW r \in Requests, Held(r), Due(r) PROVE Held(r)'
    OBVIOUS
  <2>1. CASE \E x \in Enqueued \ {b} : r \in m_blocks_enqueued[x].callbacks
    BY <1>1, <2>1 DEF Held
  <2>2. CASE r \in m_blocks_enqueued[b].callbacks
    <3>1. b \notin OverLimit
      BY <1>0, <2>2 DEF Traceable, Due
    <3> QED
      BY <1>1, <2>2, <3>1 DEF Held
  <2>3. CASE \E u \in Threads : r \in job[u].callbacks
    BY <1>1, <2>3 DEF Held
  <2> QED
    BY <2>1, <2>2, <2>3 DEF Held
<1>6. AnsweredOrHeld'
  BY <1>0, <1>4, <1>5 DEF AnsweredOrHeld, Due
<1> QED
  BY <1>2, <1>3, <1>6 DEF RequestsInOrder

\* A callback takes its request out of the job and answers it.
LEMMA RequestsAnswered ==
  ASSUME EmergeInv, NEW t \in Threads, NEW q \in Requests, Callback(t, q)
  PROVE  /\ RequestsInOrder' /\ job' \in [Threads -> Jobs]
         /\ answers' \in [Requests -> Seq(Answers)]
         /\ \A u \in Threads : /\ job'[u].block = job[u].block
                               /\ job'[u].action = job[u].action
                               /\ job'[u].callbacks \subseteq job[u].callbacks
<1>0. TypeOK /\ Traceable /\ HeldOnce /\ AnsweredOrHeld
  BY DEF EmergeInv
<1>1. /\ q \in job[t].callbacks /\ job' = [job EXCEPT ![t].callbacks = @ \ {q}]
      /\ answers' = [answers EXCEPT ![q] = Append(@, job[t].action)]
      /\ m_blocks_enqueued' = m_blocks_enqueued /\ asked' = asked
  BY DEF Callback, queueVars
<1>2. job \in [Threads -> Jobs] /\ job[t] \in Jobs /\ job[t].action \in Answers
  BY <1>0 DEF TypeOK, Jobs
<1>3. /\ job' \in [Threads -> Jobs]
      /\ \A u \in Threads : /\ job'[u].block = job[u].block
                            /\ job'[u].action = job[u].action
                            /\ job'[u].callbacks =
                                 IF u = t THEN job[u].callbacks \ {q} ELSE job[u].callbacks
  BY <1>1, <1>2 DEF Jobs
<1>4. /\ answers' \in [Requests -> Seq(Answers)]
      /\ answers'[q] = Append(answers[q], job[t].action)
      /\ \A r \in Requests \ {q} : answers'[r] = answers[r]
  BY <1>0, <1>1, <1>2 DEF TypeOK
<1>5. Enqueued' = Enqueued
  BY <1>1 DEF Enqueued
<1>6. Traceable'
  BY <1>0, <1>1, <1>3, <1>5 DEF Traceable
<1>7. HeldOnce'
  BY <1>0, <1>1, <1>3, <1>5 DEF HeldOnce
<1>8. Held(q) /\ ~Held(q)'
  BY <1>0, <1>1, <1>3, <1>5 DEF Held, HeldOnce
<1>9. \A r \in Requests \ {q} : Held(r)' <=> Held(r)
  BY <1>1, <1>3, <1>5 DEF Held
<1>10. Len(answers'[q]) = 1 /\ answers'[q] # <<>> /\ q \in DOMAIN asked
  <2>1. answers[q] = <<>>
    BY <1>0, <1>8 DEF AnsweredOrHeld
  <2>2. Len(answers'[q]) = 1 /\ answers'[q] # <<>>
    BY <1>2, <1>4, <2>1
  <2> QED
    BY <1>0, <1>1, <2>2 DEF Traceable
<1>11. AnsweredOrHeld'
  BY <1>0, <1>1, <1>4, <1>8, <1>9, <1>10 DEF AnsweredOrHeld, Due
<1> QED
  BY <1>3, <1>4, <1>6, <1>7, <1>11 DEF RequestsInOrder

-----------------------------------------------------------------------------
(***************************************************************************)
(* The actions, those first that only move one thread or the server.       *)
(***************************************************************************)
LEMMA MovesOnly ==
  ASSUME EmergeInv, UNCHANGED <<queueVars, job, mapVars, requestVars, scenario>>,
         \/ pc' = pc
         \/ \E t \in Idle, place \in {"loop", "wait", "end"} : pc' = [pc EXCEPT ![t] = place],
         \/ UNCHANGED <<envLock, server>>
         \/ server = "signalling" /\ server' = "idle"
  PROVE  EmergeInv'
<1> USE DEF queueVars, mapVars, requestVars
<1>0. /\ TypeOK /\ Turns /\ QueuedAreEnqueued /\ QueuedOnce /\ RequestsInOrder
      /\ JobsInStage /\ OneGenerator
  BY DEF EmergeInv, RequestsInOrder
<1>1. Enqueued' = Enqueued
  BY DEF Enqueued
<1>2. pc' \in [Threads -> Places] /\ \A t \in Threads :
        pc'[t] = pc[t] \/ (t \in Idle /\ pc'[t] \in {"loop", "wait", "end"})
  <2>0. pc \in [Threads -> Places]
    BY <1>0 DEF TypeOK
  <2>1. CASE pc' = pc
    BY <2>0, <2>1
  <2>2. CASE \E t \in Idle, place \in {"loop", "wait", "end"} : pc' = [pc EXCEPT ![t] = place]
    <3>1. PICK t \in Idle, place \in {"loop", "wait", "end"} : pc' = [pc EXCEPT ![t] = place]
      BY <2>2
    <3>2. t \in Threads /\ place \in Places
      BY DEF Idle, Places
    <3>3. pc' \in [Threads -> Places] /\ pc'[t] = place
          /\ \A u \in Threads \ {t} : pc'[u] = pc[u]
      BY <2>0, <3>1, <3>2
    <3> QED
      BY <3>1, <3>3
  <2> QED
    BY <2>1, <2>2
<1>3. TypeOK'
  BY <1>0, <1>1, <1>2 DEF TypeOK
<1>4. Asking' = Asking
  BY <1>0, <1>2 DEF Asking, Idle
<1>5. Turns'
  <2>1. CASE UNCHANGED <<envLock, server>>
    BY <1>0, <1>4, <2>1 DEF Turns
  <2>2. CASE server = "signalling" /\ server' = "idle"
    <3>1. Asking = {}
      BY <1>0, <2>2 DEF Turns, Asking, Threads, Server
    <3> QED
      BY <1>0, <1>4, <2>2, <3>1 DEF Turns
  <2> QED
    BY <2>1, <2>2
<1>6. QueuedAreEnqueued' /\ QueuedOnce'
  BY <1>0, <1>1 DEF QueuedAreEnqueued, QueuedOnce
<1>7. RequestsInOrder'
  BY RequestsKept
<1>8. JobsInStage'
  BY <1>0, <1>2 DEF JobsInStage, Idle
<1>9. OneGenerator'
  BY <1>0, <1>2 DEF OneGenerator, Idle
<1> QED
  BY <1>3, <1>5, <1>6, <1>7, <1>8, <1>9 DEF EmergeInv, RequestsInOrder

LEMMA GivesUpJob ==
  ASSUME EmergeInv, NEW t \in Threads, NEW place \in {"loop", "cancel", "ended"},
         pc[t] \in {"answer", "end", "cancel"}, job[t].callbacks = {},
         pc' = [pc EXCEPT ![t] = place], job' = [job EXCEPT ![t] = NoJob],
         UNCHANGED <<queueVars, mapVars, requestVars, scenario, envLock, server>>
  PROVE  EmergeInv'
<1> USE DEF queueVars, mapVars, requestVars
<1>0. /\ TypeOK /\ Turns /\ QueuedAreEnqueued /\ QueuedOnce /\ RequestsInOrder
      /\ JobsInStage /\ OneGenerator
  BY DEF EmergeInv, RequestsInOrder
<1>1. Enqueued' = Enqueued
  BY DEF Enqueued
<1>2. NoJob \in Jobs /\ NoJob.callbacks = {} /\ NoJob.action = "CANCELLED"
  BY DEF NoJob, Jobs, Answers
<1>3. /\ pc' \in [Threads -> Places] /\ job' \in [Threads -> Jobs]
      /\ pc'[t] = place /\ job'[t] = NoJob
      /\ \A u \in Threads \ {t} : pc'[u] = pc[u] /\ job'[u] = job[u]
  BY <1>0, <1>2 DEF TypeOK, Places
<1>4. TypeOK'
  BY <1>0, <1>1, <1>3 DEF TypeOK
<1>5. Asking' = Asking
  BY <1>3 DEF Asking
<1>6. Turns'
  BY <1>0, <1>5 DEF Turns
<1>7. QueuedAreEnqueued' /\ QueuedOnce'
  BY <1>0, <1>1 DEF QueuedAreEnqueued, QueuedOnce
<1>8. RequestsInOrder'
  BY <1>2, <1>3, RequestsKept
<1>9. JobsInStage'
  BY <1>0, <1>2, <1>3 DEF JobsInStage, Idle
<1>10. OneGenerator'
  BY <1>0, <1>3 DEF OneGenerator
<1> QED
  BY <1>4, <1>6, <1>7, <1>8, <1>9, <1>10 DEF EmergeInv, RequestsInOrder

LEMMA PopInv ==
  ASSUME EmergeInv, NEW t \in Threads, UNCHANGED scenario, Pop(t) \/ CancelNext(t)
  PROVE  EmergeInv'
<1> DEFINE next == IF pc[t] = "cancel" THEN "cancel"
                   ELSE IF Head(m_block_queue[t]) \in OverLimit THEN "loop" ELSE "decide"
<1>0. /\ TypeOK /\ Turns /\ JobsInStage /\ OneGenerator
  BY DEF EmergeInv
<1>1. /\ m_block_queue[t] # <<>> /\ PopHead(t, next) /\ job[t].callbacks = {}
      /\ pc[t] \in {"loop", "cancel"}
      /\ next = "loop" => Head(m_block_queue[t]) \in OverLimit
      /\ next = "cancel" <=> pc[t] = "cancel"
      /\ UNCHANGED <<mapVars, envLock, server, requestVars>>
  BY <1>0 DEF Pop, CancelNext, JobsInStage, Idle, lockVars, serverVars
<1>2. next \in {"loop", "decide", "cancel"} /\ next \in Places
  BY DEF Places
<1> HIDE DEF next
<1>3. PICK b \in Enqueued :
         /\ Enqueued' = Enqueued \ {b} /\ m_blocks_enqueued' \in [Enqueued' -> Entries]
         /\ m_block_queue' \in [Threads -> Seq(Blocks)]
         /\ QueuedAreEnqueued' /\ QueuedOnce'
         /\ job' \in [Threads -> Jobs] /\ pc' \in [Threads -> Places]
         /\ pc'[t] = next /\ job'[t].action = "CANCELLED"
         /\ job'[t].callbacks = IF next = "loop" THEN {} ELSE m_blocks_enqueued[b].callbacks
         /\ next # "loop" => job'[t].block = b
         /\ \A u \in Threads \ {t} : job'[u] = job[u] /\ pc'[u] = pc[u]
  BY <1>1, <1>2, PopQueues
<1>4. TypeOK'
  BY <1>0, <1>1, <1>3 DEF TypeOK, mapVars, requestVars
<1>5. Asking' = Asking
  BY <1>1, <1>2, <1>3 DEF Asking
<1>6. Turns'
  BY <1>0, <1>1, <1>5 DEF Turns, requestVars
<1>7. RequestsInOrder'
  BY <1>1, <1>2, RequestsPopped DEF requestVars
<1>8. JobsInStage'
  BY <1>0, <1>1, <1>2, <1>3 DEF JobsInStage, Idle, TypeOK, mapVars
<1>9. OneGenerator'
  <2>1. /\ pc'[t] # "generate" /\ m_chunks_in_progress' = m_chunks_in_progress
        /\ \A u \in Threads \ {t} : job'[u] = job[u] /\ pc'[u] = pc[u]
    BY <1>1, <1>2, <1>3 DEF mapVars
  <2> QED
    BY <1>0, <2>1 DEF OneGenerator
<1> QED
  BY <1>3, <1>4, <1>6, <1>7, <1>8, <1>9 DEF EmergeInv, RequestsInOrder

\* getBlockOrStartGen comes to an end with the given action.
LEMMA OutcomeInv ==
  ASSUME EmergeInv, NEW t \in Threads, NEW action \in Answers,
         pc[t] \in {"decide", "redecide"}, Outcome(t, action),
         generated \subseteq generated', generated' \subseteq present',
         present \subseteq present', present' \subseteq Blocks,
         action # "CANCELLED" => job[t].block \in generated',
         m_chunks_in_progress \subseteq m_chunks_in_progress',
         UNCHANGED <<queueVars, requestVars, scenario, envLock, server>>
  PROVE  EmergeInv'
<1> USE DEF queueVars, requestVars
<1>0. /\ TypeOK /\ Turns /\ QueuedAreEnqueued /\ QueuedOnce /\ RequestsInOrder
      /\ JobsInStage /\ OneGenerator
  BY DEF EmergeInv, RequestsInOrder
<1>1. Enqueued' = Enqueued
  BY DEF Enqueued
<1>2. /\ job' = [job EXCEPT ![t].action = action, ![t].found = job[t].block \in present']
      /\ pc' = [pc EXCEPT ![t] = "answer"]
  BY DEF Outcome, Goto
<1>3. job \in [Threads -> Jobs] /\ job[t] \in Jobs
  BY <1>0 DEF TypeOK
<1>4. /\ job' \in [Threads -> Jobs] /\ job'[t].action = action
      /\ job'[t].block = job[t].block /\ job'[t].callbacks = job[t].callbacks
      /\ \A u \in Threads \ {t} : job'[u] = job[u]
  <2> DEFINE found == job[t].block \in present'
  <2>1. found \in BOOLEAN /\ job' = [job EXCEPT ![t].action = action, ![t].found = found]
    BY <1>2
  <2> HIDE DEF found
  <2>2. job'[t] = [job[t] EXCEPT !.action = action, !.found = found]
        /\ \A u \in Threads \ {t} : job'[u] = job[u]
    BY <1>3, <2>1
  <2>3. job'[t] \in Jobs /\ job'[t].action = action
        /\ job'[t].block = job[t].block /\ job'[t].callbacks = job[t].callbacks
    BY <1>3, <2>1, <2>2 DEF Jobs
  <2> QED
    BY <1>3, <2>1, <2>2, <2>3
<1>5. /\ pc' \in [Threads -> Places] /\ pc'[t] = "answer"
      /\ \A u \in Threads \ {t} : pc'[u] = pc[u]
  BY <1>0, <1>2 DEF TypeOK, Places
<1>6. TypeOK'
  BY <1>0, <1>1, <1>4, <1>5 DEF TypeOK
<1>7. Asking' = Asking
  BY <1>5 DEF Asking
<1>8. Turns'
  BY <1>0, <1>7 DEF Turns
<1>9. QueuedAreEnqueued' /\ QueuedOnce'
  BY <1>0, <1>1 DEF QueuedAreEnqueued, QueuedOnce
<1>10. RequestsInOrder'
  BY <1>4, RequestsKept
<1>11. JobsInStage'
  BY <1>0, <1>4, <1>5 DEF JobsInStage, Idle
<1>12. OneGenerator'
  BY <1>0, <1>4, <1>5 DEF OneGenerator
<1> QED
  BY <1>6, <1>8, <1>9, <1>10, <1>11, <1>12 DEF EmergeInv, RequestsInOrder

\* The job goes on, unchanged, in another stage; perhaps a chunk is begun.
LEMMA StageInv ==
  ASSUME EmergeInv, NEW t \in Threads, NEW place \in {"redecide", "generate"},
         pc[t] \in {"decide", "redecide"}, pc' = [pc EXCEPT ![t] = place],
         \/ place = "redecide" /\ UNCHANGED m_chunks_in_progress
         \/ /\ ChunkBlocks(job[t].block) \subseteq present'
            /\ ChunkOf[job[t].block] \notin m_chunks_in_progress
            /\ m_chunks_in_progress' = m_chunks_in_progress \cup {ChunkOf[job[t].block]},
         generated \subseteq generated', generated' \subseteq present',
         present \subseteq present', present' \subseteq Blocks,
         UNCHANGED <<queueVars, job, requestVars, scenario, envLock, server>>
  PROVE  EmergeInv'
<1> USE DEF queueVars, requestVars
<1>0. /\ TypeOK /\ Turns /\ QueuedAreEnqueued /\ QueuedOnce /\ RequestsInOrder
      /\ JobsInStage /\ OneGenerator
  BY DEF EmergeInv, RequestsInOrder
<1>1. Enqueued' = Enqueued
  BY DEF Enqueued
<1>2. /\ pc' \in [Threads -> Places] /\ pc'[t] = place
      /\ \A u \in Threads \ {t} : pc'[u] = pc[u]
  BY <1>0 DEF TypeOK, Places
<1>3. TypeOK'
  BY <1>0, <1>1, <1>2 DEF TypeOK
<1>4. Asking' = Asking
  BY <1>2 DEF Asking
<1>5. Turns'
  BY <1>0, <1>4 DEF Turns
<1>6. QueuedAreEnqueued' /\ QueuedOnce'
  BY <1>0, <1>1 DEF QueuedAreEnqueued, QueuedOnce
<1>7. RequestsInOrder'
  BY RequestsKept
<1>8. JobsInStage'
  BY <1>0, <1>2 DEF JobsInStage, Idle
<1>9. OneGenerator'
  BY <1>0, <1>2 DEF OneGenerator
<1> QED
  BY <1>3, <1>5, <1>6, <1>7, <1>8, <1>9 DEF EmergeInv, RequestsInOrder

LEMMA StartGenInv ==
  ASSUME EmergeInv, NEW t \in Threads, pc[t] \in {"decide", "redecide"}, StartGen(t),
         UNCHANGED <<queueVars, requestVars, scenario, envLock, server>>
  PROVE  EmergeInv'
<1> DEFINE chunk == ChunkOf[job[t].block]
           blocks == ChunkBlocks(job[t].block)
<1>0. TypeOK
  BY DEF EmergeInv
<1>1. CASE /\ job[t].gen /\ chunk \notin m_chunks_in_progress
           /\ chunk \notin OverMapgenLimit
  <2>1. /\ m_chunks_in_progress' = m_chunks_in_progress \cup {chunk}
        /\ generated' = generated \cup ((blocks \ present) \cap OnDisk)
        /\ present' = present \cup blocks
        /\ pc' = [pc EXCEPT ![t] = "generate"] /\ job' = job
    BY <1>1 DEF StartGen, Goto, ChunkBlocks
  <2>2. /\ generated \subseteq generated' /\ generated' \subseteq present'
        /\ present \subseteq present' /\ present' \subseteq Blocks
    BY <1>0, <2>1 DEF TypeOK, ChunkBlocks
  <2> QED
    BY <1>1, <2>1, <2>2, StageInv
<1>2. CASE ~(job[t].gen /\ chunk \notin m_chunks_in_progress)
           \/ chunk \in OverMapgenLimit
  <2>1. /\ UNCHANGED <<present, generated>> /\ Outcome(t, "CANCELLED")
        /\ m_chunks_in_progress \subseteq m_chunks_in_progress'
    BY <1>2 DEF StartGen, mapVars
  <2>2. /\ generated \subseteq generated' /\ generated' \subseteq present'
        /\ present \subseteq present' /\ present' \subseteq Blocks
    BY <1>0, <2>1 DEF TypeOK
  <2>3. "CANCELLED" \in Answers
    BY DEF Answers
  <2> QED
    BY <2>1, <2>2, <2>3, OutcomeInv
<1> QED
  BY <1>1, <1>2

LEMMA DecideInv ==
  ASSUME EmergeInv, NEW t \in Threads, UNCHANGED scenario, Decide(t)
  PROVE  EmergeInv'
<1>0. TypeOK
  BY DEF EmergeInv
<1>1. /\ pc[t] = "decide" /\ UNCHANGED <<queueVars, requestVars, scenario, envLock, server>>
      /\ pc[t] \in {"decide", "redecide"}
  BY DEF Decide, lockVars, serverVars
<1>2. CASE job[t].block \in generated
  <2>1. UNCHANGED mapVars /\ Outcome(t, "FROM_MEMORY")
    BY <1>2 DEF Decide
  <2>2. /\ generated \subseteq generated' /\ generated' \subseteq present'
        /\ present \subseteq present' /\ present' \subseteq Blocks
    BY <1>0, <2>1 DEF TypeOK, mapVars
  <2>3. "FROM_MEMORY" \in Answers /\ job[t].block \in generated'
    BY <1>2, <2>1 DEF Answers, mapVars
  <2> QED
    BY <1>1, <2>1, <2>2, <2>3, OutcomeInv DEF mapVars
<1>3. CASE job[t].block \notin generated /\ job[t].block \in present
  <2>1. StartGen(t)
    BY <1>3 DEF Decide
  <2> QED
    BY <1>1, <2>1, StartGenInv
<1>4. CASE job[t].block \notin generated /\ job[t].block \notin present
  <2>1. pc' = [pc EXCEPT ![t] = "redecide"] /\ UNCHANGED <<job, mapVars>>
    BY <1>4 DEF Decide, Goto
  <2>2. /\ generated \subseteq generated' /\ generated' \subseteq present'
        /\ present \subseteq present' /\ present' \subseteq Blocks
    BY <1>0, <2>1 DEF TypeOK, mapVars
  <2> QED
    BY <1>1, <2>1, <2>2, StageInv DEF mapVars
<1> QED
  BY <1>2, <1>3, <1>4

LEMMA RedecideInv ==
  ASSUME EmergeInv, NEW t \in Threads, UNCHANGED scenario, Redecide(t)
  PROVE  EmergeInv'
<1>0. TypeOK /\ JobsInStage
  BY DEF EmergeInv
<1>1. /\ pc[t] = "redecide" /\ UNCHANGED <<queueVars, requestVars, scenario, envLock, server>>
      /\ pc[t] \in {"decide", "redecide"} /\ job[t].block \in Blocks
  BY <1>0 DEF Redecide, lockVars, serverVars, JobsInStage
<1>2. CASE job[t].block \in generated
  <2>1. UNCHANGED mapVars /\ Outcome(t, "FROM_MEMORY")
    BY <1>2 DEF Redecide
  <2>2. /\ generated \subseteq generated' /\ generated' \subseteq present'
        /\ present \subseteq present' /\ present' \subseteq Blocks
    BY <1>0, <2>1 DEF TypeOK, mapVars
  <2>3. "FROM_MEMORY" \in Answers /\ job[t].block \in generated'
    BY <1>2, <2>1 DEF Answers, mapVars
  <2> QED
    BY <1>1, <2>1, <2>2, <2>3, OutcomeInv DEF mapVars
<1>3. CASE job[t].block \notin generated /\ job[t].block \in OnDisk \ present
  <2>1. /\ present' = present \cup {job[t].block} /\ generated' = generated \cup {job[t].block}
        /\ UNCHANGED m_chunks_in_progress /\ Outcome(t, "FROM_DISK")
    BY <1>3 DEF Redecide
  <2>2. /\ generated \subseteq generated' /\ generated' \subseteq present'
        /\ present \subseteq present' /\ present' \subseteq Blocks
    BY <1>0, <1>1, <2>1 DEF TypeOK
  <2>3. "FROM_DISK" \in Answers /\ job[t].block \in generated'
    BY <2>1 DEF Answers
  <2> QED
    BY <1>1, <2>1, <2>2, <2>3, OutcomeInv
<1>4. CASE job[t].block \notin generated /\ job[t].block \notin OnDisk \ present
  <2>1. StartGen(t)
    BY <1>4 DEF Redecide
  <2> QED
    BY <1>1, <2>1, StartGenInv
<1> QED
  BY <1>2, <1>3, <1>4

LEMMA FinishGenInv ==
  ASSUME EmergeInv, NEW t \in Threads, UNCHANGED scenario, FinishGen(t)
  PROVE  EmergeInv'
<1> USE DEF queueVars, serverVars
<1>0. /\ TypeOK /\ Turns /\ QueuedAreEnqueued /\ QueuedOnce /\ RequestsInOrder
      /\ JobsInStage /\ OneGenerator
  BY DEF EmergeInv, RequestsInOrder
<1> DEFINE chunk == ChunkOf[job[t].block]
           blocks == ChunkBlocks(job[t].block)
<1>1. /\ pc[t] = "generate" /\ envLock = None
      /\ generated' = generated \cup blocks /\ m_chunks_in_progress' = m_chunks_in_progress \ {chunk}
      /\ job' = [job EXCEPT ![t].action = "GENERATED", ![t].found = TRUE]
      /\ UNCHANGED <<queueVars, present, server, asked, answers>>
      /\ \/ pc' = [pc EXCEPT ![t] = "answer"] /\ UNCHANGED <<envLock, made>>
         \/ /\ made < scenario.requests /\ made' = made + 1
            /\ pc' = [pc EXCEPT ![t] = "ask"] /\ envLock' = t
  BY DEF FinishGen, Goto, ChunkBlocks
<1>2. job \in [Threads -> Jobs] /\ job[t] \in Jobs /\ job[t].block \in Blocks
  BY <1>0, <1>1 DEF TypeOK, JobsInStage
<1>3. /\ job' \in [Threads -> Jobs] /\ job'[t].action = "GENERATED"
      /\ job'[t].block = job[t].block /\ job'[t].callbacks = job[t].callbacks
      /\ \A u \in Threads \ {t} : job'[u] = job[u]
  BY <1>1, <1>2 DEF Jobs, Answers
<1>4. /\ pc' \in [Threads -> Places] /\ pc'[t] \in {"answer", "ask"}
      /\ \A u \in Threads \ {t} : pc'[u] = pc[u]
      /\ pc'[t] = "answer" => UNCHANGED <<envLock, made>>
      /\ pc'[t] = "ask" => made < scenario.requests /\ made' = made + 1 /\ envLock' = t
  BY <1>0, <1>1 DEF TypeOK, Places
<1>5. Enqueued' = Enqueued
  BY <1>1 DEF Enqueued
<1>6. job[t].block \in blocks /\ blocks \subseteq Blocks
  BY <1>2 DEF ChunkBlocks
<1>7. blocks \subseteq present'
  BY <1>0, <1>1 DEF JobsInStage
<1>8. TypeOK'
  <2>1. made' \in Nat
    BY <1>0, <1>4 DEF TypeOK
  <2> QED
    BY <1>0, <1>1, <1>3, <1>4, <1>5, <1>7, <2>1 DEF TypeOK
<1>9. Asking = {}
  BY <1>0, <1>1, EmergeAssumption DEF Turns, Asking, Threads
<1>10. Turns'
  <2>0. scenario.requests \in Nat
    BY <1>0, EmergeAssumption DEF TypeOK
  <2>1. Asking' \subseteq {t} /\ (t \in Asking' => pc'[t] = "ask")
    BY <1>4, <1>9 DEF Asking
  <2>2. server # "signalling" \/ envLock = Server
    BY <1>0 DEF Turns
  <2>3. server # "signalling"
    BY <1>1, <2>2, EmergeAssumption DEF Server
  <2>4. Len(asked) \in Nat /\ made \in Nat
    BY <1>0 DEF TypeOK
  <2>5. CASE pc'[t] = "answer"
    BY <1>0, <1>1, <1>4, <2>1, <2>3, <2>5 DEF Turns
  <2>6. CASE pc'[t] = "ask"
    BY <1>0, <1>1, <1>4, <2>0, <2>1, <2>3, <2>4, <2>6 DEF Turns
  <2> QED
    BY <1>4, <2>5, <2>6
<1>11. QueuedAreEnqueued' /\ QueuedOnce'
  BY <1>0, <1>1, <1>5 DEF QueuedAreEnqueued, QueuedOnce
<1>12. RequestsInOrder'
  BY <1>1, <1>3, RequestsKept
<1>13. JobsInStage'
  BY <1>0, <1>1, <1>3, <1>4, <1>6 DEF JobsInStage, Idle
<1>14. OneGenerator'
  BY <1>0, <1>1, <1>3, <1>4 DEF OneGenerator
<1> QED
  BY <1>8, <1>10, <1>11, <1>12, <1>13, <1>14 DEF EmergeInv, RequestsInOrder

LEMMA CallbackInv ==
  ASSUME EmergeInv, NEW t \in Threads, NEW q \in Requests, UNCHANGED scenario, Callback(t, q)
  PROVE  EmergeInv'
<1> USE DEF queueVars, serverVars, mapVars
<1>0. /\ TypeOK /\ Turns /\ QueuedAreEnqueued /\ QueuedOnce /\ JobsInStage /\ OneGenerator
  BY DEF EmergeInv
<1>1. /\ pc[t] \in {"answer", "cancel"} /\ envLock = None
      /\ UNCHANGED <<queueVars, mapVars, server, asked>>
      /\ \/ UNCHANGED <<pc, envLock, made>>
         \/ /\ made < scenario.requests /\ made' = made + 1 /\ envLock' = t
            /\ pc' = [pc EXCEPT ![t] = IF pc[t] = "answer" THEN "ask" ELSE "askAtEnd"]
  BY DEF Callback, Goto
<1>2. /\ RequestsInOrder' /\ job' \in [Threads -> Jobs]
      /\ answers' \in [Requests -> Seq(Answers)]
      /\ \A u \in Threads : /\ job'[u].block = job[u].block
                            /\ job'[u].action = job[u].action
                            /\ job'[u].callbacks \subseteq job[u].callbacks
  BY RequestsAnswered
<1>3. /\ pc' \in [Threads -> Places]
      /\ \A u \in Threads \ {t} : pc'[u] = pc[u]
      /\ \/ pc'[t] = pc[t] /\ UNCHANGED <<envLock, made>>
         \/ /\ pc'[t] = IF pc[t] = "answer" THEN "ask" ELSE "askAtEnd"
            /\ made < scenario.requests /\ made' = made + 1 /\ envLock' = t
  <2>0. pc \in [Threads -> Places]
    BY <1>0 DEF TypeOK
  <2>1. CASE UNCHANGED <<pc, envLock, made>>
    BY <2>0, <2>1
  <2>2. CASE /\ made < scenario.requests /\ made' = made + 1 /\ envLock' = t
             /\ pc' = [pc EXCEPT ![t] = IF pc[t] = "answer" THEN "ask" ELSE "askAtEnd"]
    BY <2>0, <2>2 DEF Places
  <2> QED
    BY <1>1, <2>1, <2>2
<1>4. Enqueued' = Enqueued
  BY <1>1 DEF Enqueued
<1>5. TypeOK'
  <2>1. made' \in Nat
    BY <1>0, <1>3 DEF TypeOK
  <2> QED
    BY <1>0, <1>1, <1>2, <1>3, <1>4, <2>1 DEF TypeOK
<1>6. Asking = {}
  BY <1>0, <1>1, EmergeAssumption DEF Turns, Asking, Threads
<1>7. Turns'
  <2>0. scenario.requests \in Nat
    BY <1>0, EmergeAssumption DEF TypeOK
  <2>1. Asking' \subseteq {t} /\ (t \in Asking' => pc'[t] # pc[t])
    BY <1>3, <1>6 DEF Asking
  <2>2. server # "signalling"
    BY <1>0, <1>1, EmergeAssumption DEF Turns, Server
  <2>3. Len(asked) \in Nat /\ made \in Nat
    BY <1>0 DEF TypeOK
  <2>4. CASE pc'[t] = pc[t] /\ UNCHANGED <<envLock, made>>
    BY <1>0, <1>1, <2>1, <2>2, <2>4 DEF Turns
  <2>5. CASE /\ pc'[t] = IF pc[t] = "answer" THEN "ask" ELSE "askAtEnd"
             /\ made < scenario.requests /\ made' = made + 1 /\ envLock' = t
    BY <1>0, <1>1, <2>0, <2>1, <2>2, <2>3, <2>5 DEF Turns
  <2> QED
    BY <1>3, <2>4, <2>5
<1>8. QueuedAreEnqueued' /\ QueuedOnce'
  BY <1>0, <1>1, <1>4 DEF QueuedAreEnqueued, QueuedOnce
<1>9. JobsInStage'
  <2> SUFFICES ASSUME NEW u \in Threads
               PROVE  /\ u \in Idle' => job'[u].callbacks = {}
                      /\ pc'[u] \in {"decide", "redecide", "generate", "answer", "ask"} =>
                           job'[u].block \in Blocks
                      /\ pc'[u] = "generate" => ChunkBlocks(job'[u].block) \subseteq present
                      /\ pc'[u] \in {"answer", "ask"} /\ job'[u].action # "CANCELLED" =>
                           job'[u].block \in generated
                      /\ pc'[u] \in {"cancel", "askAtEnd"} => job'[u].action = "CANCELLED"
    BY <1>1 DEF JobsInStage, ChunkBlocks
  <2>1. CASE u # t
    BY <1>0, <1>1, <1>2, <1>3, <2>1 DEF JobsInStage, Idle
  <2>2. CASE u = t
    BY <1>0, <1>1, <1>2, <1>3, <2>2 DEF JobsInStage, Idle
  <2> QED
    BY <2>1, <2>2
<1>10. OneGenerator'
  <2>1. pc'[t] # "generate"
    BY <1>1, <1>3
  <2> QED
    BY <1>0, <1>1, <1>2, <1>3, <2>1 DEF OneGenerator
<1> QED
  BY <1>2, <1>5, <1>7, <1>8, <1>9, <1>10 DEF EmergeInv, RequestsInOrder

LEMMA CallbackAsksInv ==
  ASSUME EmergeInv, NEW t \in Threads, NEW b \in Blocks, UNCHANGED scenario, CallbackAsks(t, b)
  PROVE  EmergeInv'
<1> USE DEF serverVars, mapVars
<1>0. /\ TypeOK /\ Turns /\ JobsInStage /\ OneGenerator
  BY DEF EmergeInv
<1> DEFINE new == {Len(asked) + 1}
<1>1. /\ pc[t] \in {"ask", "askAtEnd"} /\ envLock' = None
      /\ asked' = Append(asked, b) /\ Push(b, None, TRUE, {Len(asked')})
      /\ pc' = [pc EXCEPT ![t] = IF pc[t] = "ask" THEN "answer" ELSE "cancel"]
      /\ UNCHANGED <<job, mapVars, server, made, answers>>
  BY DEF CallbackAsks, Goto
<1>2. /\ asked' \in Seq(Blocks) /\ Len(asked') = Len(asked) + 1 /\ Len(asked) \in Nat
      /\ made \in Nat /\ scenario.requests \in 0 .. MaxRequests
  BY <1>0, <1>1, EmergeAssumption DEF TypeOK
<1>3. t \in Asking /\ envLock = t /\ Len(asked) < made /\ made <= scenario.requests
  BY <1>0, <1>1 DEF Turns, Asking
<1>4. Len(asked) + 1 \in Requests /\ new \in SUBSET Requests
  BY <1>2, <1>3, EmergeAssumption DEF Requests
<1>5. Push(b, None, TRUE, new)
  BY <1>1, <1>2
<1> HIDE DEF new
<1>6. /\ Enqueued' = Enqueued \cup {b} /\ m_blocks_enqueued' \in [Enqueued' -> Entries]
      /\ m_block_queue' \in [Threads -> Seq(Blocks)] /\ QueuedAreEnqueued' /\ QueuedOnce'
  BY <1>4, <1>5, PushQueues
<1>7. RequestsInOrder'
  BY <1>1, <1>4, <1>5, RequestsPushed DEF new
<1>8. /\ pc' \in [Threads -> Places]
      /\ pc'[t] = IF pc[t] = "ask" THEN "answer" ELSE "cancel"
      /\ \A u \in Threads \ {t} : pc'[u] = pc[u]
  BY <1>0, <1>1 DEF TypeOK, Places
<1>9. TypeOK'
  BY <1>0, <1>1, <1>2, <1>6, <1>8 DEF TypeOK
<1>10. Asking = {t}
  BY <1>0, <1>3 DEF Turns
<1>11. Asking' = {}
  BY <1>8, <1>10 DEF Asking
<1>12. Turns'
  <2>1. server # "signalling"
    BY <1>0, <1>3, EmergeAssumption DEF Turns, Server, Threads
  <2> QED
    BY <1>1, <1>2, <1>3, <1>11, <2>1 DEF Turns
<1>13. JobsInStage'
  BY <1>0, <1>1, <1>8 DEF JobsInStage, Idle
<1>14. OneGenerator'
  BY <1>0, <1>1, <1>8 DEF OneGenerator
<1> QED
  BY <1>6, <1>7, <1>9, <1>12, <1>13, <1>14 DEF EmergeInv, RequestsInOrder

LEMMA ServerAsksInv ==
  ASSUME EmergeInv, NEW b \in Blocks, NEW peer \in Peers \cup {None}, NEW gen \in BOOLEAN,
         NEW callback \in BOOLEAN, UNCHANGED scenario, ServerAsks(b, peer, gen, callback)
  PROVE  EmergeInv'
<1> USE DEF threadVars, mapVars
<1>0. /\ TypeOK /\ Turns /\ QueuedAreEnqueued /\ QueuedOnce /\ JobsInStage /\ OneGenerator
  BY DEF EmergeInv
<1>1. /\ server = "idle" /\ envLock = None /\ made < scenario.requests /\ made' = made + 1
      /\ UNCHANGED <<pc, job, mapVars, answers>>
      /\ server' \in {"idle", "signalling"} /\ (server' = "signalling" => envLock' = Server)
  BY DEF ServerAsks
<1>2. /\ Len(asked) \in Nat /\ made \in Nat /\ scenario.requests \in 0 .. MaxRequests
  BY <1>0, EmergeAssumption DEF TypeOK
<1>3. Asking = {} /\ Asking' = {}
  BY <1>0, <1>1, EmergeAssumption DEF Turns, Asking, Threads
<1>4. /\ Enqueued' \subseteq Blocks /\ m_blocks_enqueued' \in [Enqueued' -> Entries]
      /\ m_block_queue' \in [Threads -> Seq(Blocks)] /\ QueuedAreEnqueued' /\ QueuedOnce'
      /\ RequestsInOrder' /\ asked' \in Seq(Blocks) /\ Len(asked') <= Len(asked) + 1
  <2>1. CASE callback
    <3> DEFINE new == {Len(asked) + 1}
    <3>1. asked' = Append(asked, b) /\ Len(asked') = Len(asked) + 1
      BY <1>0, <2>1 DEF ServerAsks, TypeOK
    <3>2. Push(b, peer, gen, new)
      BY <2>1, <3>1 DEF ServerAsks
    <3>3. Len(asked) + 1 \in Requests /\ new \in SUBSET Requests
      BY <1>0, <1>1, <1>2, EmergeAssumption DEF Requests, Turns
    <3> HIDE DEF new
    <3>4. /\ Enqueued' = Enqueued \cup {b} /\ m_blocks_enqueued' \in [Enqueued' -> Entries]
          /\ m_block_queue' \in [Threads -> Seq(Blocks)] /\ QueuedAreEnqueued' /\ QueuedOnce'
      BY <3>2, <3>3, PushQueues
    <3>5. RequestsInOrder'
      BY <1>1, <3>1, <3>2, <3>3, RequestsPushed DEF new
    <3> QED
      BY <1>0, <1>2, <3>1, <3>4, <3>5 DEF TypeOK
  <2>2. CASE ~callback /\ MayQueue(peer, gen)
    <3> DEFINE new == {}
    <3>1. asked' = asked /\ new \in SUBSET Requests
      BY <2>2 DEF ServerAsks
    <3>2. Push(b, peer, gen, new)
      BY <2>2 DEF ServerAsks
    <3> HIDE DEF new
    <3>4. /\ Enqueued' = Enqueued \cup {b} /\ m_blocks_enqueued' \in [Enqueued' -> Entries]
          /\ m_block_queue' \in [Threads -> Seq(Blocks)] /\ QueuedAreEnqueued' /\ QueuedOnce'
      BY <3>1, <3>2, PushQueues
    <3>5. RequestsInOrder'
      BY <1>1, <3>1, <3>2, RequestsPushed DEF new
    <3> QED
      BY <1>0, <1>2, <3>1, <3>4, <3>5 DEF TypeOK
  <2>3. CASE ~callback /\ ~MayQueue(peer, gen)
    <3>1. UNCHANGED queueVars /\ asked' = asked
      BY <2>3 DEF ServerAsks
    <3>2. Enqueued' = Enqueued
      BY <3>1 DEF Enqueued, queueVars
    <3>3. RequestsInOrder'
      BY <1>1, <3>1, RequestsKept DEF queueVars
    <3>4. QueuedAreEnqueued' /\ QueuedOnce'
      BY <1>0, <3>1, <3>2 DEF QueuedAreEnqueued, QueuedOnce, queueVars
    <3> QED
      BY <1>0, <1>2, <3>1, <3>2, <3>3, <3>4 DEF TypeOK, queueVars
  <2> QED
    BY <2>1, <2>2, <2>3
<1>5. TypeOK'
  BY <1>0, <1>1, <1>2, <1>4 DEF TypeOK
<1>6. Turns'
  <2>1. Len(asked') \in Nat
    BY <1>4
  <2> QED
    BY <1>0, <1>1, <1>2, <1>3, <1>4, <2>1 DEF Turns
<1>7. JobsInStage' /\ OneGenerator'
  BY <1>0, <1>1 DEF JobsInStage, Idle, OneGenerator
<1> QED
  BY <1>4, <1>5, <1>6, <1>7 DEF EmergeInv, RequestsInOrder

LEMMA ThreadStepInv ==
  ASSUME EmergeInv, NEW t \in Threads, UNCHANGED scenario, ThreadStep(t)
  PROVE  EmergeInv'
<1>1. CASE Pop(t) \/ CancelNext(t)
  BY <1>1, PopInv
<1>2. CASE FindNothing(t)
  <2>1. t \in Idle /\ pc' = [pc EXCEPT ![t] = "wait"]
    BY <1>2 DEF FindNothing, Idle, Goto
  <2> QED
    BY <1>2, <2>1, MovesOnly DEF FindNothing, lockVars, serverVars
<1>3. CASE Wake(t)
  <2>1. t \in Idle /\ pc' = [pc EXCEPT ![t] = "loop"]
    BY <1>3 DEF Wake, Idle, Goto
  <2> QED
    BY <1>3, <2>1, MovesOnly DEF Wake, lockVars, serverVars
<1>4. CASE LeaveLoop(t)
  <2>1. t \in Idle /\ pc' = [pc EXCEPT ![t] = "end"]
    BY <1>4 DEF LeaveLoop, Idle, Goto
  <2> QED
    BY <1>4, <2>1, MovesOnly DEF LeaveLoop, lockVars, serverVars
<1>5. CASE Decide(t)
  BY <1>5, DecideInv
<1>6. CASE Redecide(t)
  BY <1>6, RedecideInv
<1>7. CASE FinishGen(t)
  BY <1>7, FinishGenInv
<1>8. CASE \E q \in Requests : Callback(t, q)
  BY <1>8, CallbackInv
<1>9. CASE \E b \in Blocks : CallbackAsks(t, b)
  BY <1>9, CallbackAsksInv
<1>10. CASE Answered(t)
  <2>1. pc' = [pc EXCEPT ![t] = "loop"] /\ pc[t] = "answer" /\ job[t].callbacks = {}
    BY <1>10 DEF Answered, Goto
  <2> QED
    BY <1>10, <2>1, GivesUpJob DEF Answered, lockVars, serverVars
<1>11. CASE BeginCancel(t)
  <2>1. pc' = [pc EXCEPT ![t] = "cancel"] /\ pc[t] = "end"
    BY <1>11 DEF BeginCancel, Goto
  <2>2. job[t].callbacks = {}
    BY <2>1 DEF EmergeInv, JobsInStage, Idle
  <2> QED
    BY <1>11, <2>1, <2>2, GivesUpJob DEF BeginCancel, serverVars
<1>12. CASE EndThread(t)
  <2>1. pc' = [pc EXCEPT ![t] = "ended"] /\ pc[t] = "cancel" /\ job[t].callbacks = {}
    BY <1>12 DEF EndThread, Goto
  <2> QED
    BY <1>12, <2>1, GivesUpJob DEF EndThread, serverVars
<1> QED
  BY <1>1, <1>2, <1>3, <1>4, <1>5, <1>6, <1>7, <1>8, <1>9, <1>10, <1>11, <1>12 DEF ThreadStep

LEMMA NextInv == EmergeInv /\ [Next]_vars => EmergeInv'
<1>1. SUFFICES ASSUME EmergeInv, [Next]_vars PROVE EmergeInv'
  OBVIOUS
<1>2. ASSUME NEW b \in Blocks, NEW k \in Kinds, UNCHANGED scenario,
             ServerAsks(b, k.peer, k.gen, k.callback)
      PROVE  EmergeInv'
  <2>1. k.peer \in Peers \cup {None} /\ k.gen \in BOOLEAN /\ k.callback \in BOOLEAN
    BY EmergeAssumption
  <2> QED
    BY <1>1, <1>2, <2>1, ServerAsksInv
<1>3. CASE ServerSignals /\ UNCHANGED scenario
  BY <1>1, <1>3, MovesOnly DEF ServerSignals
<1>4. CASE StopThreads /\ UNCHANGED scenario
  BY <1>1, <1>4, MovesOnly DEF StopThreads, threadVars, lockVars
<1>5. ASSUME NEW t \in Threads, StopThread(t), UNCHANGED scenario PROVE EmergeInv'
  BY <1>1, <1>5, MovesOnly DEF StopThread, lockVars, serverVars
<1>6. ASSUME NEW t \in Threads, ThreadStep(t), UNCHANGED scenario PROVE EmergeInv'
  BY <1>1, <1>6, ThreadStepInv
<1>7. CASE UNCHANGED vars
  BY <1>1, <1>7, MovesOnly DEF vars, threadVars, lockVars, serverVars
<1> QED
  BY <1>1, <1>2, <1>3, <1>4, <1>5, <1>6, <1>7 DEF Next, Step

-----------------------------------------------------------------------------
(***************************************************************************)
(* What is queued is counted.  A second invariant, on top of the first:    *)
(* each entry is in a queue (EnqueuedAreQueued) and each count is the      *)
(* number of its peer's entries (PeersCounted).                            *)
(***************************************************************************)
EnqueuedAreQueued ==
  \A b \in Enqueued : \E t \in Threads : \E i \in DOMAIN m_block_queue[t] :
    m_block_queue[t][i] = b

\* The entries that are counted for a peer.
EntriesOf(peer) == {b \in Enqueued : m_blocks_enqueued[b].peer = peer}

PeersCounted ==
  /\ m_peer_queue_count \in [Peers \cup {None} -> Nat]
  /\ \A p \in Peers \cup {None} : m_peer_queue_count[p] = Cardinality(EntriesOf(p))

\* A non-empty set of naturals has a least element, and Min is it.
LEMMA LeastNat ==
  ASSUME NEW T, T \subseteq Nat, T # {}
  PROVE  Min(T) \in T /\ \A x \in T : Min(T) <= x
<1> DEFINE R == OpToRel(<, Nat)
<1>1. IsWellFoundedOn(R, Nat)
  BY NatLessThanWellFounded
<1>2. \A x, y \in Nat : x < y => <<x, y>> \in R
  BY DEF OpToRel
<1> HIDE DEF R
<1>3. PICK x \in T : \A y \in T : <<y, x>> \notin R
  BY <1>1, WFMin
<1>4. \A y \in T : y \in Nat /\ x \in Nat /\ ~(y < x)
  BY <1>2, <1>3
<1>5. \A y \in T : x <= y
  BY <1>4
<1> QED
  BY <1>5 DEF Min

\* getOptimalThread finds a thread.
LEMMA OptimalThreadExists ==
  ASSUME TypeOK
  PROVE  OptimalThread \in Threads
<1> DEFINE best == {t \in Threads : \A u \in Threads :
                      Len(m_block_queue[t]) <= Len(m_block_queue[u])}
           lengths == {Len(m_block_queue[t]) : t \in Threads}
<1>1. 1 \in Threads /\ Threads \subseteq Nat
  BY EmergeAssumption DEF Threads
<1>2. \A t \in Threads : Len(m_block_queue[t]) \in Nat
  BY DEF TypeOK
<1>3. lengths \subseteq Nat /\ lengths # {}
  BY <1>1, <1>2
<1>4. Min(lengths) \in lengths /\ \A x \in lengths : Min(lengths) <= x
  <2> HIDE DEF lengths
  <2> QED
    BY <1>3, LeastNat
<1>5. PICK t \in Threads : Len(m_block_queue[t]) = Min(lengths)
  BY <1>4
<1>6. \A u \in Threads : Len(m_block_queue[t]) <= Len(m_block_queue[u])
  <2> SUFFICES ASSUME NEW u \in Threads PROVE Len(m_block_queue[t]) <= Len(m_block_queue[u])
    OBVIOUS
  <2>1. Len(m_block_queue[u]) \in lengths
    OBVIOUS
  <2> HIDE DEF lengths
  <2> QED
    BY <1>4, <1>5, <2>1
<1>7. t \in best
  BY <1>6
<1>8. best \subseteq Nat /\ best \subseteq Threads
  BY <1>1
<1>9. OptimalThread = Min(best)
  BY DEF OptimalThread
<1> HIDE DEF best
<1> QED
  BY <1>7, <1>8, <1>9, LeastNat

\* pushBlockEmergeData and pushBlock.
LEMMA PushCounted ==
  ASSUME EmergeInv, EnqueuedAreQueued, PeersCounted,
         NEW b \in Blocks, NEW peer \in Peers \cup {None}, NEW gen \in BOOLEAN,
         NEW new \in SUBSET Requests, Push(b, peer, gen, new)
  PROVE  EnqueuedAreQueued' /\ PeersCounted'
<1>0. TypeOK /\ Enqueued' = Enqueued \cup {b} /\ Enqueued \subseteq Blocks
  <2>1. TypeOK
    BY DEF EmergeInv
  <2>2. Enqueued' = Enqueued \cup {b}
    BY PushQueues
  <2> QED
    BY <2>1, <2>2 DEF TypeOK
<1>1. CASE b \in Enqueued
  <2>1. /\ UNCHANGED <<m_block_queue, m_peer_queue_count>> /\ Enqueued' = Enqueued
        /\ m_blocks_enqueued' = [m_blocks_enqueued EXCEPT
             ![b].gen = @ \/ gen, ![b].callbacks = @ \cup new]
    BY <1>0, <1>1 DEF Push
  <2>2. m_blocks_enqueued[b] \in Entries
    BY <1>0, <1>1 DEF TypeOK
  <2>3. /\ \A x \in Enqueued \ {b} : m_blocks_enqueued'[x] = m_blocks_enqueued[x]
        /\ m_blocks_enqueued'[b] = [m_blocks_enqueued[b] EXCEPT
             !.gen = @ \/ gen, !.callbacks = @ \cup new]
    BY <1>0, <1>1, <2>1 DEF TypeOK
  <2>4. m_blocks_enqueued'[b].peer = m_blocks_enqueued[b].peer
    BY <2>2, <2>3 DEF Entries
  <2>5. \A p : EntriesOf(p)' = EntriesOf(p)
    BY <2>1, <2>3, <2>4 DEF EntriesOf
  <2> QED
    BY <2>1, <2>5 DEF EnqueuedAreQueued, PeersCounted
<1>2. CASE b \notin Enqueued
  <2> DEFINE o == OptimalThread
  <2>1. /\ m_block_queue' = [m_block_queue EXCEPT ![o] = Append(@, b)]
        /\ m_peer_queue_count' = [m_peer_queue_count EXCEPT ![peer] = @ + 1]
        /\ m_blocks_enqueued' = [x \in Enqueued \cup {b} |->
             IF x = b THEN [gen |-> gen, peer |-> peer, callbacks |-> new]
             ELSE m_blocks_enqueued[x]]
    BY <1>2 DEF Push
  <2>2. o \in Threads
    BY <1>0, OptimalThreadExists
  <2> HIDE DEF o
  <2>3. \A t \in Threads :
          m_block_queue'[t] = IF t = o THEN Append(m_block_queue[t], b) ELSE m_block_queue[t]
    BY <1>0, <2>1 DEF TypeOK
  <2>4. \A t \in Threads : \A i \in DOMAIN m_block_queue[t] :
          i \in DOMAIN m_block_queue'[t] /\ m_block_queue'[t][i] = m_block_queue[t][i]
    <3> SUFFICES ASSUME NEW t \in Threads, NEW i \in DOMAIN m_block_queue[t]
                 PROVE  i \in DOMAIN m_block_queue'[t] /\ m_block_queue'[t][i] = m_block_queue[t][i]
      OBVIOUS
    <3>1. m_block_queue[t] \in Seq(Blocks)
      BY <1>0 DEF TypeOK
    <3>2. /\ i \in DOMAIN Append(m_block_queue[t], b)
          /\ Append(m_block_queue[t], b)[i] = m_block_queue[t][i]
      BY <3>1
    <3> QED
      BY <2>3, <3>2
  <2>5. \E i \in DOMAIN m_block_queue'[o] : m_block_queue'[o][i] = b
    <3>1. m_block_queue[o] \in Seq(Blocks)
      BY <1>0, <2>2 DEF TypeOK
    <3>2. /\ Len(m_block_queue[o]) + 1 \in DOMAIN Append(m_block_queue[o], b)
          /\ Append(m_block_queue[o], b)[Len(m_block_queue[o]) + 1] = b
      BY <3>1
    <3> QED
      BY <2>2, <2>3, <3>2
  <2>6. EnqueuedAreQueued'
    BY <1>0, <2>2, <2>4, <2>5 DEF EnqueuedAreQueued
  <2>7. \A p : EntriesOf(p)' = IF p = peer THEN EntriesOf(p) \cup {b} ELSE EntriesOf(p)
    <3>1. /\ \A x \in Enqueued : m_blocks_enqueued'[x] = m_blocks_enqueued[x]
          /\ m_blocks_enqueued'[b].peer = peer
      BY <1>2, <2>1
    <3> QED
      BY <1>0, <1>2, <3>1 DEF EntriesOf
  <2>8. IsFiniteSet(EntriesOf(peer)) /\ b \notin EntriesOf(peer)
    <3>1. EntriesOf(peer) \in SUBSET Blocks
      BY <1>0 DEF EntriesOf
    <3> QED
      BY <1>2, <3>1, EmergeAssumption, FS_Subset DEF EntriesOf
  <2>9. Cardinality(EntriesOf(peer) \cup {b}) = Cardinality(EntriesOf(peer)) + 1
    BY <2>8, FS_AddElement
  <2>10. /\ m_peer_queue_count' \in [Peers \cup {None} -> Nat]
         /\ \A p \in Peers \cup {None} : m_peer_queue_count'[p] =
              IF p = peer THEN m_peer_queue_count[p] + 1 ELSE m_peer_queue_count[p]
    BY <2>1 DEF PeersCounted
  <2>11. PeersCounted'
    BY <2>7, <2>9, <2>10 DEF PeersCounted
  <2> QED
    BY <2>6, <2>11
<1> QED
  BY <1>1, <1>2

\* popBlockEmergeData of the head of t's queue.
LEMMA PopCounted ==
  ASSUME EmergeInv, EnqueuedAreQueued, PeersCounted,
         NEW t \in Threads, NEW next \in Places, m_block_queue[t] # <<>>, PopHead(t, next)
  PROVE  EnqueuedAreQueued' /\ PeersCounted'
<1>0. TypeOK /\ QueuedAreEnqueued
  BY DEF EmergeInv
<1>1. PICK b \in Enqueued :
         /\ b = Head(m_block_queue[t]) /\ Enqueued' = Enqueued \ {b}
         /\ \A x \in Enqueued' : m_blocks_enqueued'[x] = m_blocks_enqueued[x]
  BY PopQueues
<1> DEFINE peer == m_blocks_enqueued[b].peer
<1>2. /\ m_block_queue' = [m_block_queue EXCEPT ![t] = Tail(@)]
      /\ m_peer_queue_count' = [m_peer_queue_count EXCEPT ![peer] = @ - 1]
  BY <1>1 DEF PopHead
<1>3. peer \in Peers \cup {None}
  BY <1>0, <1>1 DEF TypeOK, Entries
<1> HIDE DEF peer
<1>4. EnqueuedAreQueued'
  <2> SUFFICES ASSUME NEW x \in Enqueued, x # b
               PROVE  \E u \in Threads : \E i \in DOMAIN m_block_queue'[u] :
                        m_block_queue'[u][i] = x
    BY <1>1 DEF EnqueuedAreQueued
  <2>1. PICK u \in Threads : \E i \in DOMAIN m_block_queue[u] : m_block_queue[u][i] = x
    BY DEF EnqueuedAreQueued
  <2>2. PICK i \in DOMAIN m_block_queue[u] : m_block_queue[u][i] = x
    BY <2>1
  <2>3. m_block_queue[u] \in Seq(Blocks)
    BY <1>0 DEF TypeOK
  <2>4. CASE u # t
    <3>1. m_block_queue'[u] = m_block_queue[u]
      BY <1>0, <1>2, <2>4 DEF TypeOK
    <3> QED
      BY <2>2, <3>1
  <2>5. CASE u = t
    <3>1. m_block_queue'[u] = Tail(m_block_queue[u])
      BY <1>0, <1>2, <2>5 DEF TypeOK
    <3>2. i # 1
      BY <1>1, <2>2, <2>3, <2>5
    <3>3. i - 1 \in DOMAIN Tail(m_block_queue[u]) /\ Tail(m_block_queue[u])[i - 1] = x
      BY <2>2, <2>3, <3>2
    <3> QED
      BY <3>1, <3>3
  <2> QED
    BY <2>4, <2>5
<1>5. \A p : EntriesOf(p)' = IF p = peer THEN EntriesOf(p) \ {b} ELSE EntriesOf(p)
  BY <1>1 DEF EntriesOf, peer
<1>6. IsFiniteSet(EntriesOf(peer)) /\ b \in EntriesOf(peer)
  <2>1. EntriesOf(peer) \in SUBSET Blocks
    BY <1>0 DEF EntriesOf, TypeOK
  <2>2. b \in EntriesOf(peer)
    BY <1>1 DEF EntriesOf, peer
  <2> QED
    BY <2>1, <2>2, EmergeAssumption, FS_Subset
<1>7. /\ Cardinality(EntriesOf(peer) \ {b}) = Cardinality(EntriesOf(peer)) - 1
      /\ Cardinality(EntriesOf(peer) \ {b}) \in Nat
  BY <1>6, FS_RemoveElement, FS_CardinalityType
<1>8. /\ m_peer_queue_count' \in [Peers \cup {None} -> Nat]
      /\ \A p \in Peers \cup {None} : m_peer_queue_count'[p] =
           IF p = peer THEN m_peer_queue_count[p] - 1 ELSE m_peer_queue_count[p]
  BY <1>2, <1>3, <1>7 DEF PeersCounted
<1>9. PeersCounted'
  BY <1>5, <1>7, <1>8 DEF PeersCounted
<1> QED
  BY <1>4, <1>9

LEMMA QueuesKept ==
  ASSUME EnqueuedAreQueued, PeersCounted, UNCHANGED queueVars
  PROVE  EnqueuedAreQueued' /\ PeersCounted'
<1>1. Enqueued' = Enqueued
  BY DEF Enqueued, queueVars
<1>2. \A p : EntriesOf(p)' = EntriesOf(p)
  BY <1>1 DEF EntriesOf, queueVars
<1> QED
  BY <1>1, <1>2 DEF EnqueuedAreQueued, PeersCounted, queueVars

LEMMA CountedNext ==
  ASSUME EmergeInv, EnqueuedAreQueued, PeersCounted, [Next]_vars
  PROVE  EnqueuedAreQueued' /\ PeersCounted'
<1>0. TypeOK /\ Turns
  BY DEF EmergeInv
<1>1. ASSUME NEW b \in Blocks, NEW k \in Kinds, ServerAsks(b, k.peer, k.gen, k.callback)
      PROVE  EnqueuedAreQueued' /\ PeersCounted'
  <2>1. k.peer \in Peers \cup {None} /\ k.gen \in BOOLEAN /\ k.callback \in BOOLEAN
    BY EmergeAssumption
  <2> DEFINE new == IF k.callback THEN {Len(asked')} ELSE {}
  <2>2. Push(b, k.peer, k.gen, new) \/ UNCHANGED queueVars
    BY <1>1 DEF ServerAsks
  <2>3. new \in SUBSET Requests
    <3>1. Len(asked) \in Nat /\ made \in Nat /\ scenario.requests \in 0 .. MaxRequests
      BY <1>0, EmergeAssumption DEF TypeOK
    <3>2. Len(asked) + 1 \in Requests
      BY <1>0, <1>1, <3>1, EmergeAssumption DEF Requests, Turns, ServerAsks
    <3>3. CASE k.callback
      <4>1. asked' = Append(asked, b)
        BY <1>1, <3>3 DEF ServerAsks
      <4>2. Len(asked') = Len(asked) + 1
        BY <1>0, <4>1 DEF TypeOK
      <4> QED
        BY <3>2, <3>3, <4>2
    <3> QED
      BY <3>3
  <2> HIDE DEF new
  <2> QED
    BY <2>1, <2>2, <2>3, PushCounted, QueuesKept
<1>2. ASSUME NEW t \in Threads, NEW b \in Blocks, CallbackAsks(t, b)
      PROVE  EnqueuedAreQueued' /\ PeersCounted'
  <2>1. /\ asked' = Append(asked, b) /\ Push(b, None, TRUE, {Len(asked')})
        /\ pc[t] \in {"ask", "askAtEnd"}
    BY <1>2 DEF CallbackAsks
  <2>2. /\ Len(asked) \in Nat /\ made \in Nat /\ scenario.requests \in 0 .. MaxRequests
        /\ Len(asked') = Len(asked) + 1
    BY <1>0, <2>1, EmergeAssumption DEF TypeOK
  <2>3. Len(asked) < made /\ made <= scenario.requests
    BY <1>0, <2>1 DEF Turns, Asking
  <2>4. {Len(asked')} \in SUBSET Requests
    BY <2>2, <2>3, EmergeAssumption DEF Requests
  <2> QED
    BY <2>1, <2>4, PushCounted
<1>3. ASSUME NEW t \in Threads, Pop(t) \/ CancelNext(t)
      PROVE  EnqueuedAreQueued' /\ PeersCounted'
  <2>1. m_block_queue[t] # <<>> /\ \E next \in Places : PopHead(t, next)
    BY <1>3 DEF Pop, CancelNext, Places
  <2> QED
    BY <2>1, PopCounted
<1>4. \/ \E b \in Blocks, k \in Kinds : ServerAsks(b, k.peer, k.gen, k.callback)
      \/ \E t \in Threads, b \in Blocks : CallbackAsks(t, b)
      \/ \E t \in Threads : Pop(t) \/ CancelNext(t)
      \/ UNCHANGED queueVars
  BY DEF Next, Step, ThreadStep, ServerSignals, StopThreads, StopThread, FindNothing, Wake,
    Decide, Redecide, FinishGen, Callback, Answered, LeaveLoop, BeginCancel, EndThread, vars
<1> QED
  BY <1>1, <1>2, <1>3, <1>4, QueuesKept

LEMMA CountedInit == Init => EnqueuedAreQueued /\ PeersCounted
<1>1. SUFFICES ASSUME Init PROVE EnqueuedAreQueued /\ PeersCounted
  OBVIOUS
<1>2. Enqueued = {}
  BY <1>1 DEF Init, Enqueued
<1>3. \A p : EntriesOf(p) = {}
  BY <1>2 DEF EntriesOf
<1>4. \A p \in Peers \cup {None} : m_peer_queue_count[p] = 0
  BY <1>1 DEF Init
<1>5. m_peer_queue_count \in [Peers \cup {None} -> Nat]
  BY <1>1 DEF Init
<1> QED
  BY <1>2, <1>3, <1>4, <1>5, FS_EmptySet DEF EnqueuedAreQueued, PeersCounted

\* A queue is no longer than there are blocks: nothing is in it twice.
LEMMA QueueFits ==
  ASSUME EmergeInv, NEW t \in Threads, NEW i \in DOMAIN m_block_queue[t]
  PROVE  i \in 1 .. Cardinality(Blocks)
<1> DEFINE f == [j \in 1 .. i |-> m_block_queue[t][j]]
<1>0. m_block_queue[t] \in Seq(Blocks) /\ QueuedOnce
  BY DEF EmergeInv, TypeOK
<1>1. /\ i \in Nat \ {0}
      /\ \A j \in 1 .. i : j \in DOMAIN m_block_queue[t] /\ m_block_queue[t][j] \in Blocks
  BY <1>0
<1>2. f \in [1 .. i -> Blocks]
  BY <1>1
<1>3. \A j, k \in 1 .. i : f[j] = f[k] => j = k
  BY <1>0, <1>1 DEF QueuedOnce
<1> HIDE DEF f
<1>4. f \in Injection(1 .. i, Blocks)
  BY <1>2, <1>3 DEF Injection, IsInjective
<1>5. Cardinality(1 .. i) <= Cardinality(Blocks) /\ Cardinality(Blocks) \in Nat
  BY <1>4, EmergeAssumption, FS_Injection, FS_CardinalityType
<1>6. 1 \in Int /\ i \in Int
  BY <1>1
<1>7. Cardinality(1 .. i) = i
  BY <1>1, <1>6, FS_Interval
<1> QED
  BY <1>1, <1>5, <1>7

LEMMA CountedAgree ==
  ASSUME EmergeInv, EnqueuedAreQueued, PeersCounted
  PROVE  QueuesAgree
<1> DEFINE places(b) == {place \in Threads \X (1 .. Cardinality(Blocks)) :
                      LET queue == m_block_queue[place[1]]
                      IN place[2] \in DOMAIN queue /\ queue[place[2]] = b}
<1>0. QueuedOnce /\ QueuedAreEnqueued
  BY DEF EmergeInv
<1>1. ASSUME NEW b \in Blocks
      PROVE  Cardinality(places(b)) = IF b \in Enqueued THEN 1 ELSE 0
  <2>1. CASE b \notin Enqueued
    <3>1. places(b) = {}
      BY <1>0, <2>1 DEF QueuedAreEnqueued
    <3> QED
      BY <2>1, <3>1, FS_EmptySet
  <2>2. CASE b \in Enqueued
    <3>1. PICK t \in Threads : \E i \in DOMAIN m_block_queue[t] : m_block_queue[t][i] = b
      BY <2>2 DEF EnqueuedAreQueued
    <3>2. PICK i \in DOMAIN m_block_queue[t] : m_block_queue[t][i] = b
      BY <3>1
    <3>3. i \in 1 .. Cardinality(Blocks)
      BY QueueFits
    <3>4. <<t, i>> \in places(b)
      BY <3>2, <3>3
    <3>5. \A place \in places(b) : place = <<t, i>>
      BY <1>0, <3>2 DEF QueuedOnce
    <3>6. places(b) = {<<t, i>>}
      BY <3>4, <3>5
    <3> HIDE DEF places
    <3>7. Cardinality({<<t, i>>}) = 1
      BY FS_Singleton
    <3> QED
      BY <2>2, <3>6, <3>7
  <2> QED
    BY <2>1, <2>2
<1>2. \A p \in Peers \cup {None} :
        m_peer_queue_count[p] = Cardinality({b \in Enqueued : m_blocks_enqueued[b].peer = p})
  BY DEF PeersCounted, EntriesOf
<1> QED
  BY <1>1, <1>2 DEF QueuesAgree

-----------------------------------------------------------------------------
(***************************************************************************)
(* The theorems.                                                           *)
(***************************************************************************)

\* The invariant holds, for any number of threads, blocks and requests, any
\* limits and any chunks (EmergeManager, EmergeThread).
THEOREM EmergeInvariant == Spec => []EmergeInv
<1>1. Init => EmergeInv
  BY InitInv
<1>2. EmergeInv /\ [Next]_vars => EmergeInv'
  BY NextInv
<1> QED
  BY <1>1, <1>2, PTL DEF Spec

\* The queues, entries and jobs are well typed.
THEOREM EmergeTyped == Spec => []TypeOK
<1>1. EmergeInv => TypeOK
  BY DEF EmergeInv
<1> QED
  BY <1>1, EmergeInvariant, PTL

\* No chunk is generated by two threads at once: ServerMap::initBlockMake
\* refuses the second.
THEOREM ChunksHaveOneGenerator == Spec => []OneGenerator
<1>1. EmergeInv => OneGenerator
  BY DEF EmergeInv
<1> QED
  BY <1>1, EmergeInvariant, PTL

\* A request with a callback is at one place until it is answered, and is
\* answered once, through joined entries, pops, cancellation and mods that ask
\* again in their callbacks.
THEOREM RequestsAnsweredOnce == Spec => []AnsweredOnce
<1>1. ASSUME EmergeInv PROVE AnsweredOnce
  <2>1. TypeOK /\ Traceable /\ AnsweredOrHeld
    BY <1>1 DEF EmergeInv
  <2> SUFFICES ASSUME NEW r \in Requests, Due(r)
               PROVE  \/ answers[r] = <<>> /\ Waiting(r) = {asked[r]}
                      \/ Len(answers[r]) = 1 /\ Waiting(r) = {}
    BY DEF AnsweredOnce
  <2>2. \A b \in Waiting(r) : b = asked[r]
    BY <2>1 DEF Waiting, Traceable
  <2>3. Held(r) <=> Waiting(r) # {}
    BY DEF Held, Waiting
  <2>4. CASE Held(r)
    BY <2>1, <2>2, <2>3, <2>4 DEF AnsweredOrHeld
  <2>5. CASE ~Held(r)
    <3>0. answers[r] \in Seq(Answers)
      BY <2>1 DEF TypeOK
    <3>1. answers[r] # <<>> /\ answers[r] \in Seq(Answers) /\ Len(answers[r]) <= 1
      BY <2>1, <2>5, <3>0 DEF AnsweredOrHeld
    <3>2. \A s \in Seq(Answers) : s # <<>> => Len(s) \in Nat /\ Len(s) # 0
      BY EmptySeq, LenProperties
    <3>3. Len(answers[r]) \in Nat /\ Len(answers[r]) # 0
      BY <3>0, <3>1, <3>2
    <3>4. Len(answers[r]) = 1
      <4> DEFINE n == Len(answers[r])
      <4>1. n \in Nat /\ n # 0 /\ n <= 1
        BY <3>1, <3>3
      <4> HIDE DEF n
      <4>2. n = 1
        BY <4>1
      <4> QED
        BY <4>2 DEF n
    <3>5. Waiting(r) = {}
      BY <2>3, <2>5
    <3> QED
      BY <3>4, <3>5
  <2> QED
    BY <2>4, <2>5
<1> QED
  BY <1>1, EmergeInvariant, PTL

\* An answer other than CANCELLED is given only when the block is complete.
THEOREM AnswersAreHonest == Spec => HonestAnswers
<1>1. EmergeInv /\ [Next]_vars =>
        [\A r \in Requests : answers'[r] # answers[r] =>
           \/ Last(answers'[r]) = "CANCELLED"
           \/ asked[r] \in generated]_vars
  <2> DEFINE Honest == \A r \in Requests : answers'[r] # answers[r] =>
                         \/ Last(answers'[r]) = "CANCELLED"
                         \/ asked[r] \in generated
  <2> SUFFICES ASSUME EmergeInv, [Next]_vars PROVE [Honest]_vars
    OBVIOUS
  <2>1. ASSUME NEW t \in Threads, NEW q \in Requests, Callback(t, q)
        PROVE  Honest
    <3>1. TypeOK /\ Traceable /\ JobsInStage
      BY DEF EmergeInv
    <3>2. /\ pc[t] \in {"answer", "cancel"} /\ q \in job[t].callbacks
          /\ answers' = [answers EXCEPT ![q] = Append(@, job[t].action)]
      BY <2>1 DEF Callback
    <3>3. asked[q] = job[t].block /\ (job[t].action = "CANCELLED" \/ job[t].block \in generated)
      BY <3>1, <3>2 DEF Traceable, JobsInStage
    <3>4. answers[q] \in Seq(Answers) /\ job[t].action \in Answers
      BY <3>1 DEF TypeOK, Jobs
    <3>5. Last(Append(answers[q], job[t].action)) = job[t].action
      BY <3>4 DEF Last
    <3>6. /\ answers'[q] = Append(answers[q], job[t].action)
          /\ \A r \in Requests \ {q} : answers'[r] = answers[r]
      BY <3>1, <3>2 DEF TypeOK
    <3> QED
      BY <3>3, <3>5, <3>6
  <2>2. CASE UNCHANGED answers
    BY <2>2
  <2>3. (\E t \in Threads, q \in Requests : Callback(t, q)) \/ UNCHANGED answers \/ UNCHANGED vars
    BY DEF Next, Step, ThreadStep, ServerAsks, ServerSignals, StopThreads, StopThread, Pop,
      FindNothing, Wake, Decide, Redecide, FinishGen, CallbackAsks, Answered, LeaveLoop,
      BeginCancel, CancelNext, EndThread, requestVars
  <2> QED
    BY <2>1, <2>2, <2>3
<1> QED
  BY <1>1, EmergeInvariant, PTL DEF Spec, HonestAnswers

\* A block with an entry is in the queue of one thread, once, and counted for
\* the peer that asked first: popBlockEmergeData and cancelPendingItems find what
\* pushBlockEmergeData and pushBlock put there, whichever thread is chosen.
THEOREM QueuesAgreeAlways == Spec => []QueuesAgree
<1> DEFINE QueueInv == EmergeInv /\ EnqueuedAreQueued /\ PeersCounted
<1>1. Init => QueueInv
  BY InitInv, CountedInit
<1>2. QueueInv /\ [Next]_vars => QueueInv'
  BY NextInv, CountedNext
<1>3. QueueInv => QueuesAgree
  BY CountedAgree
<1> HIDE DEF QueueInv
<1> QED
  BY <1>1, <1>2, <1>3, PTL DEF Spec

=============================================================================
