-------------------------- MODULE MeshUpdate_proofs --------------------------
(***************************************************************************)
(* Proofs about MeshUpdate, for any blocks and neighbours, any number of   *)
(* worker threads, of changes and of unloaded blocks.                      *)
(***************************************************************************)
EXTENDS MeshUpdate, FiniteSetTheorems, FunctionTheorems, SequenceTheorems,
        NaturalsInduction, WellFoundedInduction, TLAPS

AckSets == {s \in SUBSET Nat : IsFiniteSet(s)}

Calls == [p : Blocks, acks : AckSets, urgent : BOOLEAN, from_neighbor : BOOLEAN]

Updates == [p : Blocks, acks : AckSets, urgent : BOOLEAN, blocks : SUBSET Blocks]

Contents == [version : Nat, air : BOOLEAN]

Meshes == UNION {[s -> Nat] : s \in SUBSET Blocks}

Made == [p : Blocks, acks : AckSets, blocks : SUBSET Blocks, saw : Nat, mesh : Meshes]

\* What the values of the constants stand for: a block has finitely many
\* neighbours (26), each of which has it as a neighbour; there is a worker
\* (MeshUpdateManager makes one at least); None is told from the rest.
MeshConstants ==
  /\ Around \in [Blocks -> SUBSET Blocks]
  /\ \A b \in Blocks : IsFiniteSet(Around[b]) /\ \A n \in Around[b] : b \in Around[n]
  /\ Workers # {}
  /\ None \notin Contents /\ None \notin Meshes

Types ==
  /\ content \in [Blocks -> Contents \cup {None}]
  /\ shown \in [Blocks -> Meshes \cup {None}]
  /\ main \in {"step", "adding", "taking"}
  /\ adding \in Seq(Calls) /\ m_queue \in Seq(Updates)
  /\ m_urgents \subseteq Blocks /\ m_inflight_blocks \subseteq Blocks
  /\ m_update_sem \in [Workers -> BOOLEAN]
  /\ pc \in [Workers -> {"wait", "pop", "make", "done"}]
  /\ job \in [Workers -> Updates \cup {None}]
  /\ \A w \in Workers : pc[w] \in {"make", "done"} => job[w] \in Updates
  /\ m_queue_out \in Seq(Made) /\ m_queue_out_urgent \in Seq(Made)
  /\ acked \in Seq(Nat) /\ received \subseteq Nat
  /\ versions \in Nat /\ unloads \in Nat

-----------------------------------------------------------------------------
(***************************************************************************)
(* Sets and sequences.                                                     *)
(***************************************************************************)

\* A non-empty set of naturals has a least element, and Min is it.
LEMMA LeastNat ==
  ASSUME NEW T, T \subseteq Nat, T # {}
  PROVE  Min(T) \in T
  <1> DEFINE R == OpToRel(<, Nat)
  <1>1. IsWellFoundedOn(R, Nat)
    BY NatLessThanWellFounded
  <1>2. \A x, y \in Nat : x < y => <<x, y>> \in R
    BY DEF OpToRel
  <1> HIDE DEF R
  <1>3. PICK x \in T : \A y \in T : <<y, x>> \notin R
    BY <1>1, WFMin
  <1>4. \A y \in T : y \in Nat /\ x \in Nat /\ ~(y < x)
    BY <1>2, <1>3
  <1>5. \A y \in T : x <= y
    BY <1>4
  <1> QED BY <1>5 DEF Min

\* SetToSeq lists every element of a finite set once.
LEMMA Listed ==
  ASSUME NEW S, IsFiniteSet(S)
  PROVE  /\ SetToSeq(S) \in Seq(S)
         /\ \A x \in S : \E i \in DOMAIN SetToSeq(S) : SetToSeq(S)[i] = x
         /\ \A i, j \in DOMAIN SetToSeq(S) : SetToSeq(S)[i] = SetToSeq(S)[j] => i = j
  <1> DEFINE n == Cardinality(S)
             f == SetToSeq(S)
  <1>1. n \in Nat /\ ExistsBijection(1 .. n, S)
    BY FS_CardinalityType
  <1>2. PICK g : g \in Bijection(1 .. n, S)
    BY <1>1 DEF ExistsBijection
  <1>3. g \in [1 .. n -> S] /\ \A x, y \in 1 .. n : g[x] = g[y] => x = y
    BY <1>2, Fun_BijectionProperties
  <1>4. g \in [1 .. n -> S] /\ IsInjective(g)
    BY <1>3 DEF IsInjective
  <1>5. f \in [1 .. n -> S] /\ IsInjective(f)
    <2> HIDE DEF n
    <2>1. f = CHOOSE h \in [1 .. n -> S] : IsInjective(h)
      BY DEF SetToSeq, n
    <2> HIDE DEF f
    <2> QED BY <1>4, <2>1
  <1> HIDE DEF f
  <1>6. \A x, y \in 1 .. n : f[x] = f[y] => x = y
    BY <1>5 DEF IsInjective
  <1>7. f \in Injection(1 .. n, S)
    BY <1>5, <1>6, Fun_IsInj
  <1>8. Cardinality(1 .. n) = Cardinality(S)
    BY <1>1, FS_Interval
  <1>9. f \in Surjection(1 .. n, S)
    BY <1>7, <1>8, FS_Injection
  <1>10. \A x \in S : \E i \in 1 .. n : f[i] = x
    BY <1>9 DEF Surjection
  <1> HIDE DEF n
  <1>11. f \in Seq(S) /\ DOMAIN f = 1 .. n
    BY <1>1, <1>5
  <1> QED BY <1>6, <1>10, <1>11 DEF f

LEMMA Removed ==
  ASSUME NEW S, NEW s \in Seq(S), NEW i \in 1 .. Len(s)
  PROVE  /\ RemoveAt(s, i) \in Seq(S)
         /\ Len(RemoveAt(s, i)) = Len(s) - 1
         /\ \A j \in 1 .. Len(s) - 1 :
              RemoveAt(s, i)[j] = IF j < i THEN s[j] ELSE s[j + 1]
  <1> DEFINE a == SubSeq(s, 1, i - 1)
             c == SubSeq(s, i + 1, Len(s))
  <1>1. /\ a \in Seq(S) /\ Len(a) = i - 1
        /\ \A j \in 1 .. i - 1 : a[j] = s[j]
    BY SubSeqProperties
  <1>2. /\ c \in Seq(S) /\ Len(c) = Len(s) - i
        /\ \A j \in 1 .. Len(s) - i : c[j] = s[i + j]
    BY SubSeqProperties
  <1> HIDE DEF a, c
  <1>3. /\ a \o c \in Seq(S) /\ Len(a \o c) = Len(a) + Len(c)
        /\ \A j \in 1 .. Len(a) + Len(c) :
             (a \o c)[j] = IF j <= Len(a) THEN a[j] ELSE c[j - Len(a)]
    BY <1>1, <1>2, ConcatProperties
  <1>4. Len(a) + Len(c) = Len(s) - 1 /\ Len(a) = i - 1 /\ Len(s) \in Nat
    BY <1>1, <1>2
  <1>5. \A j \in 1 .. Len(s) - 1 : j >= i => c[j - (i - 1)] = s[j + 1]
    BY <1>2, <1>4
  <1>6. RemoveAt(s, i) = a \o c
    BY DEF RemoveAt, a, c
  <1> HIDE DEF a, c
  <1>7. \A j \in 1 .. Len(s) - 1 : (a \o c)[j] = IF j < i THEN s[j] ELSE s[j + 1]
    <2> TAKE j \in 1 .. Len(s) - 1
    <2>1. CASE j < i
      BY <1>1, <1>3, <1>4, <2>1
    <2>2. CASE ~(j < i)
      <3>1. j \in 1 .. Len(a) + Len(c) /\ ~(j <= Len(a)) /\ j >= i
        BY <1>4, <2>2
      <3>2. (a \o c)[j] = c[j - (i - 1)]
        BY <1>3, <1>4, <3>1
      <3> QED BY <1>5, <2>2, <3>1, <3>2
    <2> QED BY <2>1, <2>2
  <1> QED BY <1>3, <1>4, <1>6, <1>7


(***************************************************************************)
(* A sequence without its k-th element, of which the one at j was at       *)
(* Was(k, j), and a sequence with one element more at its end.             *)
(***************************************************************************)
Was(k, j) == IF j < k THEN j ELSE j + 1

Dropped(s, t, k) ==
  /\ k \in DOMAIN s /\ DOMAIN s \subseteq Nat \ {0} /\ DOMAIN t \subseteq Nat
  /\ \A j \in DOMAIN t : Was(k, j) \in DOMAIN s \ {k} /\ t[j] = s[Was(k, j)]
  /\ \A i \in DOMAIN s \ {k} : \E j \in DOMAIN t : Was(k, j) = i
  /\ \A i, j \in DOMAIN t : /\ Was(k, i) = Was(k, j) => i = j
                            /\ Was(k, i) < Was(k, j) => i < j
                            /\ i < j => Was(k, i) < Was(k, j)

Added(s, t, e) == \E k \in DOMAIN t :
  /\ DOMAIN s = DOMAIN t \ {k} /\ DOMAIN t \subseteq Nat
  /\ t[k] = e
  /\ \A i \in DOMAIN s : i < k /\ t[i] = s[i]

LEMMA RemoveDrops ==
  ASSUME NEW S, NEW s \in Seq(S), NEW k \in DOMAIN s
  PROVE  RemoveAt(s, k) \in Seq(S) /\ Dropped(s, RemoveAt(s, k), k)
  <1> DEFINE n == Len(s)
             t == RemoveAt(s, k)
  <1>1. n \in Nat /\ DOMAIN s = 1 .. n /\ k \in 1 .. n
    OBVIOUS
  <1>2. t \in Seq(S) /\ Len(t) = n - 1
    BY <1>1, Removed
  <1>3. \A j \in 1 .. n - 1 : t[j] = IF j < k THEN s[j] ELSE s[j + 1]
    BY <1>1, Removed
  <1>4. DOMAIN t = 1 .. n - 1
    BY <1>2
  <1> HIDE DEF n, t
  <1>5. \A j \in DOMAIN t : Was(k, j) \in DOMAIN s \ {k} /\ t[j] = s[Was(k, j)]
    BY <1>1, <1>3, <1>4 DEF Was
  <1>6. ASSUME NEW i \in DOMAIN s \ {k} PROVE \E j \in DOMAIN t : Was(k, j) = i
    <2>1. CASE i < k
      <3>1. i \in DOMAIN t /\ Was(k, i) = i
        BY <1>1, <1>4, <2>1 DEF Was
      <3> QED BY <3>1
    <2>2. CASE ~(i < k)
      <3>1. i - 1 \in DOMAIN t /\ Was(k, i - 1) = i
        BY <1>1, <1>4, <2>2 DEF Was
      <3> QED BY <3>1
    <2> QED BY <2>1, <2>2
  <1>7. \A i, j \in DOMAIN t : /\ Was(k, i) = Was(k, j) => i = j
                               /\ Was(k, i) < Was(k, j) => i < j
                               /\ i < j => Was(k, i) < Was(k, j)
    BY <1>1, <1>4 DEF Was
  <1>8. DOMAIN s \subseteq Nat \ {0} /\ DOMAIN t \subseteq Nat
    BY <1>1, <1>4
  <1>9. Dropped(s, t, k)
    BY <1>5, <1>6, <1>7, <1>8 DEF Dropped
  <1> QED BY <1>2, <1>9 DEF t

LEMMA TailDrops ==
  ASSUME NEW S, NEW s \in Seq(S), s # <<>>
  PROVE  Tail(s) \in Seq(S) /\ Dropped(s, Tail(s), 1) /\ Head(s) = s[1] /\ Head(s) \in S
  <1>1. Len(s) \in Nat /\ Len(s) >= 1 /\ DOMAIN s = 1 .. Len(s)
    BY EmptySeq
  <1>2. Tail(s) \in Seq(S) /\ Len(Tail(s)) = Len(s) - 1 /\ Head(s) = s[1]
        /\ \A i \in 1 .. Len(s) - 1 : Tail(s)[i] = s[i + 1]
    BY HeadTailProperties
  <1>3. DOMAIN Tail(s) = 1 .. Len(s) - 1
    BY <1>2
  <1>4. \A j \in DOMAIN Tail(s) : Was(1, j) = j + 1
    BY <1>3 DEF Was
  <1>5. \A j \in DOMAIN Tail(s) : /\ Was(1, j) \in DOMAIN s \ {1}
                                  /\ Tail(s)[j] = s[Was(1, j)]
    BY <1>1, <1>2, <1>3, <1>4
  <1>6. ASSUME NEW i \in DOMAIN s \ {1} PROVE \E j \in DOMAIN Tail(s) : Was(1, j) = i
    <2>1. i - 1 \in DOMAIN Tail(s) /\ Was(1, i - 1) = i
      BY <1>1, <1>3 DEF Was
    <2> QED BY <2>1
  <1>7. \A i, j \in DOMAIN Tail(s) : /\ Was(1, i) = Was(1, j) => i = j
                                     /\ Was(1, i) < Was(1, j) => i < j
                                     /\ i < j => Was(1, i) < Was(1, j)
    BY <1>1, <1>3, <1>4
  <1>8. 1 \in DOMAIN s /\ DOMAIN s \subseteq Nat \ {0} /\ DOMAIN Tail(s) \subseteq Nat
        /\ Head(s) \in S
    BY <1>1, <1>2, <1>3
  <1> QED BY <1>2, <1>5, <1>6, <1>7, <1>8 DEF Dropped

LEMMA AppendAdds ==
  ASSUME NEW S, NEW s \in Seq(S), NEW e \in S
  PROVE  Append(s, e) \in Seq(S) /\ Added(s, Append(s, e), e)
  <1> DEFINE t == Append(s, e)
             k == Len(s) + 1
  <1>1. t \in Seq(S) /\ Len(t) = Len(s) + 1 /\ Len(s) \in Nat
        /\ DOMAIN s = 1 .. Len(s)
    BY AppendProperties
  <1>2. (\A i \in 1 .. Len(s) : t[i] = s[i]) /\ t[k] = e
    BY AppendProperties
  <1> HIDE DEF t
  <1>3. DOMAIN t = 1 .. Len(s) + 1
    BY <1>1
  <1>4. k \in DOMAIN t /\ DOMAIN s = DOMAIN t \ {k} /\ DOMAIN t \subseteq Nat
        /\ \A i \in DOMAIN s : i < k
    BY <1>1, <1>3
  <1> HIDE DEF k
  <1> QED BY <1>1, <1>2, <1>4 DEF Added, t

-----------------------------------------------------------------------------
(***************************************************************************)
(* How the state hangs together.                                           *)
(***************************************************************************)
Busy == {w \in Workers : pc[w] \in {"make", "done"}}

\* The updates that hold references to their blocks, and what they have come
\* from: their block is there and is as new as what they acknowledge.
Holds(u) == /\ u.p \in u.blocks /\ u.blocks \subseteq Loaded
            /\ \A v \in u.acks : v <= content[u.p].version

NoCalls == main # "adding" => adding = <<>>

\* Calls for a neighbour acknowledge nothing, others are for a block that is there.
CallsLinked == \A i \in DOMAIN adding :
  IF adding[i].from_neighbor THEN adding[i].acks = {}
  ELSE /\ adding[i].p \in Loaded
       /\ \A v \in adding[i].acks : v <= content[adding[i].p].version

QueueLinked == \A i \in DOMAIN m_queue : Holds(m_queue[i])

JobsLinked == \A w \in Working : Holds(job[w])

Result(r) == /\ r.p \in r.blocks /\ r.blocks \subseteq Loaded
             /\ r.saw <= versions /\ \A v \in r.acks : v <= r.saw

ResultsLinked ==
  /\ \A i \in DOMAIN m_queue_out : Result(m_queue_out[i])
  /\ \A i \in DOMAIN m_queue_out_urgent : Result(m_queue_out_urgent[i])

\* One update of a block at most is in the queue, and one with the workers.
OneEach == \A i, j \in DOMAIN m_queue : m_queue[i].p = m_queue[j].p => i = j

InHand ==
  /\ m_inflight_blocks = {job[w].p : w \in Busy}
  /\ \A v, w \in Busy : job[v].p = job[w].p => v = w

UrgentsQueued == m_urgents \subseteq {m_queue[i].p : i \in DOMAIN m_queue}

Counted ==
  /\ \A b \in Loaded : content[b].version <= versions
  /\ \A v \in received : v <= versions
  /\ \A i \in DOMAIN acked : acked[i] <= versions

Links ==
  /\ NoCalls /\ CallsLinked /\ QueueLinked /\ JobsLinked /\ ResultsLinked
  /\ OneEach /\ InHand /\ UrgentsQueued /\ Counted

\* QueueIsServed, while results are taken too.
Served == main # "adding" /\ m_queue # <<>> =>
  \E w \in Workers : pc[w] # "wait" \/ m_update_sem[w]

MeshInv == Types /\ Links /\ Served

LEMMA Elements ==
  Types => /\ \A i \in DOMAIN adding : adding[i] \in Calls
           /\ \A i \in DOMAIN m_queue : m_queue[i] \in Updates
           /\ \A i \in DOMAIN m_queue_out : m_queue_out[i] \in Made
           /\ \A i \in DOMAIN m_queue_out_urgent : m_queue_out_urgent[i] \in Made
           /\ \A w \in Busy : job[w] \in Updates
           /\ \A b \in Loaded : /\ b \in Blocks /\ content[b] \in Contents
                                /\ content[b].version \in Nat /\ content[b].air \in BOOLEAN
  BY DEF Types, Busy, Loaded, Contents

-----------------------------------------------------------------------------
(***************************************************************************)
(* What the steps do to the queues.                                        *)
(***************************************************************************)
LEMMA CallsFor ==
  ASSUME MeshConstants, NEW b \in Blocks, NEW acks \in AckSets, NEW urgent \in BOOLEAN
  PROVE  LET t == UpdatesFor(b, acks, urgent)
         IN  /\ t \in Seq(Calls) /\ 1 \in DOMAIN t
             /\ t[1] = [p |-> b, acks |-> acks, urgent |-> urgent, from_neighbor |-> FALSE]
             /\ \A i \in DOMAIN t \ {1} : t[i].from_neighbor /\ t[i].acks = {}
             /\ \A n \in Around[b] : \E i \in DOMAIN t : t[i].p = n
  <1> DEFINE rec(n) == [p |-> n, acks |-> {}, urgent |-> urgent, from_neighbor |-> TRUE]
             S == {rec(n) : n \in Around[b]}
             own == [p |-> b, acks |-> acks, urgent |-> urgent, from_neighbor |-> FALSE]
             rest == SetToSeq(S)
             t == UpdatesFor(b, acks, urgent)
  <1>1. Around[b] \subseteq Blocks /\ IsFiniteSet(Around[b])
    BY DEF MeshConstants
  <1>2. \A n \in Around[b] : rec(n) \in Calls
    <2>1. {} \in AckSets
      BY FS_EmptySet DEF AckSets
    <2> QED BY <1>1, <2>1 DEF Calls
  <1>3. IsFiniteSet(S)
    <2> DEFINE f == [n \in Around[b] |-> rec(n)]
    <2>1. f \in [Around[b] -> S] /\ \A x \in S : \E n \in Around[b] : f[n] = x
      OBVIOUS
    <2>2. f \in Surjection(Around[b], S)
      BY <2>1, Fun_IsSurj
    <2> QED BY <1>1, <2>2, FS_Surjection
  <1>4. \A x \in S : x \in Calls /\ x.from_neighbor /\ x.acks = {}
    BY <1>2
  <1>5. \A n \in Around[b] : rec(n) \in S /\ rec(n).p = n
    OBVIOUS
  <1>6. own \in Calls
    BY DEF Calls
  <1>7. t = <<own>> \o rest
    BY DEF UpdatesFor
  <1> HIDE DEF rec, S, own, t
  <1>8. /\ rest \in Seq(S) /\ \A x \in S : \E i \in DOMAIN rest : rest[i] = x
    BY <1>3, Listed
  <1> HIDE DEF rest
  <1>9. rest \in Seq(Calls) /\ \A i \in DOMAIN rest : rest[i] \in S
    BY <1>4, <1>8, SeqMonotonic
  <1>10. <<own>> \in Seq(Calls) /\ Len(<<own>>) = 1 /\ <<own>>[1] = own
    BY <1>6
  <1>11. /\ t \in Seq(Calls) /\ Len(t) = 1 + Len(rest)
    BY <1>7, <1>9, <1>10, ConcatProperties
  <1>12. \A i \in 1 .. 1 + Len(rest) : t[i] = IF i <= 1 THEN own ELSE rest[i - 1]
    <2>1. \A i \in 1 .. Len(<<own>>) + Len(rest) :
            (<<own>> \o rest)[i] = IF i <= Len(<<own>>) THEN <<own>>[i] ELSE rest[i - Len(<<own>>)]
      BY <1>9, <1>10, ConcatProperties
    <2>2. \A i \in 1 .. 1 + Len(rest) :
            t[i] = IF i <= 1 THEN <<own>>[i] ELSE rest[i - 1]
      BY <1>7, <1>10, <2>1
    <2> TAKE i \in 1 .. 1 + Len(rest)
    <2>3. CASE i <= 1
      <3>1. i = 1
        BY <1>9, <2>3
      <3> QED BY <1>10, <2>2, <3>1
    <2>4. CASE ~(i <= 1)
      BY <2>2, <2>4
    <2> QED BY <2>3, <2>4
  <1>13. DOMAIN t = 1 .. 1 + Len(rest) /\ DOMAIN rest = 1 .. Len(rest) /\ Len(rest) \in Nat
    BY <1>9, <1>11
  <1>14. 1 \in DOMAIN t /\ t[1] = own
    BY <1>12, <1>13
  <1>15. ASSUME NEW i \in DOMAIN t \ {1} PROVE t[i].from_neighbor /\ t[i].acks = {}
    <2>1. t[i] = rest[i - 1] /\ i - 1 \in DOMAIN rest
      BY <1>12, <1>13
    <2> QED BY <1>4, <1>9, <2>1
  <1>16. ASSUME NEW n \in Around[b] PROVE \E i \in DOMAIN t : t[i].p = n
    <2>1. PICK j \in DOMAIN rest : rest[j] = rec(n)
      BY <1>5, <1>8
    <2>2. j + 1 \in DOMAIN t /\ t[j + 1] = rec(n)
      BY <1>12, <1>13, <2>1
    <2> QED BY <1>5, <2>2
  <1> QED BY <1>11, <1>14, <1>15, <1>16 DEF own, t

\* The update at i of the queue takes in the call u.
Merged(i, u) ==
  /\ m_queue' \in Seq(Updates) /\ DOMAIN m_queue' = DOMAIN m_queue
  /\ \A j \in DOMAIN m_queue : j # i => m_queue'[j] = m_queue[j]
  /\ m_queue'[i].p = u.p /\ m_queue'[i].acks = m_queue[i].acks \cup u.acks
  /\ m_queue'[i].blocks = m_queue[i].blocks \cup RetrieveBlocks(u.p)

LEMMA MergeMerges ==
  ASSUME Types, MeshConstants, NEW u \in Calls, NEW i \in DOMAIN m_queue,
         m_queue[i].p = u.p, m_queue' = Merge(u, i)
  PROVE  Merged(i, u)
  <1> DEFINE q == m_queue[i]
             a == q.acks \cup u.acks
             g == q.urgent \/ u.urgent
             s == q.blocks \cup RetrieveBlocks(u.p)
             e == [p |-> u.p, acks |-> a, urgent |-> g, blocks |-> s]
             x == [m_queue EXCEPT ![i].acks = a]
             y == [x EXCEPT ![i].urgent = x[i].urgent \/ u.urgent]
             z == [y EXCEPT ![i].blocks = y[i].blocks \cup RetrieveBlocks(u.p)]
  <1>1. /\ q \in Updates /\ q = [p |-> q.p, acks |-> q.acks, urgent |-> q.urgent,
                                 blocks |-> q.blocks]
        /\ q.acks \in AckSets /\ q.urgent \in BOOLEAN /\ q.blocks \subseteq Blocks
        /\ u.acks \in AckSets /\ u.urgent \in BOOLEAN /\ u.p \in Blocks
    BY Elements DEF Updates, Calls
  <1>2. e \in Updates
    <2>1. a \in AckSets
      BY <1>1, FS_Union DEF AckSets
    <2>2. s \in SUBSET Blocks /\ g \in BOOLEAN
      BY <1>1 DEF RetrieveBlocks, Loaded
    <2> HIDE DEF a, s, g
    <2> QED BY <1>1, <2>1, <2>2 DEF Updates
  <1>3. m_queue' = z
    BY DEF Merge
  <1>4. x = [m_queue EXCEPT ![i] = [p |-> q.p, acks |-> a, urgent |-> q.urgent,
                                    blocks |-> q.blocks]]
    <2>1. x = [m_queue EXCEPT ![i] = [q EXCEPT !.acks = a]]
      OBVIOUS
    <2> HIDE DEF x, a, q
    <2>2. [q EXCEPT !.acks = a] = [p |-> q.p, acks |-> a, urgent |-> q.urgent,
                                   blocks |-> q.blocks]
      BY <1>1
    <2> QED BY <2>1, <2>2
  <1> HIDE DEF a
  <1>5. /\ DOMAIN x = DOMAIN m_queue /\ \A j \in DOMAIN m_queue : j # i => x[j] = m_queue[j]
        /\ x[i] = [p |-> q.p, acks |-> a, urgent |-> q.urgent, blocks |-> q.blocks]
    BY <1>4
  <1> HIDE DEF x
  <1>6. /\ DOMAIN y = DOMAIN m_queue /\ \A j \in DOMAIN m_queue : j # i => y[j] = m_queue[j]
        /\ y[i] = [p |-> q.p, acks |-> a, urgent |-> g, blocks |-> q.blocks]
    BY <1>5
  <1> HIDE DEF y, g
  <1>7. /\ DOMAIN z = DOMAIN m_queue /\ \A j \in DOMAIN m_queue : j # i => z[j] = m_queue[j]
        /\ z[i] = e
    BY <1>6
  <1> HIDE DEF z, s
  <1>8. /\ m_queue' = [m_queue EXCEPT ![i] = e]
    <2>1. z = [y EXCEPT ![i].blocks = y[i].blocks \cup RetrieveBlocks(u.p)]
      BY DEF z
    <2>2. z = [j \in DOMAIN y |-> z[j]]
      BY <2>1
    <2>3. z = [j \in DOMAIN m_queue |-> IF j = i THEN e ELSE m_queue[j]]
      BY <1>6, <1>7, <2>2
    <2> QED BY <1>3, <2>3
  <1>9. m_queue' \in Seq(Updates)
    BY <1>2, <1>8, ExceptSeq DEF Types
  <1>10. e.p = u.p /\ e.acks = a /\ e.blocks = s
    OBVIOUS
  <1> HIDE DEF e
  <1> QED BY <1>3, <1>7, <1>9, <1>10 DEF Merged, a, s

\* MeshUpdateQueue::addBlock, for the call u.
Call(u) ==
  \/ /\ u.p \notin Loaded /\ m_queue' = m_queue /\ m_urgents' = m_urgents
  \/ /\ u.p \in Loaded /\ \E i \in DOMAIN m_queue : m_queue[i].p = u.p /\ Merged(i, u)
     /\ m_urgents' \subseteq m_urgents \cup {u.p}
  \/ /\ u.p \in Loaded /\ \A i \in DOMAIN m_queue : m_queue[i].p # u.p
     /\ u.from_neighbor /\ content[u.p].air /\ m_queue' = m_queue
     /\ m_urgents' = m_urgents \ {u.p}
  \/ /\ u.p \in Loaded /\ \A i \in DOMAIN m_queue : m_queue[i].p # u.p
     /\ ~(u.from_neighbor /\ content[u.p].air)
     /\ \E e \in Updates : /\ e.p = u.p /\ e.acks = u.acks
                           /\ e.blocks = RetrieveBlocks(u.p)
                           /\ m_queue' \in Seq(Updates) /\ Added(m_queue, m_queue', e)
     /\ m_urgents' \subseteq m_urgents \cup {u.p}

LEMMA AddBlockIs ==
  ASSUME MeshConstants, Types, AddBlock
  PROVE  /\ adding' \in Seq(Calls) /\ Dropped(adding, adding', 1)
         /\ adding[1] \in Calls /\ Call(adding[1]) /\ m_queue' \in Seq(Updates)
  <1> DEFINE u == adding[1]
  <1>1. /\ adding \in Seq(Calls) /\ adding # <<>> /\ adding' = Tail(adding)
        /\ m_queue \in Seq(Updates)
    BY DEF Types, AddBlock
  <1>2. adding' \in Seq(Calls) /\ Dropped(adding, adding', 1) /\ Head(adding) = u /\ u \in Calls
    BY <1>1, TailDrops
  <1>3. Call(u) /\ m_queue' \in Seq(Updates)
    <2> DEFINE marked == IF u.urgent THEN m_urgents \cup {u.p} ELSE m_urgents
               queued == {i \in DOMAIN m_queue : m_queue[i].p = u.p}
               e == [p |-> u.p, acks |-> u.acks, urgent |-> u.urgent,
                     blocks |-> RetrieveBlocks(u.p)]
    <2>1. \/ u.p \notin Loaded /\ UNCHANGED <<m_queue, m_urgents>>
          \/ /\ u.p \in Loaded /\ queued # {}
             /\ \E i \in queued : m_queue' = Merge(u, i)
             /\ m_urgents' = marked
          \/ /\ u.p \in Loaded /\ queued = {}
             /\ u.from_neighbor /\ content[u.p].air
             /\ m_urgents' = m_urgents \ {u.p}
             /\ UNCHANGED m_queue
          \/ /\ u.p \in Loaded /\ queued = {}
             /\ ~(u.from_neighbor /\ content[u.p].air)
             /\ m_urgents' = marked
             /\ m_queue' = Append(m_queue, e)
      BY <1>2 DEF AddBlock, UrgentsWhenSkipped
    <2>2. marked \subseteq m_urgents \cup {u.p}
      OBVIOUS
    <2> HIDE DEF u
    <2>3. e \in Updates /\ e.p = u.p /\ e.acks = u.acks /\ e.blocks = RetrieveBlocks(u.p)
      BY <1>2 DEF Updates, Calls, RetrieveBlocks, Loaded
    <2> HIDE DEF e, marked
    <2>4. CASE u.p \notin Loaded /\ UNCHANGED <<m_queue, m_urgents>>
      BY <1>1, <2>4 DEF Call
    <2>5. CASE /\ u.p \in Loaded /\ queued # {}
               /\ \E i \in queued : m_queue' = Merge(u, i)
               /\ m_urgents' = marked
      <3>1. PICK i \in DOMAIN m_queue : m_queue[i].p = u.p /\ m_queue' = Merge(u, i)
        BY <2>5
      <3>2. Merged(i, u)
        BY <1>2, <3>1, MergeMerges
      <3> QED BY <2>2, <2>5, <3>1, <3>2 DEF Call, Merged
    <2>6. CASE /\ u.p \in Loaded /\ queued = {}
               /\ u.from_neighbor /\ content[u.p].air
               /\ m_urgents' = m_urgents \ {u.p}
               /\ UNCHANGED m_queue
      BY <1>1, <2>6 DEF Call
    <2>7. CASE /\ u.p \in Loaded /\ queued = {}
               /\ ~(u.from_neighbor /\ content[u.p].air)
               /\ m_urgents' = marked
               /\ m_queue' = Append(m_queue, e)
      <3>1. m_queue' \in Seq(Updates) /\ Added(m_queue, m_queue', e)
        BY <1>1, <2>3, <2>7, AppendAdds
      <3> QED BY <2>2, <2>3, <2>7, <3>1 DEF Call
    <2> QED BY <2>1, <2>4, <2>5, <2>6, <2>7
  <1> QED BY <1>2, <1>3

\* MeshUpdateQueue::pop, when there is something for the worker w.
Popped(w, k) ==
  /\ k \in DOMAIN m_queue /\ MayPop(k)
  /\ m_queue' \in Seq(Updates) /\ Dropped(m_queue, m_queue', k)
  /\ job' = [job EXCEPT ![w] = m_queue[k]] /\ pc' = [pc EXCEPT ![w] = "make"]
  /\ m_urgents' = m_urgents \ {m_queue[k].p}
  /\ m_inflight_blocks' = m_inflight_blocks \cup {m_queue[k].p}

LEMMA PopIs ==
  ASSUME Types, NEW w \in Workers, Pop(w)
  PROVE  \/ /\ \A k \in DOMAIN m_queue : ~MayPop(k)
            /\ pc' = [pc EXCEPT ![w] = "wait"] /\ UNCHANGED <<queueVars, job>>
         \/ \E k \in DOMAIN m_queue : Popped(w, k)
  <1> DEFINE eligible == {i \in DOMAIN m_queue : MayPop(i)}
             k == Min(eligible)
  <1>1. CASE eligible = {} /\ pc' = [pc EXCEPT ![w] = "wait"] /\ UNCHANGED <<queueVars, job>>
    BY <1>1
  <1>2. CASE /\ eligible # {}
             /\ job' = [job EXCEPT ![w] = m_queue[k]]
             /\ m_queue' = RemoveAt(m_queue, k)
             /\ m_urgents' = m_urgents \ {m_queue[k].p}
             /\ m_inflight_blocks' = m_inflight_blocks \cup {m_queue[k].p}
             /\ pc' = [pc EXCEPT ![w] = "make"]
    <2>1. eligible \subseteq Nat /\ m_queue \in Seq(Updates)
      BY DEF Types
    <2>2. k \in eligible
      BY <1>2, <2>1, LeastNat
    <2> HIDE DEF k
    <2>3. k \in DOMAIN m_queue /\ MayPop(k)
      BY <2>2
    <2>4. m_queue' \in Seq(Updates) /\ Dropped(m_queue, m_queue', k)
      BY <1>2, <2>1, <2>3, RemoveDrops
    <2> QED BY <1>2, <2>3, <2>4 DEF Popped
  <1> QED BY <1>1, <1>2 DEF Pop, Goto

\* What the worker w makes of its update: r, put into one of the two queues.
Made1(w, r) ==
  /\ r \in Made /\ r.p = job[w].p /\ r.acks = job[w].acks /\ r.blocks = job[w].blocks
  /\ r.saw = content[job[w].p].version /\ r.mesh = MeshOf(job[w].p, job[w].blocks)
  /\ m_queue_out' \in Seq(Made) /\ m_queue_out_urgent' \in Seq(Made)
  /\ \/ /\ Added(m_queue_out_urgent, m_queue_out_urgent', r) /\ m_queue_out' = m_queue_out
        /\ overtaken' = IF \E i \in DOMAIN m_queue_out : m_queue_out[i].p = job[w].p
                        THEN overtaken \cup {job[w].p} ELSE overtaken \ {job[w].p}
     \/ /\ Added(m_queue_out, m_queue_out', r)
        /\ m_queue_out_urgent' = m_queue_out_urgent
        /\ overtaken' = overtaken \ {job[w].p}

LEMMA MakeMeshIs ==
  ASSUME Types, JobsLinked, NEW w \in Workers, MakeMesh(w)
  PROVE  \E r : Made1(w, r)
  <1> DEFINE u == job[w]
             m == MeshOf(u.p, u.blocks)
             r == [p |-> u.p, acks |-> u.acks, blocks |-> u.blocks,
                   saw |-> content[u.p].version, mesh |-> m]
  <1>1. u \in Updates /\ Holds(u)
    BY DEF Types, MakeMesh, Working, JobsLinked
  <1>2. /\ u.p \in Loaded /\ u.p \in Blocks /\ u.acks \in AckSets /\ u.blocks \subseteq Blocks
        /\ u.blocks \subseteq Loaded
    BY <1>1 DEF Holds, Updates
  <1>3. m \in Meshes
    <2>1. [n \in {} |-> 0] \in Meshes
      <3>1. [n \in {} |-> 0] \in [{} -> Nat] /\ {} \in SUBSET Blocks
        OBVIOUS
      <3> QED BY <3>1 DEF Meshes
    <2>2. [n \in u.blocks |-> content[n].version] \in Meshes
      <3>1. [n \in u.blocks |-> content[n].version] \in [u.blocks -> Nat]
        BY <1>2, Elements
      <3> QED BY <1>2, <3>1 DEF Meshes
    <2> QED BY <2>1, <2>2 DEF MeshOf
  <1>4. content[u.p].version \in Nat
    BY <1>2, Elements
  <1>5. \/ /\ m_queue_out_urgent' = Append(m_queue_out_urgent, r) /\ m_queue_out' = m_queue_out
           /\ overtaken' = IF \E x \in ToSet(m_queue_out) : x.p = u.p
                           THEN overtaken \cup {u.p} ELSE overtaken \ {u.p}
        \/ /\ m_queue_out' = Append(m_queue_out, r) /\ m_queue_out_urgent' = m_queue_out_urgent
           /\ overtaken' = overtaken \ {u.p}
    BY DEF MakeMesh
  <1>6. (\E x \in ToSet(m_queue_out) : x.p = u.p)
          <=> \E i \in DOMAIN m_queue_out : m_queue_out[i].p = u.p
    BY DEF ToSet
  <1> HIDE DEF m
  <1>7. /\ r \in Made /\ r.p = u.p /\ r.acks = u.acks /\ r.blocks = u.blocks
        /\ r.saw = content[u.p].version /\ r.mesh = m
    BY <1>2, <1>3, <1>4 DEF Made
  <1> HIDE DEF r
  <1>8. /\ Append(m_queue_out, r) \in Seq(Made) /\ Append(m_queue_out_urgent, r) \in Seq(Made)
        /\ Added(m_queue_out, Append(m_queue_out, r), r)
        /\ Added(m_queue_out_urgent, Append(m_queue_out_urgent, r), r)
        /\ m_queue_out \in Seq(Made) /\ m_queue_out_urgent \in Seq(Made)
    BY <1>7, AppendAdds DEF Types
  <1> HIDE DEF u
  <1>9. Made1(w, r)
    BY <1>5, <1>6, <1>7, <1>8 DEF Made1, m, u
  <1> QED BY <1>9

\* getNextResult: r is the first of the urgent results or, without those, the
\* first of the others.
Taken(r) ==
  /\ m_queue_out' \in Seq(Made) /\ m_queue_out_urgent' \in Seq(Made)
  /\ \/ /\ Dropped(m_queue_out_urgent, m_queue_out_urgent', 1)
        /\ r = m_queue_out_urgent[1] /\ m_queue_out' = m_queue_out
     \/ /\ Dropped(m_queue_out, m_queue_out', 1) /\ m_queue_out_urgent = <<>>
        /\ r = m_queue_out[1] /\ m_queue_out_urgent' = <<>>
  /\ r \in Made
  /\ shown' = [shown EXCEPT ![r.p] = r.mesh]
  /\ acked' = acked \o SetToSeq(r.acks)

LEMMA TakeResultIs ==
  ASSUME Types, TakeResult
  PROVE  \E r : Taken(r)
  <1> DEFINE s == m_queue_out_urgent
             t == m_queue_out
             r == Head(Results)
  <1>1. s \in Seq(Made) /\ t \in Seq(Made) /\ Results = s \o t /\ Results # <<>>
    BY DEF Types, Results, TakeResult
  <1>2. /\ shown' = [shown EXCEPT ![r.p] = r.mesh]
        /\ acked' = acked \o SetToSeq(r.acks)
    BY DEF TakeResult
  <1>3. Head(s \o t) = (s \o t)[1]
    BY <1>1
  <1>4. CASE s # <<>>
    <2>1. Len(s) \in Nat \ {0} /\ Len(t) \in Nat
      BY <1>1, <1>4, EmptySeq
    <2>2. (s \o t)[1] = s[1]
      <3>1. \A i \in 1 .. Len(s) + Len(t) :
              (s \o t)[i] = IF i <= Len(s) THEN s[i] ELSE t[i - Len(s)]
        BY <1>1, ConcatProperties
      <3> QED BY <2>1, <3>1
    <2>3. s' = Tail(s) /\ t' = t
      BY <1>4 DEF TakeResult
    <2>4. Tail(s) \in Seq(Made) /\ Dropped(s, Tail(s), 1) /\ s[1] \in Made
      BY <1>1, <1>4, TailDrops
    <2> QED BY <1>1, <1>2, <1>3, <2>2, <2>3, <2>4 DEF Taken
  <1>5. CASE s = <<>>
    <2>1. s \o t = t
      BY <1>1, <1>5, ConcatEmptySeq
    <2>2. t' = Tail(t) /\ s' = s
      BY <1>5 DEF TakeResult
    <2>3. Tail(t) \in Seq(Made) /\ Dropped(t, Tail(t), 1) /\ t[1] \in Made /\ Head(t) = t[1]
      BY <1>1, <2>1, TailDrops
    <2>4. r = t[1]
      BY <1>1, <2>1, <2>3
    <2> HIDE DEF r
    <2> QED BY <1>1, <1>2, <1>5, <2>2, <2>3, <2>4 DEF Taken
  <1> QED BY <1>4, <1>5

LEMMA ResultsAre ==
  ASSUME Types
  PROVE  /\ ToSet(m_queue_out) \subseteq ToSet(Results)
         /\ ToSet(m_queue_out_urgent) \subseteq ToSet(Results)
  <1> DEFINE s == m_queue_out_urgent
             t == m_queue_out
  <1>1. s \in Seq(Made) /\ t \in Seq(Made) /\ Results = s \o t
    BY DEF Types, Results
  <1>2. /\ s \o t \in Seq(Made) /\ Len(s \o t) = Len(s) + Len(t)
    BY <1>1, ConcatProperties
  <1>3. \A i \in 1 .. Len(s) + Len(t) :
          (s \o t)[i] = IF i <= Len(s) THEN s[i] ELSE t[i - Len(s)]
    BY <1>1, ConcatProperties
  <1>4. /\ DOMAIN s = 1 .. Len(s) /\ DOMAIN t = 1 .. Len(t)
        /\ DOMAIN (s \o t) = 1 .. Len(s) + Len(t) /\ Len(s) \in Nat /\ Len(t) \in Nat
    BY <1>1, <1>2
  <1> HIDE DEF s, t
  <1>5. ASSUME NEW i \in DOMAIN s PROVE s[i] \in ToSet(s \o t)
    <2>1. i \in DOMAIN (s \o t) /\ (s \o t)[i] = s[i]
      BY <1>3, <1>4
    <2> QED BY <2>1 DEF ToSet
  <1>6. ASSUME NEW i \in DOMAIN t PROVE t[i] \in ToSet(s \o t)
    <2>1. i + Len(s) \in DOMAIN (s \o t) /\ ~(i + Len(s) <= Len(s))
          /\ (i + Len(s)) - Len(s) = i
      BY <1>4
    <2>2. (s \o t)[i + Len(s)] = t[i]
      BY <1>3, <1>4, <2>1
    <2> QED BY <2>1, <2>2 DEF ToSet
  <1> QED BY <1>1, <1>5, <1>6 DEF ToSet, s, t

-----------------------------------------------------------------------------
(***************************************************************************)
(* The invariant is kept: the main thread.                                 *)
(***************************************************************************)
LEMMA ChangeInv ==
  ASSUME MeshConstants, Types, Links, NEW b \in Blocks, NEW air \in BOOLEAN,
         NEW acks \in {{}, {versions + 1}}, NEW urgent \in BOOLEAN,
         Change(b, air, acks, urgent),
         received' \in {received, received \cup {versions + 1}}
  PROVE  Types' /\ Links' /\ Served'
  <1> DEFINE n == versions + 1
             c == [version |-> n, air |-> air]
  <1>1. /\ main = "step" /\ main' = "adding" /\ versions' = n
        /\ content' = [content EXCEPT ![b] = c]
        /\ adding' = UpdatesFor(b, acks, urgent)
        /\ shown' = shown /\ unloads' = unloads /\ m_queue' = m_queue
        /\ m_urgents' = m_urgents /\ m_inflight_blocks' = m_inflight_blocks
        /\ m_update_sem' = m_update_sem /\ pc' = pc /\ job' = job
        /\ m_queue_out' = m_queue_out /\ m_queue_out_urgent' = m_queue_out_urgent
        /\ acked' = acked
    BY DEF Change, queueVars, workerVars, resultVars
  <1>2. n \in Nat /\ versions \in Nat /\ versions < n /\ c \in Contents /\ c # None /\ c.version = n
    BY DEF Types, Contents, MeshConstants
  <1>3. acks \in AckSets /\ \A v \in acks : v = n
    <2>1. IsFiniteSet(acks)
      <3>1. IsFiniteSet({})
        BY FS_EmptySet
      <3>2. IsFiniteSet({versions + 1})
        BY FS_Singleton
      <3> QED BY <3>1, <3>2
    <2> QED BY <1>2, <2>1 DEF AckSets
  <1> HIDE DEF n, c
  <1>4. /\ content' \in [Blocks -> Contents \cup {None}] /\ content'[b] = c
        /\ \A d \in Blocks : d # b => content'[d] = content[d]
    BY <1>1, <1>2 DEF Types
  <1>5. /\ adding' \in Seq(Calls) /\ 1 \in DOMAIN adding'
        /\ adding'[1] = [p |-> b, acks |-> acks, urgent |-> urgent, from_neighbor |-> FALSE]
        /\ \A i \in DOMAIN adding' \ {1} : adding'[i].from_neighbor /\ adding'[i].acks = {}
    BY <1>1, <1>3, CallsFor
  <1>6. Types'
    BY <1>1, <1>2, <1>4, <1>5 DEF Types
  <1>7. /\ Loaded \subseteq Loaded' /\ b \in Loaded'
        /\ \A d \in Loaded : content[d].version <= content'[d].version
        /\ \A d \in Loaded' : content'[d].version <= n
    <2>1. Loaded \subseteq Loaded' /\ b \in Loaded' /\ \A d \in Loaded' : d # b => d \in Loaded
      BY <1>2, <1>4 DEF Loaded
    <2>2. \A d \in Loaded : content[d].version \in Nat /\ content[d].version <= versions
      BY Elements DEF Links, Counted
    <2>3. ASSUME NEW d \in Loaded PROVE content[d].version <= content'[d].version
      <3>1. CASE d = b
        BY <1>2, <1>4, <2>2, <3>1
      <3>2. CASE d # b
        BY <1>4, <2>2, <3>2, Elements
      <3> QED BY <3>1, <3>2
    <2>4. ASSUME NEW d \in Loaded' PROVE content'[d].version <= n
      <3>1. CASE d = b
        BY <1>2, <1>4, <3>1
      <3>2. CASE d # b
        <4>1. d \in Loaded /\ d \in Blocks
          BY <2>1, <3>2 DEF Loaded
        <4> QED BY <1>2, <1>4, <2>2, <3>2, <4>1
      <3> QED BY <3>1, <3>2
    <2> QED BY <2>1, <2>3, <2>4
  <1>8. ASSUME NEW u, u \in Updates, Holds(u) PROVE Holds(u)'
    <2>1. u.p \in Loaded /\ u.acks \subseteq Nat
      BY <1>8 DEF Holds, Updates, AckSets
    <2>2. content[u.p].version \in Nat /\ content'[u.p].version \in Nat
      BY <1>4, <1>7, <2>1, Elements DEF Loaded, Contents
    <2>3. \A v \in u.acks : v <= content'[u.p].version
      BY <1>7, <1>8, <2>1, <2>2 DEF Holds
    <2> QED BY <1>7, <1>8, <2>3 DEF Holds
  <1>9. QueueLinked' /\ JobsLinked'
    <2>1. \A i \in DOMAIN m_queue : m_queue[i] \in Updates /\ Holds(m_queue[i])
      BY Elements DEF Links, QueueLinked
    <2>2. \A w \in Working : job[w] \in Updates /\ Holds(job[w])
      BY DEF Links, JobsLinked, Types, Working
    <2>3. Working' = Working
      BY <1>1 DEF Working
    <2> QED BY <1>1, <1>8, <2>1, <2>2, <2>3 DEF QueueLinked, JobsLinked, Holds
  <1>10. ResultsLinked'
    <2>1. ASSUME NEW r \in Made, Result(r) PROVE Result(r)'
      <3>1. r.saw \in Nat
        BY DEF Made
      <3>2. r.saw <= versions'
        BY <1>1, <1>2, <2>1, <3>1 DEF Result
      <3> QED BY <1>7, <2>1, <3>2 DEF Result
    <2> QED BY <1>1, <2>1, Elements DEF Links, ResultsLinked, Result
  <1>11. NoCalls' /\ CallsLinked'
    <2>1. NoCalls'
      BY <1>1 DEF NoCalls
    <2>2. ASSUME NEW i \in DOMAIN adding'
          PROVE (IF adding[i].from_neighbor THEN adding[i].acks = {}
                 ELSE /\ adding[i].p \in Loaded
                      /\ \A v \in adding[i].acks : v <= content[adding[i].p].version)'
      <3>1. CASE i = 1
        <4>1. /\ ~adding'[i].from_neighbor /\ adding'[i].p = b /\ adding'[i].acks = acks
          BY <1>5, <3>1
        <4>2. \A v \in acks : v <= content'[b].version
          BY <1>2, <1>3, <1>4
        <4> QED BY <1>7, <4>1, <4>2
      <3>2. CASE i # 1
        BY <1>5, <3>2
      <3> QED BY <3>1, <3>2
    <2> QED BY <2>1, <2>2 DEF CallsLinked
  <1>12. OneEach' /\ InHand' /\ UrgentsQueued'
    BY <1>1 DEF Links, OneEach, InHand, UrgentsQueued, Busy
  <1>13. Counted'
    <2>1. \A v \in received' : v <= n
      BY <1>2 DEF Links, Counted, Types, n
    <2>2. \A i \in DOMAIN acked : acked[i] <= n
      BY <1>2 DEF Links, Counted, Types
    <2> QED BY <1>1, <1>7, <2>1, <2>2 DEF Counted
  <1>14. Served'
    BY <1>1 DEF Served
  <1> QED BY <1>6, <1>9, <1>10, <1>11, <1>12, <1>13, <1>14 DEF Links

LEMMA AddBlockInv ==
  ASSUME MeshConstants, Types, Links, AddBlock
  PROVE  Types' /\ Links' /\ Served'
  <1>0. PICK u : u = adding[1]
    OBVIOUS
  <1>1. /\ main = "adding" /\ content' = content /\ received' = received
        /\ versions' = versions /\ unloads' = unloads /\ shown' = shown /\ main' = main
        /\ m_inflight_blocks' = m_inflight_blocks /\ m_update_sem' = m_update_sem
        /\ pc' = pc /\ job' = job /\ m_queue_out' = m_queue_out
        /\ m_queue_out_urgent' = m_queue_out_urgent /\ acked' = acked
    BY DEF AddBlock, mapVars, workerVars, resultVars
  <1>2. /\ adding' \in Seq(Calls) /\ Dropped(adding, adding', 1) /\ 1 \in DOMAIN adding
        /\ u \in Calls /\ Call(u) /\ m_queue' \in Seq(Updates)
    BY <1>0, AddBlockIs DEF Dropped
  <1>3. /\ Loaded' = Loaded /\ Working' = Working /\ Busy' = Busy
        /\ \A x : RetrieveBlocks(x) \subseteq Loaded
    BY <1>1 DEF Loaded, Working, Busy, RetrieveBlocks
  <1>4. u.p \in Loaded => \A v \in u.acks : v <= content[u.p].version
    BY <1>0, <1>2 DEF Links, CallsLinked
  <1>5. u.p \in Blocks
    BY <1>2 DEF Calls
  <1>6. m_urgents' \subseteq Blocks
    BY <1>2, <1>5 DEF Call, Types
  <1>7. Types'
    BY <1>1, <1>2, <1>6 DEF Types
  <1>8. NoCalls' /\ CallsLinked'
    <2>1. \A j \in DOMAIN adding' : Was(1, j) \in DOMAIN adding /\ adding'[j] = adding[Was(1, j)]
      BY <1>2 DEF Dropped
    <2> QED BY <1>1, <1>3, <2>1 DEF Links, NoCalls, CallsLinked
  <1>9. JobsLinked' /\ ResultsLinked' /\ InHand' /\ Counted'
    <2>1. JobsLinked'
      BY <1>1, <1>3 DEF Links, JobsLinked, Holds
    <2>2. ResultsLinked'
      BY <1>1, <1>3 DEF Links, ResultsLinked, Result
    <2>3. InHand' /\ Counted'
      BY <1>1, <1>3 DEF Links, InHand, Counted
    <2> QED BY <2>1, <2>2, <2>3
  <1>10. Served'
    BY <1>1 DEF Served
  <1>11. CASE m_queue' = m_queue /\ m_urgents' \subseteq m_urgents
              /\ (m_urgents' = m_urgents \/ \A i \in DOMAIN m_queue : m_queue[i].p # u.p)
    <2>1. QueueLinked' /\ OneEach'
      BY <1>1, <1>3, <1>11 DEF Links, QueueLinked, OneEach, Holds
    <2>2. UrgentsQueued'
      BY <1>11 DEF Links, UrgentsQueued
    <2> QED BY <1>7, <1>8, <1>9, <1>10, <2>1, <2>2 DEF Links
  <1>12. CASE /\ u.p \in Loaded /\ \E i \in DOMAIN m_queue : m_queue[i].p = u.p /\ Merged(i, u)
              /\ m_urgents' \subseteq m_urgents \cup {u.p}
    <2>1. PICK i \in DOMAIN m_queue : m_queue[i].p = u.p /\ Merged(i, u)
      BY <1>12
    <2>2. /\ DOMAIN m_queue' = DOMAIN m_queue
          /\ \A j \in DOMAIN m_queue : j # i => m_queue'[j] = m_queue[j]
          /\ m_queue'[i].p = u.p /\ m_queue'[i].acks = m_queue[i].acks \cup u.acks
          /\ m_queue'[i].blocks = m_queue[i].blocks \cup RetrieveBlocks(u.p)
      BY <2>1 DEF Merged
    <2>3. \A j \in DOMAIN m_queue : m_queue'[j].p = m_queue[j].p
      BY <2>1, <2>2
    <2>4. QueueLinked'
      <3>1. ASSUME NEW j \in DOMAIN m_queue PROVE Holds(m_queue[j])'
        <4>1. Holds(m_queue[j])
          BY DEF Links, QueueLinked
        <4>2. CASE j = i
          <5>1. \A v \in m_queue'[i].acks : v <= content[u.p].version
            BY <1>4, <1>12, <2>1, <2>2, <4>1, <4>2 DEF Holds
          <5>2. u.p \in m_queue'[i].blocks /\ m_queue'[i].blocks \subseteq Loaded
            BY <1>3, <2>1, <2>2, <4>1, <4>2 DEF Holds
          <5> QED BY <1>1, <1>3, <2>2, <4>2, <5>1, <5>2 DEF Holds
        <4>3. CASE j # i
          BY <1>1, <1>3, <2>2, <4>1, <4>3 DEF Holds
        <4> QED BY <4>2, <4>3
      <3> QED BY <2>2, <3>1 DEF QueueLinked
    <2>5. OneEach'
      BY <2>2, <2>3 DEF Links, OneEach
    <2>6. UrgentsQueued'
      <3>1. \A x \in m_urgents' : \E j \in DOMAIN m_queue : m_queue[j].p = x
        BY <1>12, <2>1 DEF Links, UrgentsQueued
      <3> QED BY <2>2, <2>3, <3>1 DEF UrgentsQueued
    <2> QED BY <1>7, <1>8, <1>9, <1>10, <2>4, <2>5, <2>6 DEF Links
  <1>13. CASE /\ u.p \in Loaded /\ \A i \in DOMAIN m_queue : m_queue[i].p # u.p
              /\ \E e \in Updates : /\ e.p = u.p /\ e.acks = u.acks
                                    /\ e.blocks = RetrieveBlocks(u.p)
                                    /\ Added(m_queue, m_queue', e)
              /\ m_urgents' \subseteq m_urgents \cup {u.p}
    <2>1. PICK e \in Updates : /\ e.p = u.p /\ e.acks = u.acks
                               /\ e.blocks = RetrieveBlocks(u.p)
                               /\ Added(m_queue, m_queue', e)
      BY <1>13
    <2>2. PICK k \in DOMAIN m_queue' : /\ DOMAIN m_queue = DOMAIN m_queue' \ {k}
                                       /\ m_queue'[k] = e
                                       /\ \A i \in DOMAIN m_queue : m_queue'[i] = m_queue[i]
      BY <2>1 DEF Added
    <2>3. Holds(e)
      BY <1>3, <1>4, <1>5, <1>13, <2>1 DEF Holds, RetrieveBlocks
    <2>4. QueueLinked'
      <3>1. ASSUME NEW j \in DOMAIN m_queue' PROVE Holds(m_queue[j])'
        <4>1. Holds(m_queue'[j])
          <5>1. CASE j = k
            BY <2>2, <2>3, <5>1
          <5>2. CASE j # k
            <6>1. j \in DOMAIN m_queue /\ m_queue'[j] = m_queue[j]
              BY <2>2, <5>2
            <6> QED BY <6>1 DEF Links, QueueLinked
          <5> QED BY <5>1, <5>2
        <4> QED BY <1>1, <1>3, <4>1 DEF Holds
      <3> QED BY <3>1 DEF QueueLinked
    <2>5. OneEach'
      BY <1>13, <2>1, <2>2 DEF Links, OneEach
    <2>6. UrgentsQueued'
      BY <1>13, <2>1, <2>2 DEF Links, UrgentsQueued
    <2> QED BY <1>7, <1>8, <1>9, <1>10, <2>4, <2>5, <2>6 DEF Links
  <1> QED BY <1>2, <1>11, <1>12, <1>13 DEF Call

LEMMA UnloadInv ==
  ASSUME MeshConstants, MeshInv, NEW b \in Blocks, Unload(b)
  PROVE  MeshInv'
  <1>1. /\ main = "step" /\ b \in Loaded /\ b \notin Referenced /\ unloads' = unloads + 1
        /\ content' = [content EXCEPT ![b] = None] /\ shown' = [shown EXCEPT ![b] = None]
        /\ main' = main /\ received' = received /\ versions' = versions
        /\ adding' = adding /\ m_queue' = m_queue /\ m_urgents' = m_urgents
        /\ m_inflight_blocks' = m_inflight_blocks /\ m_update_sem' = m_update_sem
        /\ pc' = pc /\ job' = job /\ m_queue_out' = m_queue_out
        /\ m_queue_out_urgent' = m_queue_out_urgent /\ acked' = acked
        /\ Types /\ Links /\ Served
    BY DEF MeshInv, Unload, queueVars, workerVars, resultVars
  <1>2. Types'
    BY <1>1 DEF Types
  <1>3. /\ Loaded' = Loaded \ {b} /\ \A d \in Loaded' : content'[d] = content[d]
        /\ Working' = Working /\ Busy' = Busy
    BY <1>1 DEF Loaded, Types, Working, Busy
  <1>4. adding = <<>>
    BY <1>1 DEF Links, NoCalls
  <1>5. /\ \A i \in DOMAIN m_queue : b \notin m_queue[i].blocks
        /\ \A w \in Working : b \notin job[w].blocks
        /\ \A i \in DOMAIN m_queue_out : b \notin m_queue_out[i].blocks
        /\ \A i \in DOMAIN m_queue_out_urgent : b \notin m_queue_out_urgent[i].blocks
    <2>1. ASSUME NEW i \in DOMAIN m_queue PROVE b \notin m_queue[i].blocks
      <3>1. m_queue[i] \in ToSet(m_queue)
        BY DEF ToSet
      <3> QED BY <1>1, <3>1 DEF Referenced
    <2>2. \A w \in Working : b \notin job[w].blocks
      BY <1>1 DEF Referenced
    <2>3. /\ ToSet(m_queue_out) \subseteq ToSet(Results)
          /\ ToSet(m_queue_out_urgent) \subseteq ToSet(Results)
      BY <1>1, ResultsAre
    <2>4. ASSUME NEW i \in DOMAIN m_queue_out PROVE b \notin m_queue_out[i].blocks
      <3>1. m_queue_out[i] \in ToSet(Results)
        BY <2>3 DEF ToSet
      <3> QED BY <1>1, <3>1 DEF Referenced
    <2>5. ASSUME NEW i \in DOMAIN m_queue_out_urgent
          PROVE b \notin m_queue_out_urgent[i].blocks
      <3>1. m_queue_out_urgent[i] \in ToSet(Results)
        BY <2>3 DEF ToSet
      <3> QED BY <1>1, <3>1 DEF Referenced
    <2> QED BY <2>1, <2>2, <2>4, <2>5
  <1>6. QueueLinked' /\ JobsLinked'
    BY <1>1, <1>3, <1>5 DEF Links, QueueLinked, JobsLinked, Holds
  <1>7. ResultsLinked'
    BY <1>1, <1>3, <1>5 DEF Links, ResultsLinked, Result
  <1>8. NoCalls' /\ CallsLinked'
    BY <1>1, <1>4 DEF NoCalls, CallsLinked
  <1>9. OneEach' /\ InHand' /\ UrgentsQueued'
    BY <1>1, <1>3 DEF Links, OneEach, InHand, UrgentsQueued
  <1>10. Counted' /\ Served'
    BY <1>1, <1>3 DEF Links, Counted, Served
  <1> QED BY <1>2, <1>6, <1>7, <1>8, <1>9, <1>10 DEF MeshInv, Links

\* What changes where the main thread is, or wakes workers.
LEMMA TurnInv ==
  ASSUME MeshConstants, MeshInv, DeferUpdate \/ BeginTaking \/ EndTaking
  PROVE  MeshInv'
  <1>1. /\ content' = content /\ received' = received
        /\ versions' = versions /\ unloads' = unloads /\ shown' = shown
        /\ adding' = adding /\ m_queue' = m_queue /\ m_urgents' = m_urgents
        /\ m_inflight_blocks' = m_inflight_blocks
        /\ pc' = pc /\ job' = job /\ m_queue_out' = m_queue_out
        /\ m_queue_out_urgent' = m_queue_out_urgent /\ acked' = acked
        /\ Types /\ Links /\ Served
    BY DEF MeshInv, DeferUpdate, BeginTaking, EndTaking, mapVars, queueVars, workerVars,
           resultVars
  <1>2. /\ main' \in {"step", "taking"} /\ NoCalls'
        /\ m_update_sem' \in [Workers -> BOOLEAN]
    BY <1>1 DEF DeferUpdate, BeginTaking, EndTaking, workerVars, Types, Links, NoCalls
  <1>3. Types'
    BY <1>1, <1>2 DEF Types
  <1>4. Loaded' = Loaded /\ Working' = Working /\ Busy' = Busy
    BY <1>1 DEF Loaded, Working, Busy
  <1>5. CallsLinked' /\ QueueLinked' /\ JobsLinked'
    BY <1>1, <1>4 DEF Links, CallsLinked, QueueLinked, JobsLinked, Holds
  <1>6. ResultsLinked' /\ OneEach' /\ InHand' /\ UrgentsQueued' /\ Counted'
    BY <1>1, <1>4 DEF Links, ResultsLinked, Result, OneEach, InHand, UrgentsQueued, Counted
  <1>7. Served'
    <2>1. CASE DeferUpdate
      <3>1. PICK w \in Workers : TRUE
        BY DEF MeshConstants
      <3>2. m_update_sem'[w]
        BY <2>1 DEF DeferUpdate
      <3> QED BY <3>2 DEF Served
    <2>2. CASE BeginTaking \/ EndTaking
      <3>1. main # "adding" /\ m_update_sem' = m_update_sem
        BY <2>2 DEF BeginTaking, EndTaking, workerVars
      <3> QED BY <1>1, <3>1 DEF Served
    <2> QED BY <2>1, <2>2
  <1> QED BY <1>2, <1>3, <1>5, <1>6, <1>7 DEF MeshInv, Links

LEMMA TakeResultInv ==
  ASSUME MeshConstants, MeshInv, TakeResult
  PROVE  MeshInv'
  <1>1. /\ content' = content /\ received' = received /\ main' = main
        /\ versions' = versions /\ unloads' = unloads
        /\ adding' = adding /\ m_queue' = m_queue /\ m_urgents' = m_urgents
        /\ m_inflight_blocks' = m_inflight_blocks /\ m_update_sem' = m_update_sem
        /\ pc' = pc /\ job' = job
        /\ Types /\ Links /\ Served
    BY DEF MeshInv, TakeResult, mapVars, queueVars, workerVars
  <1>2. PICK r : Taken(r)
    BY <1>1, TakeResultIs
  <1>3. /\ r \in Made /\ r.p \in Blocks /\ r.mesh \in Meshes /\ r.acks \in AckSets
        /\ shown' = [shown EXCEPT ![r.p] = r.mesh] /\ acked' = acked \o SetToSeq(r.acks)
        /\ m_queue_out' \in Seq(Made) /\ m_queue_out_urgent' \in Seq(Made)
    BY <1>2 DEF Taken, Made
  <1>4. Result(r)
    BY <1>1, <1>2 DEF Taken, Links, ResultsLinked, Dropped
  <1>5. SetToSeq(r.acks) \in Seq(r.acks)
    BY <1>3, Listed DEF AckSets
  <1>6. SetToSeq(r.acks) \in Seq(Nat) /\ acked \in Seq(Nat)
    BY <1>1, <1>3, <1>5, SeqMonotonic DEF AckSets, Types
  <1>7. acked' \in Seq(Nat)
    BY <1>3, <1>6, ConcatProperties
  <1>8. shown' \in [Blocks -> Meshes \cup {None}]
    BY <1>1, <1>3 DEF Types
  <1>9. Types'
    BY <1>1, <1>3, <1>7, <1>8 DEF Types
  <1>10. Loaded' = Loaded /\ Working' = Working /\ Busy' = Busy
    BY <1>1 DEF Loaded, Working, Busy
  <1>11. NoCalls' /\ CallsLinked' /\ QueueLinked' /\ JobsLinked'
    BY <1>1, <1>10 DEF Links, NoCalls, CallsLinked, QueueLinked, JobsLinked, Holds
  <1>12. OneEach' /\ InHand' /\ UrgentsQueued' /\ Served'
    BY <1>1, <1>10 DEF Links, OneEach, InHand, UrgentsQueued, Served
  <1>13. ResultsLinked'
    <2>1. /\ \A i \in DOMAIN m_queue_out' : Result(m_queue_out'[i])
          /\ \A i \in DOMAIN m_queue_out_urgent' : Result(m_queue_out_urgent'[i])
      BY <1>1, <1>2 DEF Taken, Dropped, Links, ResultsLinked
    <2> QED BY <1>1, <1>10, <2>1 DEF ResultsLinked, Result
  <1>14. Counted'
    <2>1. \A v \in r.acks : v <= versions
      BY <1>1, <1>3, <1>4 DEF Result, Made, AckSets, Types
    <2>2. ASSUME NEW i \in DOMAIN acked' PROVE acked'[i] <= versions
      <3> DEFINE t == SetToSeq(r.acks)
      <3>1. t \in Seq(r.acks)
        BY <1>5
      <3> HIDE DEF t
      <3>2. /\ Len(acked') = Len(acked) + Len(t) /\ Len(acked) \in Nat /\ Len(t) \in Nat
            /\ i \in 1 .. Len(acked) + Len(t)
            /\ acked'[i] = IF i <= Len(acked) THEN acked[i] ELSE t[i - Len(acked)]
        BY <1>3, <1>6, <1>7, ConcatProperties DEF t
      <3>3. CASE i <= Len(acked)
        <4>1. i \in DOMAIN acked
          BY <1>6, <3>2, <3>3
        <4> QED BY <1>1, <3>2, <3>3, <4>1 DEF Links, Counted
      <3>4. CASE ~(i <= Len(acked))
        <4>1. i - Len(acked) \in 1 .. Len(t)
          BY <3>2, <3>4
        <4>2. t[i - Len(acked)] \in r.acks
          BY <3>1, <4>1, ElementOfSeq
        <4> QED BY <2>1, <3>2, <3>4, <4>2
      <3> QED BY <3>3, <3>4
    <2> QED BY <1>1, <1>10, <2>2 DEF Links, Counted
  <1> QED BY <1>9, <1>11, <1>12, <1>13, <1>14 DEF MeshInv, Links

-----------------------------------------------------------------------------
(***************************************************************************)
(* The workers.                                                            *)
(***************************************************************************)
LEMMA WakeInv ==
  ASSUME MeshConstants, MeshInv, NEW w \in Workers, Wake(w)
  PROVE  MeshInv'
  <1>1. /\ content' = content /\ received' = received /\ main' = main
        /\ versions' = versions /\ unloads' = unloads /\ shown' = shown
        /\ adding' = adding /\ m_queue' = m_queue /\ m_urgents' = m_urgents
        /\ m_inflight_blocks' = m_inflight_blocks /\ job' = job
        /\ m_queue_out' = m_queue_out
        /\ m_queue_out_urgent' = m_queue_out_urgent /\ acked' = acked
        /\ pc[w] = "wait" /\ pc' = [pc EXCEPT ![w] = "pop"]
        /\ m_update_sem' = [m_update_sem EXCEPT ![w] = FALSE]
        /\ Types /\ Links /\ Served
    BY DEF MeshInv, Wake, Goto, mapVars, queueVars, resultVars
  <1>2. /\ pc' \in [Workers -> {"wait", "pop", "make", "done"}] /\ pc'[w] = "pop"
        /\ \A v \in Workers : v # w => pc'[v] = pc[v]
        /\ m_update_sem' \in [Workers -> BOOLEAN]
    BY <1>1 DEF Types
  <1>3. Types'
    BY <1>1, <1>2 DEF Types
  <1>4. Loaded' = Loaded /\ Working' = Working /\ Busy' = Busy
    BY <1>1, <1>2 DEF Loaded, Working, Busy
  <1>5. NoCalls' /\ CallsLinked' /\ QueueLinked' /\ JobsLinked'
    BY <1>1, <1>4 DEF Links, NoCalls, CallsLinked, QueueLinked, JobsLinked, Holds
  <1>6. ResultsLinked' /\ OneEach' /\ InHand' /\ UrgentsQueued' /\ Counted'
    BY <1>1, <1>4 DEF Links, ResultsLinked, Result, OneEach, InHand, UrgentsQueued, Counted
  <1>7. Served'
    BY <1>2 DEF Served
  <1> QED BY <1>3, <1>5, <1>6, <1>7 DEF MeshInv, Links

LEMMA PopInv ==
  ASSUME MeshConstants, MeshInv, NEW w \in Workers, Pop(w)
  PROVE  MeshInv'
  <1>1. /\ content' = content /\ received' = received /\ main' = main
        /\ versions' = versions /\ unloads' = unloads /\ shown' = shown
        /\ adding' = adding /\ m_update_sem' = m_update_sem
        /\ m_queue_out' = m_queue_out
        /\ m_queue_out_urgent' = m_queue_out_urgent /\ acked' = acked
        /\ pc[w] = "pop" /\ Types /\ Links /\ Served
    BY DEF MeshInv, Pop, mapVars, resultVars
  <1>2. Loaded' = Loaded
    BY <1>1 DEF Loaded
  <1>3. NoCalls' /\ CallsLinked' /\ ResultsLinked' /\ Counted'
    BY <1>1, <1>2 DEF Links, NoCalls, CallsLinked, ResultsLinked, Result, Counted
  <1>4. CASE /\ \A k \in DOMAIN m_queue : ~MayPop(k)
             /\ pc' = [pc EXCEPT ![w] = "wait"] /\ UNCHANGED <<queueVars, job>>
    <2>1. /\ m_queue' = m_queue /\ m_urgents' = m_urgents /\ job' = job
          /\ m_inflight_blocks' = m_inflight_blocks
          /\ pc' \in [Workers -> {"wait", "pop", "make", "done"}] /\ pc'[w] = "wait"
          /\ \A v \in Workers : v # w => pc'[v] = pc[v]
      BY <1>1, <1>4 DEF queueVars, Types
    <2>2. Types'
      BY <1>1, <2>1 DEF Types
    <2>3. Working' = Working /\ Busy' = Busy
      BY <1>1, <2>1 DEF Working, Busy
    <2>4. QueueLinked' /\ JobsLinked' /\ OneEach' /\ InHand' /\ UrgentsQueued'
      BY <1>1, <1>2, <2>1, <2>3 DEF Links, QueueLinked, JobsLinked, Holds, OneEach, InHand,
         UrgentsQueued
    <2>5. Served'
      <3> SUFFICES ASSUME m_queue # <<>>
                   PROVE  \E v \in Workers : pc'[v] # "wait"
        BY <2>1 DEF Served
      <3>1. PICK i \in DOMAIN m_queue : m_queue[i].p \in m_inflight_blocks
        <4>1. 1 \in DOMAIN m_queue
          <5>1. m_queue \in Seq(Updates)
            BY <1>1 DEF Types
          <5> QED BY <5>1, EmptySeq
        <4>2. CASE m_urgents = {}
          BY <1>4, <4>1, <4>2 DEF MayPop
        <4>3. CASE m_urgents # {}
          <5>1. PICK i \in DOMAIN m_queue : m_queue[i].p \in m_urgents
            BY <1>1, <4>3 DEF Links, UrgentsQueued
          <5> QED BY <1>4, <5>1 DEF MayPop
        <4> QED BY <4>2, <4>3
      <3>2. PICK v \in Busy : job[v].p = m_queue[i].p
        BY <1>1, <3>1 DEF Links, InHand
      <3>3. v \in Workers /\ v # w /\ pc[v] # "wait"
        BY <1>1, <3>2 DEF Busy
      <3> QED BY <2>1, <3>3
    <2> QED BY <1>3, <2>2, <2>4, <2>5 DEF MeshInv, Links
  <1>5. ASSUME NEW k \in DOMAIN m_queue, Popped(w, k) PROVE MeshInv'
    <2>0. PICK u : u = m_queue[k]
      OBVIOUS
    <2>1. /\ MayPop(k) /\ m_queue' \in Seq(Updates) /\ Dropped(m_queue, m_queue', k)
          /\ job' = [job EXCEPT ![w] = u] /\ pc' = [pc EXCEPT ![w] = "make"]
          /\ m_urgents' = m_urgents \ {u.p}
          /\ m_inflight_blocks' = m_inflight_blocks \cup {u.p}
      BY <1>5, <2>0 DEF Popped
    <2>2. u \in Updates /\ u.p \in Blocks /\ Holds(u)
      BY <1>1, <2>0, Elements DEF Updates, Links, QueueLinked
    <2>3. /\ pc' \in [Workers -> {"wait", "pop", "make", "done"}] /\ pc'[w] = "make"
          /\ job' \in [Workers -> Updates \cup {None}] /\ job'[w] = u
          /\ \A v \in Workers : v # w => pc'[v] = pc[v] /\ job'[v] = job[v]
      BY <1>1, <2>1, <2>2 DEF Types
    <2>4. m_urgents' \subseteq Blocks /\ m_inflight_blocks' \subseteq Blocks
      BY <1>1, <2>1, <2>2 DEF Types
    <2>5. \A v \in Workers : pc'[v] \in {"make", "done"} => job'[v] \in Updates
      BY <1>1, <2>2, <2>3 DEF Types
    <2>6. Types'
      BY <1>1, <2>1, <2>3, <2>4, <2>5 DEF Types
    <2>7. /\ Working' = Working \cup {w} /\ Busy' = Busy \cup {w} /\ w \notin Busy
          /\ \A v \in Busy : v # w /\ job'[v] = job[v]
          /\ \A v \in Working : v # w /\ job'[v] = job[v]
      BY <1>1, <2>3 DEF Working, Busy
    <2>8. JobsLinked'
      <3>1. \A v \in Working' : Holds(job'[v])
        BY <1>1, <2>2, <2>3, <2>7 DEF Links, JobsLinked
      <3> QED BY <1>1, <1>2, <3>1 DEF JobsLinked, Holds
    <2>9. \A j \in DOMAIN m_queue' : /\ Was(k, j) \in DOMAIN m_queue \ {k}
                                     /\ m_queue'[j] = m_queue[Was(k, j)]
      BY <2>1 DEF Dropped
    <2>10. QueueLinked'
      <3>1. \A j \in DOMAIN m_queue' : Holds(m_queue'[j])
        BY <1>1, <2>9 DEF Links, QueueLinked
      <3> QED BY <1>1, <1>2, <3>1 DEF QueueLinked, Holds
    <2>11. OneEach'
      <3>1. \A i, j \in DOMAIN m_queue' : Was(k, i) = Was(k, j) => i = j
        BY <2>1 DEF Dropped
      <3> QED BY <1>1, <2>9, <3>1 DEF Links, OneEach
    <2>12. InHand'
      <3>1. u.p \notin m_inflight_blocks
        BY <2>0, <2>1 DEF MayPop
      <3>2. m_inflight_blocks' = {job'[v].p : v \in Busy'}
        BY <1>1, <2>1, <2>3, <2>7 DEF Links, InHand
      <3>3. \A v \in Busy : job'[v].p # u.p
        BY <1>1, <2>7, <3>1 DEF Links, InHand
      <3>4. \A x, y \in Busy' : job'[x].p = job'[y].p => x = y
        BY <1>1, <2>3, <2>7, <3>3 DEF Links, InHand
      <3> QED BY <3>2, <3>4 DEF InHand
    <2>13. UrgentsQueued'
      <3>1. ASSUME NEW x \in m_urgents' PROVE \E j \in DOMAIN m_queue' : m_queue'[j].p = x
        <4>1. x \in m_urgents /\ x # u.p
          BY <2>1
        <4>2. PICK i \in DOMAIN m_queue : m_queue[i].p = x
          BY <1>1, <4>1 DEF Links, UrgentsQueued
        <4>3. i \in DOMAIN m_queue \ {k}
          BY <2>0, <4>1, <4>2
        <4>4. PICK j \in DOMAIN m_queue' : Was(k, j) = i
          BY <2>1, <4>3 DEF Dropped
        <4> QED BY <2>9, <4>2, <4>4
      <3> QED BY <3>1 DEF UrgentsQueued
    <2>14. Served'
      BY <2>3 DEF Served
    <2> QED BY <1>3, <2>6, <2>8, <2>10, <2>11, <2>12, <2>13, <2>14 DEF MeshInv, Links
  <1> QED BY <1>1, <1>4, <1>5, PopIs

LEMMA MakeMeshInv ==
  ASSUME MeshConstants, MeshInv, NEW w \in Workers, MakeMesh(w)
  PROVE  MeshInv'
  <1>1. /\ content' = content /\ received' = received /\ main' = main
        /\ versions' = versions /\ unloads' = unloads /\ shown' = shown
        /\ adding' = adding /\ m_update_sem' = m_update_sem /\ m_queue' = m_queue
        /\ m_urgents' = m_urgents /\ m_inflight_blocks' = m_inflight_blocks
        /\ job' = job /\ acked' = acked /\ pc[w] = "make"
        /\ pc' = [pc EXCEPT ![w] = "done"] /\ Types /\ Links /\ Served
    BY DEF MeshInv, MakeMesh, Goto, mapVars, queueVars
  <1>2. PICK r : Made1(w, r)
    BY <1>1, MakeMeshIs DEF Links
  <1>3. /\ pc' \in [Workers -> {"wait", "pop", "make", "done"}] /\ pc'[w] = "done"
        /\ \A v \in Workers : v # w => pc'[v] = pc[v]
    BY <1>1 DEF Types
  <1>4. Types'
    <2>1. \A v \in Workers : pc'[v] \in {"make", "done"} => job'[v] \in Updates
      BY <1>1, <1>3 DEF Types
    <2> QED BY <1>1, <1>2, <1>3, <2>1 DEF Types, Made1
  <1>5. Loaded' = Loaded /\ Working' = Working \ {w} /\ Busy' = Busy /\ w \in Working
    BY <1>1, <1>3 DEF Loaded, Working, Busy
  <1>6. NoCalls' /\ CallsLinked' /\ QueueLinked' /\ JobsLinked'
    BY <1>1, <1>5 DEF Links, NoCalls, CallsLinked, QueueLinked, JobsLinked, Holds
  <1>7. OneEach' /\ InHand' /\ UrgentsQueued' /\ Counted'
    BY <1>1, <1>5 DEF Links, OneEach, InHand, UrgentsQueued, Counted
  <1>8. Result(r)
    <2>1. Holds(job[w])
      BY <1>1, <1>5 DEF Links, JobsLinked
    <2>2. job[w].p \in Loaded
      BY <2>1 DEF Holds
    <2> QED BY <1>1, <1>2, <2>1, <2>2 DEF Made1, Holds, Result, Links, Counted
  <1>9. ResultsLinked'
    <2>1. /\ \A i \in DOMAIN m_queue_out' : Result(m_queue_out'[i])
          /\ \A i \in DOMAIN m_queue_out_urgent' : Result(m_queue_out_urgent'[i])
      <3>1. \A i \in DOMAIN m_queue_out : Result(m_queue_out[i])
        BY <1>1 DEF Links, ResultsLinked
      <3>2. \A i \in DOMAIN m_queue_out_urgent : Result(m_queue_out_urgent[i])
        BY <1>1 DEF Links, ResultsLinked
      <3>3. CASE /\ Added(m_queue_out_urgent, m_queue_out_urgent', r)
                 /\ m_queue_out' = m_queue_out
        BY <1>8, <3>1, <3>2, <3>3 DEF Added
      <3>4. CASE /\ Added(m_queue_out, m_queue_out', r)
                 /\ m_queue_out_urgent' = m_queue_out_urgent
        BY <1>8, <3>1, <3>2, <3>4 DEF Added
      <3> QED BY <1>2, <3>3, <3>4 DEF Made1
    <2> QED BY <1>1, <1>5, <2>1 DEF ResultsLinked, Result
  <1>10. Served'
    BY <1>3 DEF Served
  <1> QED BY <1>4, <1>6, <1>7, <1>9, <1>10 DEF MeshInv, Links

LEMMA DoneInv ==
  ASSUME MeshConstants, MeshInv, NEW w \in Workers, Done(w)
  PROVE  MeshInv'
  <1>0. PICK d : d = job[w].p
    OBVIOUS
  <1>1. /\ content' = content /\ received' = received /\ main' = main
        /\ versions' = versions /\ unloads' = unloads /\ shown' = shown
        /\ adding' = adding /\ m_update_sem' = m_update_sem /\ m_queue' = m_queue
        /\ m_urgents' = m_urgents /\ m_queue_out' = m_queue_out
        /\ m_queue_out_urgent' = m_queue_out_urgent /\ acked' = acked /\ pc[w] = "done"
        /\ m_inflight_blocks' = m_inflight_blocks \ {d}
        /\ job' = [job EXCEPT ![w] = None]
        /\ pc' = [pc EXCEPT ![w] = "pop"] /\ Types /\ Links /\ Served
    BY <1>0 DEF MeshInv, Done, Goto, mapVars, resultVars
  <1>2. /\ pc' \in [Workers -> {"wait", "pop", "make", "done"}] /\ pc'[w] = "pop"
        /\ job' \in [Workers -> Updates \cup {None}]
        /\ \A v \in Workers : v # w => pc'[v] = pc[v] /\ job'[v] = job[v]
    BY <1>1 DEF Types
  <1>3. Types'
    <2>1. \A v \in Workers : pc'[v] \in {"make", "done"} => job'[v] \in Updates
      BY <1>1, <1>2 DEF Types
    <2>2. m_inflight_blocks' \subseteq Blocks
      BY <1>1 DEF Types
    <2> QED BY <1>1, <1>2, <2>1, <2>2 DEF Types
  <1>4. /\ Loaded' = Loaded /\ Working' = Working /\ Busy' = Busy \ {w} /\ w \in Busy
        /\ w \notin Working
    BY <1>1, <1>2 DEF Loaded, Working, Busy
  <1>5. \A v \in Workers : v # w => job'[v] = job[v]
    BY <1>2
  <1>6. NoCalls' /\ CallsLinked' /\ QueueLinked'
    BY <1>1, <1>4 DEF Links, NoCalls, CallsLinked, QueueLinked, Holds
  <1>7. JobsLinked'
    <2>1. \A v \in Working : v \in Workers /\ v # w
      BY <1>4 DEF Working
    <2>2. \A v \in Working' : Holds(job'[v])
      BY <1>1, <1>4, <1>5, <2>1 DEF Links, JobsLinked
    <2> QED BY <1>1, <1>4, <2>2 DEF JobsLinked, Holds
  <1>8. OneEach' /\ UrgentsQueued' /\ Counted' /\ ResultsLinked'
    BY <1>1, <1>4 DEF Links, OneEach, UrgentsQueued, Counted, ResultsLinked, Result
  <1>9. InHand'
    <2>1. \A v \in Busy' : v \in Busy /\ v # w /\ job'[v] = job[v]
      BY <1>4, <1>5 DEF Busy
    <2>2. \A v \in Busy' : job[v].p # d
      BY <1>0, <1>1, <1>4, <2>1 DEF Links, InHand
    <2>3. m_inflight_blocks' = {job'[v].p : v \in Busy'}
      <3>1. m_inflight_blocks = {job[v].p : v \in Busy}
        BY <1>1 DEF Links, InHand
      <3>2. \A x \in m_inflight_blocks' : \E v \in Busy' : x = job'[v].p
        BY <1>0, <1>1, <1>4, <2>1, <3>1
      <3>3. \A v \in Busy' : job'[v].p \in m_inflight_blocks'
        BY <1>1, <2>1, <2>2, <3>1
      <3> QED BY <3>2, <3>3
    <2> QED BY <1>1, <2>1, <2>3 DEF Links, InHand
  <1>10. Served'
    BY <1>2 DEF Served
  <1> QED BY <1>3, <1>6, <1>7, <1>8, <1>9, <1>10 DEF MeshInv, Links

-----------------------------------------------------------------------------
\* The two ways to change a block of the map.
LEMMA ChangesAre ==
  ASSUME NEW b, NEW air, BlockData(b, air) \/ ChangeNode(b, air)
  PROVE  \E acks \in {{}, {versions + 1}}, urgent \in BOOLEAN :
           /\ Change(b, air, acks, urgent)
           /\ \/ acks = {versions + 1} /\ received' = received \cup {versions + 1}
              \/ acks = {} /\ received' = received
  <1>1. CASE BlockData(b, air)
    <2>1. Change(b, air, {versions + 1}, FALSE) /\ received' = received \cup {versions'}
      BY <1>1 DEF BlockData
    <2>2. versions' = versions + 1
      BY <2>1 DEF Change
    <2> QED BY <2>1, <2>2
  <1>2. CASE ChangeNode(b, air)
    BY <1>2 DEF ChangeNode
  <1> QED BY <1>1, <1>2

LEMMA MeshInit ==
  ASSUME MeshConstants, Init
  PROVE  MeshInv
  <1>1. content \in [Blocks -> Contents] /\ \A b \in Blocks : content[b].version = 0
    BY DEF Init, Contents
  <1>2. shown \in [Blocks -> Meshes]
    <2>1. \A b \in Blocks : [n \in IF b \in Airy THEN {} ELSE Around[b] \cup {b} |-> 0] \in Meshes
      <3> TAKE b \in Blocks
      <3>1. (IF b \in Airy THEN {} ELSE Around[b] \cup {b}) \in SUBSET Blocks
        BY DEF MeshConstants
      <3> DEFINE s == IF b \in Airy THEN {} ELSE Around[b] \cup {b}
      <3>2. [n \in s |-> 0] \in [s -> Nat] /\ s \in SUBSET Blocks
        BY <3>1
      <3> HIDE DEF s
      <3>3. [n \in s |-> 0] \in Meshes
        BY <3>2 DEF Meshes
      <3> QED BY <3>3 DEF s
    <2> QED BY <2>1 DEF Init
  <1>3. /\ adding = <<>> /\ m_queue = <<>> /\ m_queue_out = <<>>
        /\ m_queue_out_urgent = <<>> /\ acked = <<>> /\ main = "step"
        /\ m_urgents = {} /\ m_inflight_blocks = {} /\ received = {}
        /\ versions = 0 /\ unloads = 0
        /\ m_update_sem \in [Workers -> BOOLEAN]
        /\ pc \in [Workers -> {"wait", "pop", "make", "done"}]
        /\ \A w \in Workers : pc[w] = "wait"
        /\ job \in [Workers -> Updates \cup {None}]
    BY DEF Init
  <1>4. Types
    BY <1>1, <1>2, <1>3 DEF Types
  <1>5. Working = {} /\ Busy = {}
    BY <1>3 DEF Working, Busy
  <1>6. Links
    <2>1. NoCalls /\ CallsLinked /\ QueueLinked /\ JobsLinked /\ ResultsLinked
      BY <1>3, <1>5 DEF NoCalls, CallsLinked, QueueLinked, JobsLinked, ResultsLinked
    <2>2. OneEach /\ InHand /\ UrgentsQueued
      BY <1>3, <1>5 DEF OneEach, InHand, UrgentsQueued
    <2>3. Counted
      BY <1>1, <1>3 DEF Counted, Loaded
    <2> QED BY <2>1, <2>2, <2>3 DEF Links
  <1>7. Served
    BY <1>3 DEF Served
  <1> QED BY <1>4, <1>6, <1>7 DEF MeshInv

LEMMA MeshNext ==
  ASSUME MeshConstants, MeshInv, [Next]_vars
  PROVE  MeshInv'
  <1>1. CASE UNCHANGED vars
    <2>1. /\ content' = content /\ received' = received /\ main' = main
          /\ versions' = versions /\ unloads' = unloads /\ shown' = shown
          /\ adding' = adding /\ m_queue' = m_queue /\ m_urgents' = m_urgents
          /\ m_inflight_blocks' = m_inflight_blocks /\ m_update_sem' = m_update_sem
          /\ pc' = pc /\ job' = job /\ m_queue_out' = m_queue_out
          /\ m_queue_out_urgent' = m_queue_out_urgent /\ acked' = acked
      BY <1>1 DEF vars, mapVars, queueVars, workerVars, resultVars
    <2>2. Loaded' = Loaded /\ Working' = Working /\ Busy' = Busy
      BY <2>1 DEF Loaded, Working, Busy
    <2>3. Types' /\ Served'
      BY <2>1 DEF MeshInv, Types, Served
    <2>4. NoCalls' /\ CallsLinked' /\ QueueLinked' /\ JobsLinked'
      BY <2>1, <2>2 DEF MeshInv, Links, NoCalls, CallsLinked, QueueLinked, JobsLinked, Holds
    <2>5. ResultsLinked' /\ OneEach' /\ InHand' /\ UrgentsQueued' /\ Counted'
      BY <2>1, <2>2 DEF MeshInv, Links, ResultsLinked, Result, OneEach, InHand,
         UrgentsQueued, Counted
    <2> QED BY <2>3, <2>4, <2>5 DEF MeshInv, Links
  <1>2. ASSUME NEW b \in Blocks, NEW air \in BOOLEAN, BlockData(b, air) \/ ChangeNode(b, air)
        PROVE  MeshInv'
    <2>1. PICK acks \in {{}, {versions + 1}}, urgent \in BOOLEAN :
            /\ Change(b, air, acks, urgent)
            /\ received' \in {received, received \cup {versions + 1}}
      BY <1>2, ChangesAre
    <2> QED BY <2>1, ChangeInv DEF MeshInv
  <1>3. ASSUME NEW b \in Blocks, Unload(b) PROVE MeshInv'
    BY <1>3, UnloadInv
  <1>4. CASE AddBlock
    BY <1>4, AddBlockInv DEF MeshInv
  <1>5. CASE DeferUpdate \/ BeginTaking \/ EndTaking
    BY <1>5, TurnInv
  <1>6. CASE TakeResult
    BY <1>6, TakeResultInv
  <1>7. ASSUME NEW w \in Workers, WorkerStep(w) PROVE MeshInv'
    BY <1>7, WakeInv, PopInv, MakeMeshInv, DoneInv DEF WorkerStep
  <1> QED BY <1>1, <1>2, <1>3, <1>4, <1>5, <1>6, <1>7 DEF Next

LEMMA MeshInvariant ==
  ASSUME MeshConstants
  PROVE  Spec => []MeshInv
  <1>1. Init => MeshInv
    BY MeshInit
  <1>2. MeshInv /\ [Next]_vars => MeshInv'
    BY MeshNext
  <1> QED BY <1>1, <1>2, PTL DEF Spec

\* While an update is in the queue a worker is at work or woken: also when the
\* only urgent one is of a block that a worker has in hand, and after an urgent
\* update was skipped.
THEOREM MeshQueueIsServed ==
  ASSUME MeshConstants
  PROVE  Spec => []QueueIsServed
  <1>1. MeshInv => QueueIsServed
    BY DEF MeshInv, Served, QueueIsServed
  <1> QED BY <1>1, MeshInvariant, PTL

-----------------------------------------------------------------------------
(***************************************************************************)
(* The newest mesh is the one that stays.  As long as no call for b is to  *)
(* come that addBlock() heeds, the next mesh that is made of b, or the     *)
(* last one of it that waits to be taken, or the one that b has, sees b    *)
(* and the blocks round it as they are now.                                *)
(***************************************************************************)
Owes(b) == \E i \in DOMAIN adding :
  adding[i].p = b /\ ~(adding[i].from_neighbor /\ content[b].air)

Fits(u) == content[u.p].air \/ RetrieveBlocks(u.p) \subseteq u.blocks

Shows(b, mesh) ==
  IF content[b].air THEN mesh = [n \in {} |-> 0]
  ELSE /\ mesh # None
       /\ \A n \in RetrieveBlocks(b) : n \in DOMAIN mesh /\ mesh[n] = content[n].version

InQueue(b) == \E i \in DOMAIN m_queue : m_queue[i].p = b
InWork(b) == \E w \in Working : job[w].p = b

Lacks(s, b) == \A i \in DOMAIN s : s[i].p # b

LastShows(s, b) == \E i \in DOMAIN s :
  s[i].p = b /\ Shows(b, s[i].mesh) /\ \A j \in DOMAIN s : i < j => s[j].p # b

ResultShows(b) ==
  \/ LastShows(m_queue_out, b)
  \/ Lacks(m_queue_out, b) /\ LastShows(m_queue_out_urgent, b)
  \/ Lacks(m_queue_out, b) /\ Lacks(m_queue_out_urgent, b) /\ Shows(b, shown[b])

FreshOf(b) ==
  /\ \A i \in DOMAIN m_queue : m_queue[i].p = b => Fits(m_queue[i])
  /\ ~InQueue(b) => \A w \in Working : job[w].p = b => Fits(job[w])
  /\ ~InQueue(b) /\ ~InWork(b) /\ b \notin overtaken => ResultShows(b)

Fresh == \A b \in Loaded : ~Owes(b) => FreshOf(b)

LEMMA FreshIs ==
  Types /\ Fresh => NewestMesh
  <1> SUFFICES ASSUME Types, Fresh, NEW b \in Loaded \ overtaken, ~Pending(b)
               PROVE  IF content[b].air THEN shown[b] = [n \in {} |-> 0]
                      ELSE /\ shown[b] # None
                           /\ \A n \in RetrieveBlocks(b) :
                                n \in DOMAIN shown[b] /\ shown[b][n] = content[n].version
    BY DEF NewestMesh
  <1>1. ~Owes(b) /\ ~InQueue(b) /\ ~InWork(b)
    <2>1. ~Owes(b)
      BY DEF Pending, Owes, ToSet
    <2>2. ~InQueue(b)
      BY DEF Pending, InQueue, ToSet
    <2>3. ~InWork(b)
      BY DEF Pending, InWork
    <2> QED BY <2>1, <2>2, <2>3
  <1>2. ResultShows(b)
    BY <1>1 DEF Fresh, FreshOf
  <1>3. \A r \in ToSet(Results) : r.p # b
    BY DEF Pending
  <1>4. Lacks(m_queue_out, b) /\ Lacks(m_queue_out_urgent, b)
    BY <1>3, ResultsAre DEF Lacks, ToSet
  <1>5. Shows(b, shown[b])
    BY <1>2, <1>4 DEF ResultShows, LastShows, Lacks
  <1> QED BY <1>5 DEF Shows

\* A step that changes nothing of this.
LEMMA FreshStays ==
  ASSUME Fresh, content' = content, adding' = adding, m_queue' = m_queue,
         Working' = Working, \A w \in Working : job'[w] = job[w],
         m_queue_out' = m_queue_out, m_queue_out_urgent' = m_queue_out_urgent,
         shown' = shown, overtaken' = overtaken
  PROVE  Fresh'
  <1>1. Loaded' = Loaded
    BY DEF Loaded
  <1> SUFFICES ASSUME NEW b \in Loaded, ~Owes(b)' PROVE FreshOf(b)'
    BY <1>1 DEF Fresh
  <1>2. FreshOf(b)
    BY DEF Fresh, Owes
  <1>3. \A x, m : Shows(x, m)' <=> Shows(x, m)
    BY <1>1 DEF Shows, RetrieveBlocks
  <1>4. (\A i \in DOMAIN m_queue : m_queue[i].p = b => Fits(m_queue[i]))'
    BY <1>1, <1>2 DEF FreshOf, Fits, RetrieveBlocks
  <1>5. InQueue(b)' <=> InQueue(b)
    BY DEF InQueue
  <1>6. InWork(b)' <=> InWork(b)
    BY DEF InWork
  <1>7. (~InQueue(b) => \A w \in Working : job[w].p = b => Fits(job[w]))'
    BY <1>1, <1>2, <1>5 DEF FreshOf, Fits, RetrieveBlocks
  <1>8. ResultShows(b)' <=> ResultShows(b)
    <2>1. LastShows(m_queue_out, b)' <=> LastShows(m_queue_out, b)
      BY <1>1 DEF LastShows, Shows, RetrieveBlocks
    <2>2. LastShows(m_queue_out_urgent, b)' <=> LastShows(m_queue_out_urgent, b)
      BY <1>1 DEF LastShows, Shows, RetrieveBlocks
    <2>3. Shows(b, shown[b])' <=> Shows(b, shown[b])
      BY <1>1 DEF Shows, RetrieveBlocks
    <2> QED BY <2>1, <2>2, <2>3 DEF ResultShows, Lacks
  <1> QED BY <1>2, <1>4, <1>5, <1>6, <1>7, <1>8 DEF FreshOf

\* With the same map, what a mesh shows and which update fits does not change.
LEMMA SameMap ==
  ASSUME content' = content
  PROVE  /\ \A x, m : Shows(x, m)' <=> Shows(x, m)
         /\ \A u : Fits(u)' <=> Fits(u)
         /\ \A s, x : LastShows(s, x)' <=> LastShows(s, x)
         /\ \A s, x : Lacks(s, x)' <=> Lacks(s, x)
         /\ \A x : RetrieveBlocks(x)' = RetrieveBlocks(x)
         /\ Loaded' = Loaded
  <1>1. Loaded' = Loaded
    BY DEF Loaded
  <1>2. \A x : RetrieveBlocks(x)' = RetrieveBlocks(x)
    BY <1>1 DEF RetrieveBlocks
  <1>3. ASSUME NEW x, NEW m PROVE Shows(x, m)' <=> Shows(x, m)
    BY <1>2 DEF Shows
  <1>4. ASSUME NEW u PROVE Fits(u)' <=> Fits(u)
    BY <1>2 DEF Fits
  <1>5. ASSUME NEW s, NEW x PROVE LastShows(s, x)' <=> LastShows(s, x)
    BY <1>3 DEF LastShows
  <1>6. ASSUME NEW s, NEW x PROVE Lacks(s, x)' <=> Lacks(s, x)
    BY DEF Lacks
  <1> QED BY <1>1, <1>2, <1>3, <1>4, <1>5, <1>6

\* An update of another block comes to the end, or the first one goes.
LEMMA AddedLast ==
  ASSUME NEW s, NEW t, NEW e, NEW b, Added(s, t, e)
  PROVE  /\ e.p # b /\ Lacks(s, b) => Lacks(t, b)
         /\ e.p # b /\ LastShows(s, b) => LastShows(t, b)
         /\ e.p = b /\ Shows(b, e.mesh) => LastShows(t, b)
  <1>1. PICK k \in DOMAIN t : /\ DOMAIN s = DOMAIN t \ {k} /\ DOMAIN t \subseteq Nat
                              /\ t[k] = e
                              /\ \A i \in DOMAIN s : i < k /\ t[i] = s[i]
    BY DEF Added
  <1>2. ASSUME e.p # b, Lacks(s, b) PROVE Lacks(t, b)
    <2>1. ASSUME NEW i \in DOMAIN t PROVE t[i].p # b
      <3>1. CASE i = k
        BY <1>1, <1>2, <3>1
      <3>2. CASE i # k
        BY <1>1, <1>2, <3>2 DEF Lacks
      <3> QED BY <3>1, <3>2
    <2> QED BY <2>1 DEF Lacks
  <1>3. ASSUME e.p # b, LastShows(s, b) PROVE LastShows(t, b)
    <2>1. PICK i \in DOMAIN s : /\ s[i].p = b /\ Shows(b, s[i].mesh)
                                /\ \A j \in DOMAIN s : i < j => s[j].p # b
      BY <1>3 DEF LastShows
    <2>2. i \in DOMAIN t /\ t[i] = s[i]
      BY <1>1
    <2>3. ASSUME NEW j \in DOMAIN t, i < j PROVE t[j].p # b
      <3>1. CASE j = k
        BY <1>1, <1>3, <3>1
      <3>2. CASE j # k
        BY <1>1, <2>1, <2>3, <3>2
      <3> QED BY <3>1, <3>2
    <2> QED BY <2>1, <2>2, <2>3 DEF LastShows
  <1>4. ASSUME e.p = b, Shows(b, e.mesh) PROVE LastShows(t, b)
    <2>1. ASSUME NEW j \in DOMAIN t, k < j PROVE t[j].p # b
      <3>1. j # k /\ ~(j < k)
        BY <1>1, <2>1
      <3> QED BY <1>1, <3>1
    <2> QED BY <1>1, <1>4, <2>1 DEF LastShows
  <1> QED BY <1>2, <1>3, <1>4

LEMMA DroppedLast ==
  ASSUME NEW s, NEW t, NEW b, Dropped(s, t, 1)
  PROVE  /\ Lacks(s, b) => Lacks(t, b)
         /\ LastShows(s, b) => \/ LastShows(t, b)
                               \/ s[1].p = b /\ Shows(b, s[1].mesh) /\ Lacks(t, b)
  <1>1. /\ 1 \in DOMAIN s /\ DOMAIN s \subseteq Nat \ {0} /\ DOMAIN t \subseteq Nat
        /\ \A j \in DOMAIN t : Was(1, j) \in DOMAIN s \ {1} /\ t[j] = s[Was(1, j)]
        /\ \A i \in DOMAIN s \ {1} : \E j \in DOMAIN t : Was(1, j) = i
        /\ \A i, j \in DOMAIN t : i < j => Was(1, i) < Was(1, j)
    BY DEF Dropped
  <1>2. ASSUME Lacks(s, b) PROVE Lacks(t, b)
    BY <1>1, <1>2 DEF Lacks
  <1>3. ASSUME LastShows(s, b)
        PROVE  LastShows(t, b) \/ (s[1].p = b /\ Shows(b, s[1].mesh) /\ Lacks(t, b))
    <2>1. PICK i \in DOMAIN s : /\ s[i].p = b /\ Shows(b, s[i].mesh)
                                /\ \A j \in DOMAIN s : i < j => s[j].p # b
      BY <1>3 DEF LastShows
    <2>2. CASE i = 1
      <3>1. \A j \in DOMAIN t : 1 < Was(1, j)
        BY <1>1
      <3>2. Lacks(t, b)
        BY <1>1, <2>1, <2>2, <3>1 DEF Lacks
      <3> QED BY <2>1, <2>2, <3>2
    <2>3. CASE i # 1
      <3>1. PICK j \in DOMAIN t : Was(1, j) = i
        BY <1>1, <2>3
      <3>2. t[j] = s[i]
        BY <1>1, <3>1
      <3>3. \A l \in DOMAIN t : j < l => t[l].p # b
        BY <1>1, <2>1, <3>1
      <3> QED BY <2>1, <3>2, <3>3 DEF LastShows
    <2> QED BY <2>2, <2>3
  <1> QED BY <1>2, <1>3


\* A change of the map that b does not look at: what a mesh shows of b stays true.
LEMMA SameRound ==
  ASSUME NEW b, FreshOf(b), content'[b] = content[b], shown'[b] = shown[b],
         \/ content[b].air
         \/ /\ RetrieveBlocks(b)' \subseteq RetrieveBlocks(b)
            /\ \A n \in RetrieveBlocks(b)' : content'[n] = content[n],
         m_queue' = m_queue, pc' = pc, job' = job, m_queue_out' = m_queue_out,
         m_queue_out_urgent' = m_queue_out_urgent, overtaken' = overtaken
  PROVE  FreshOf(b)'
  <1>1. \A m : Shows(b, m) => Shows(b, m)'
    BY DEF Shows
  <1>2. \A u : u.p = b /\ Fits(u) => Fits(u)'
    BY DEF Fits
  <1>3. Working' = Working
    BY DEF Working
  <1>4. InQueue(b)' = InQueue(b) /\ InWork(b)' = InWork(b)
    BY <1>3 DEF InQueue, InWork
  <1>5. \A s : /\ LastShows(s, b) => LastShows(s, b)'
               /\ Lacks(s, b) => Lacks(s, b)'
    BY <1>1 DEF LastShows, Lacks
  <1>6. ResultShows(b) => ResultShows(b)'
    <2>1. LastShows(m_queue_out, b) => LastShows(m_queue_out, b)'
      BY <1>1 DEF LastShows
    <2>2. LastShows(m_queue_out_urgent, b) => LastShows(m_queue_out_urgent, b)'
      BY <1>1 DEF LastShows
    <2>3. Lacks(m_queue_out, b)' = Lacks(m_queue_out, b)
      BY DEF Lacks
    <2>4. Lacks(m_queue_out_urgent, b)' = Lacks(m_queue_out_urgent, b)
      BY DEF Lacks
    <2>5. Shows(b, shown[b]) => Shows(b, shown[b])'
      BY DEF Shows
    <2> QED BY <2>1, <2>2, <2>3, <2>4, <2>5 DEF ResultShows
  <1>7. (\A i \in DOMAIN m_queue : m_queue[i].p = b => Fits(m_queue[i]))'
    BY DEF FreshOf, Fits
  <1>8. (~InQueue(b) => \A w \in Working : job[w].p = b => Fits(job[w]))'
    BY <1>3, <1>4 DEF FreshOf, Fits
  <1> QED BY <1>4, <1>6, <1>7, <1>8 DEF FreshOf

-----------------------------------------------------------------------------
(***************************************************************************)
(* Fresh is kept, step by step.                                            *)
(***************************************************************************)
LEMMA ChangeFresh ==
  ASSUME MeshConstants, MeshInv, Fresh, NEW c \in Blocks, NEW air \in BOOLEAN,
         NEW acks \in {{}, {versions + 1}}, NEW urgent \in BOOLEAN,
         Change(c, air, acks, urgent)
  PROVE  Fresh'
  <1>1. /\ main = "step" /\ content' = [content EXCEPT ![c] = [version |-> versions',
                                                               air |-> air]]
        /\ adding' = UpdatesFor(c, acks, urgent) /\ shown' = shown /\ m_queue' = m_queue
        /\ pc' = pc /\ job' = job /\ m_queue_out' = m_queue_out
        /\ m_queue_out_urgent' = m_queue_out_urgent /\ overtaken' = overtaken
    BY DEF Change, queueVars, workerVars, resultVars
  <1>2. acks \in AckSets
    <2>1. IsFiniteSet({})
      BY FS_EmptySet
    <2>2. IsFiniteSet({versions + 1})
      BY FS_Singleton
    <2>3. versions + 1 \in Nat
      BY DEF MeshInv, Types
    <2> QED BY <2>1, <2>2, <2>3 DEF AckSets
  <1>3. /\ 1 \in DOMAIN adding' /\ adding'[1].p = c /\ ~adding'[1].from_neighbor
        /\ \A n \in Around[c] : \E i \in DOMAIN adding' : adding'[i].p = n
    <2> DEFINE t == UpdatesFor(c, acks, urgent)
    <2>0. /\ 1 \in DOMAIN t
          /\ t[1] = [p |-> c, acks |-> acks, urgent |-> urgent, from_neighbor |-> FALSE]
          /\ \A n \in Around[c] : \E i \in DOMAIN t : t[i].p = n
      BY <1>2, CallsFor
    <2> HIDE DEF t
    <2>1. /\ 1 \in DOMAIN adding'
          /\ adding'[1] = [p |-> c, acks |-> acks, urgent |-> urgent,
                           from_neighbor |-> FALSE]
      BY <1>1, <2>0 DEF t
    <2>2. \A n \in Around[c] : \E i \in DOMAIN adding' : adding'[i].p = n
      BY <1>1, <2>0 DEF t
    <2> QED BY <2>1, <2>2
  <1>4. adding = <<>>
    BY <1>1 DEF MeshInv, Links, NoCalls
  <1> SUFFICES ASSUME NEW b \in Loaded', ~Owes(b)' PROVE FreshOf(b)'
    BY DEF Fresh
  <1>5. b # c
    BY <1>3 DEF Owes
  <1>6. b \in Loaded /\ b \in Blocks /\ \A x \in Blocks : x # c => content'[x] = content[x]
    BY <1>1, <1>5 DEF Loaded, MeshInv, Types
  <1>7. FreshOf(b)
    BY <1>4, <1>6 DEF Fresh, Owes
  <1>8. CASE b \in Around[c]
    <2>1. content'[b].air
      BY <1>3, <1>8 DEF Owes
    <2> QED BY <1>1, <1>5, <1>6, <1>7, <2>1, SameRound
  <1>9. CASE b \notin Around[c]
    <2>1. c \notin Around[b] /\ Around[b] \subseteq Blocks
      BY <1>6, <1>9 DEF MeshConstants
    <2>2. RetrieveBlocks(b)' \subseteq RetrieveBlocks(b)
      BY <1>5, <1>6, <2>1 DEF RetrieveBlocks, Loaded
    <2>3. \A n \in RetrieveBlocks(b)' : content'[n] = content[n]
      BY <1>5, <1>6, <2>1 DEF RetrieveBlocks
    <2> QED BY <1>1, <1>5, <1>6, <1>7, <2>2, <2>3, SameRound
  <1> QED BY <1>8, <1>9

LEMMA UnloadFresh ==
  ASSUME MeshConstants, MeshInv, Fresh, NEW c \in Blocks, Unload(c)
  PROVE  Fresh'
  <1>1. /\ content' = [content EXCEPT ![c] = None] /\ shown' = [shown EXCEPT ![c] = None]
        /\ adding' = adding /\ m_queue' = m_queue /\ main = "step"
        /\ pc' = pc /\ job' = job /\ m_queue_out' = m_queue_out
        /\ m_queue_out_urgent' = m_queue_out_urgent /\ overtaken' = overtaken
    BY DEF Unload, queueVars, workerVars, resultVars
  <1>2. adding = <<>>
    BY <1>1 DEF MeshInv, Links, NoCalls
  <1> SUFFICES ASSUME NEW b \in Loaded' PROVE FreshOf(b)'
    BY DEF Fresh
  <1>3. /\ content \in [Blocks -> Contents \cup {None}] /\ shown \in [Blocks -> Meshes \cup {None}]
    BY DEF MeshInv, Types
  <1>4. Loaded' \subseteq Loaded \ {c} /\ Loaded \subseteq Blocks
    BY <1>1, <1>3 DEF Loaded
  <1>5. \A x \in Loaded' : content'[x] = content[x] /\ shown'[x] = shown[x]
    BY <1>1, <1>3, <1>4
  <1>6. FreshOf(b)
    BY <1>2, <1>4 DEF Fresh, Owes
  <1>7. RetrieveBlocks(b)' \subseteq RetrieveBlocks(b)
    BY <1>4 DEF RetrieveBlocks
  <1>8. \A n \in RetrieveBlocks(b)' : content'[n] = content[n]
    BY <1>5 DEF RetrieveBlocks
  <1> QED BY <1>1, <1>5, <1>6, <1>7, <1>8, SameRound

LEMMA AddBlockFresh ==
  ASSUME MeshConstants, MeshInv, Fresh, AddBlock
  PROVE  Fresh'
  <1>0. PICK u : u = adding[1]
    OBVIOUS
  <1>1. /\ content' = content /\ shown' = shown /\ pc' = pc /\ job' = job
        /\ m_queue_out' = m_queue_out /\ m_queue_out_urgent' = m_queue_out_urgent
        /\ overtaken' = overtaken
    BY DEF AddBlock, mapVars, workerVars, resultVars
  <1>2. Dropped(adding, adding', 1) /\ u \in Calls /\ Call(u)
    BY <1>0, AddBlockIs DEF MeshInv
  <1>3. /\ Loaded' = Loaded /\ Working' = Working
        /\ \A x : Fits(x)' <=> Fits(x)
        /\ \A x : RetrieveBlocks(x)' = RetrieveBlocks(x)
    BY <1>1, SameMap DEF Working
  <1> SUFFICES ASSUME NEW b \in Loaded, ~Owes(b)' PROVE FreshOf(b)'
    BY <1>3 DEF Fresh
  <1>4. ResultShows(b)' <=> ResultShows(b)
    <2>1. LastShows(m_queue_out, b)' <=> LastShows(m_queue_out, b)
      BY <1>1, <1>3 DEF LastShows, Shows
    <2>2. LastShows(m_queue_out_urgent, b)' <=> LastShows(m_queue_out_urgent, b)
      BY <1>1, <1>3 DEF LastShows, Shows
    <2>3. Shows(b, shown[b])' <=> Shows(b, shown[b])
      BY <1>1, <1>3 DEF Shows
    <2> QED BY <1>1, <2>1, <2>2, <2>3 DEF ResultShows, Lacks
  <1>5. InWork(b)' <=> InWork(b)
    BY <1>1, <1>3 DEF InWork
  \* Nothing changes for b.
  <1>6. ASSUME FreshOf(b), InQueue(b)' <=> InQueue(b),
               \A j \in DOMAIN m_queue' : m_queue'[j].p = b =>
                 j \in DOMAIN m_queue /\ m_queue'[j] = m_queue[j]
        PROVE  FreshOf(b)'
    <2>1. (\A i \in DOMAIN m_queue : m_queue[i].p = b => Fits(m_queue[i]))'
      <3>1. \A j \in DOMAIN m_queue' : m_queue'[j].p = b => Fits(m_queue'[j])
        BY <1>6 DEF FreshOf
      <3> QED BY <1>1, <1>3, <3>1 DEF Fits
    <2>2. (~InQueue(b) => \A w \in Working : job[w].p = b => Fits(job[w]))'
      BY <1>1, <1>3, <1>6 DEF FreshOf, Fits
    <2> QED BY <1>1, <1>4, <1>5, <1>6, <2>1, <2>2 DEF FreshOf
  \* An update that fits is in the queue.
  <1>7. ASSUME InQueue(b)',
               \A j \in DOMAIN m_queue' : m_queue'[j].p = b => Fits(m_queue'[j])
        PROVE  FreshOf(b)'
    <2>1. (\A i \in DOMAIN m_queue : m_queue[i].p = b => Fits(m_queue[i]))'
      BY <1>1, <1>3, <1>7 DEF Fits
    <2> QED BY <1>7, <2>1 DEF FreshOf
  <1>8. ASSUME ~(u.p = b /\ ~(u.from_neighbor /\ content[b].air)) PROVE FreshOf(b)
    <2>1. ASSUME NEW i \in DOMAIN adding, adding[i].p = b,
                 ~(adding[i].from_neighbor /\ content[b].air)
          PROVE  FALSE
      <3>1. i # 1
        BY <1>0, <1>8, <2>1
      <3>2. PICK j \in DOMAIN adding' : Was(1, j) = i
        BY <1>2, <3>1 DEF Dropped
      <3>3. adding'[j] = adding[i]
        BY <1>2, <3>2 DEF Dropped
      <3> QED BY <1>1, <2>1, <3>3 DEF Owes
    <2>2. ~Owes(b)
      BY <2>1 DEF Owes
    <2> QED BY <2>2 DEF Fresh
  <1>9. CASE m_queue' = m_queue /\ ~(u.p = b /\ ~(u.from_neighbor /\ content[b].air))
    BY <1>6, <1>8, <1>9 DEF InQueue
  <1>10. ASSUME NEW i \in DOMAIN m_queue, m_queue[i].p = u.p, Merged(i, u)
         PROVE  FreshOf(b)'
    <2>1. /\ DOMAIN m_queue' = DOMAIN m_queue
          /\ \A j \in DOMAIN m_queue : j # i => m_queue'[j] = m_queue[j]
          /\ m_queue'[i].p = u.p
          /\ m_queue'[i].blocks = m_queue[i].blocks \cup RetrieveBlocks(u.p)
      BY <1>10 DEF Merged
    <2>2. CASE u.p = b
      <3>1. ASSUME NEW j \in DOMAIN m_queue', m_queue'[j].p = b PROVE Fits(m_queue'[j])
        <4>1. j = i
          BY <1>10, <2>1, <2>2, <3>1 DEF MeshInv, Links, OneEach
        <4> QED BY <2>1, <2>2, <4>1 DEF Fits
      <3>2. InQueue(b)'
        BY <2>1, <2>2 DEF InQueue
      <3> QED BY <1>7, <3>1, <3>2
    <2>3. CASE u.p # b
      <3>1. \A j \in DOMAIN m_queue' : m_queue'[j].p = b =>
              j \in DOMAIN m_queue /\ m_queue'[j] = m_queue[j]
        BY <2>1, <2>3
      <3>2. InQueue(b)' <=> InQueue(b)
        BY <1>10, <2>1, <2>3 DEF InQueue
      <3> QED BY <1>6, <1>8, <2>3, <3>1, <3>2
    <2> QED BY <2>2, <2>3
  <1>11. ASSUME NEW e, e.p = u.p, e.blocks = RetrieveBlocks(u.p),
                Added(m_queue, m_queue', e), \A i \in DOMAIN m_queue : m_queue[i].p # u.p
         PROVE  FreshOf(b)'
    <2>1. PICK k \in DOMAIN m_queue' : /\ DOMAIN m_queue = DOMAIN m_queue' \ {k}
                                       /\ m_queue'[k] = e
                                       /\ \A i \in DOMAIN m_queue : m_queue'[i] = m_queue[i]
      BY <1>11 DEF Added
    <2>2. CASE u.p = b
      <3>1. Fits(e)
        BY <1>11 DEF Fits
      <3>2. ASSUME NEW j \in DOMAIN m_queue', m_queue'[j].p = b PROVE Fits(m_queue'[j])
        <4>1. j = k
          BY <1>11, <2>1, <2>2, <3>2
        <4> QED BY <2>1, <3>1, <4>1
      <3>3. InQueue(b)'
        BY <1>11, <2>1, <2>2 DEF InQueue
      <3> QED BY <1>7, <3>2, <3>3
    <2>3. CASE u.p # b
      <3>1. \A j \in DOMAIN m_queue' : m_queue'[j].p = b =>
              j \in DOMAIN m_queue /\ m_queue'[j] = m_queue[j]
        BY <1>11, <2>1, <2>3
      <3>2. InQueue(b)' <=> InQueue(b)
        BY <1>11, <2>1, <2>3, <3>1 DEF InQueue
      <3> QED BY <1>6, <1>8, <2>3, <3>1, <3>2
    <2> QED BY <2>2, <2>3
  <1> QED BY <1>2, <1>9, <1>10, <1>11 DEF Call


LEMMA PopFresh ==
  ASSUME MeshConstants, MeshInv, Fresh, NEW w \in Workers, Pop(w)
  PROVE  Fresh'
  <1>1. /\ content' = content /\ shown' = shown /\ adding' = adding
        /\ m_queue_out' = m_queue_out /\ m_queue_out_urgent' = m_queue_out_urgent
        /\ overtaken' = overtaken /\ pc[w] = "pop"
    BY DEF Pop, mapVars, resultVars
  <1>2. /\ Loaded' = Loaded /\ \A x : Fits(x)' <=> Fits(x)
        /\ \A x : RetrieveBlocks(x)' = RetrieveBlocks(x)
    BY <1>1, SameMap
  <1>3. CASE /\ \A k \in DOMAIN m_queue : ~MayPop(k)
             /\ pc' = [pc EXCEPT ![w] = "wait"] /\ UNCHANGED <<queueVars, job>>
    <2>1. Working' = Working
      BY <1>1, <1>3 DEF Working, MeshInv, Types
    <2> QED BY <1>1, <1>3, <2>1, FreshStays DEF queueVars
  <1>4. ASSUME NEW k \in DOMAIN m_queue, Popped(w, k) PROVE Fresh'
    <2>0. PICK u : u = m_queue[k]
      OBVIOUS
    <2>1. /\ MayPop(k) /\ Dropped(m_queue, m_queue', k)
          /\ job' = [job EXCEPT ![w] = u] /\ pc' = [pc EXCEPT ![w] = "make"]
      BY <1>4, <2>0 DEF Popped
    <2>2. /\ Working' = Working \cup {w} /\ w \notin Working /\ job'[w] = u
          /\ \A v \in Working : v \in Busy /\ job'[v] = job[v]
      BY <1>1, <2>1 DEF Working, Busy, MeshInv, Types
    <2>3. \A v \in Working : job[v].p # u.p
      <3>1. u.p \notin m_inflight_blocks
        BY <2>0, <2>1 DEF MayPop
      <3> QED BY <2>2, <3>1 DEF MeshInv, Links, InHand
    <2>4. /\ \A j \in DOMAIN m_queue' : /\ Was(k, j) \in DOMAIN m_queue \ {k}
                                        /\ m_queue'[j] = m_queue[Was(k, j)]
          /\ \A i \in DOMAIN m_queue \ {k} : \E j \in DOMAIN m_queue' : Was(k, j) = i
      BY <2>1 DEF Dropped
    <2> SUFFICES ASSUME NEW b \in Loaded, ~Owes(b)' PROVE FreshOf(b)'
      BY <1>2 DEF Fresh
    <2>5. FreshOf(b)
      BY <1>1 DEF Fresh, Owes
    <2>6. (\A i \in DOMAIN m_queue : m_queue[i].p = b => Fits(m_queue[i]))'
      <3>1. \A j \in DOMAIN m_queue' : m_queue'[j].p = b => Fits(m_queue'[j])
        BY <2>4, <2>5 DEF FreshOf
      <3> QED BY <1>1, <1>2, <3>1 DEF Fits
    <2>7. CASE u.p = b
      <3>1. Fits(u)
        BY <2>0, <2>5, <2>7 DEF FreshOf
      <3>2. \A v \in Working' : job'[v].p = b => Fits(job'[v])
        BY <2>2, <2>3, <2>7, <3>1
      <3>3. (\A v \in Working : job[v].p = b => Fits(job[v]))'
        BY <1>1, <1>2, <3>2 DEF Fits
      <3>4. InWork(b)'
        BY <2>2, <2>7 DEF InWork
      <3> QED BY <2>6, <3>3, <3>4 DEF FreshOf
    <2>8. CASE u.p # b
      <3>1. InQueue(b)' <=> InQueue(b)
        <4>1. ASSUME NEW i \in DOMAIN m_queue, m_queue[i].p = b PROVE InQueue(b)'
          <5>1. i # k
            BY <2>0, <2>8, <4>1
          <5>2. PICK j \in DOMAIN m_queue' : Was(k, j) = i
            BY <2>4, <5>1
          <5> QED BY <2>4, <4>1, <5>2 DEF InQueue
        <4>2. InQueue(b)' => InQueue(b)
          BY <2>4 DEF InQueue
        <4> QED BY <4>1, <4>2 DEF InQueue
      <3>2. InWork(b)' <=> InWork(b)
        BY <2>2, <2>8 DEF InWork
      <3>3. (~InQueue(b) => \A v \in Working : job[v].p = b => Fits(job[v]))'
        <4>1. ~InQueue(b) => \A v \in Working' : job'[v].p = b => Fits(job'[v])
          BY <2>2, <2>5, <2>8 DEF FreshOf
        <4> QED BY <1>1, <1>2, <3>1, <4>1 DEF Fits
      <3>4. ResultShows(b)' <=> ResultShows(b)
        <4>1. LastShows(m_queue_out, b)' <=> LastShows(m_queue_out, b)
          BY <1>1, <1>2 DEF LastShows, Shows
        <4>2. LastShows(m_queue_out_urgent, b)' <=> LastShows(m_queue_out_urgent, b)
          BY <1>1, <1>2 DEF LastShows, Shows
        <4>3. Shows(b, shown[b])' <=> Shows(b, shown[b])
          BY <1>1, <1>2 DEF Shows
        <4> QED BY <1>1, <4>1, <4>2, <4>3 DEF ResultShows, Lacks
      <3> QED BY <1>1, <2>5, <2>6, <3>1, <3>2, <3>3, <3>4 DEF FreshOf
    <2> QED BY <2>7, <2>8
  <1> QED BY <1>3, <1>4, PopIs DEF MeshInv

\* A mesh made now, from all the blocks round b, shows b.
LEMMA FitShows ==
  ASSUME MeshConstants, NEW u, Fits(u), MeshOf(u.p, u.blocks) \in Meshes
  PROVE  Shows(u.p, MeshOf(u.p, u.blocks))
  <1>1. CASE content[u.p].air
    BY <1>1 DEF Shows, MeshOf
  <1>2. CASE ~content[u.p].air
    <2>1. MeshOf(u.p, u.blocks) = [n \in u.blocks |-> content[n].version]
      BY <1>2 DEF MeshOf
    <2>2. MeshOf(u.p, u.blocks) # None
      BY DEF MeshConstants
    <2>3. RetrieveBlocks(u.p) \subseteq u.blocks
      BY <1>2 DEF Fits
    <2> QED BY <1>2, <2>1, <2>2, <2>3 DEF Shows
  <1> QED BY <1>1, <1>2

LEMMA MakeMeshFresh ==
  ASSUME MeshConstants, MeshInv, Fresh, NEW w \in Workers, MakeMesh(w)
  PROVE  Fresh'
  <1>0. PICK u : u = job[w]
    OBVIOUS
  <1>1. /\ content' = content /\ shown' = shown /\ adding' = adding /\ m_queue' = m_queue
        /\ job' = job /\ pc[w] = "make" /\ pc' = [pc EXCEPT ![w] = "done"]
    BY DEF MakeMesh, Goto, mapVars, queueVars
  <1>2. PICK r : Made1(w, r)
    BY MakeMeshIs DEF MeshInv, Links
  <1>3. /\ r.p = u.p /\ r.mesh = MeshOf(u.p, u.blocks) /\ r.mesh \in Meshes
        /\ \/ /\ Added(m_queue_out_urgent, m_queue_out_urgent', r)
              /\ m_queue_out' = m_queue_out
              /\ overtaken' = IF \E i \in DOMAIN m_queue_out : m_queue_out[i].p = u.p
                              THEN overtaken \cup {u.p} ELSE overtaken \ {u.p}
           \/ /\ Added(m_queue_out, m_queue_out', r)
              /\ m_queue_out_urgent' = m_queue_out_urgent
              /\ overtaken' = overtaken \ {u.p}
    BY <1>0, <1>2 DEF Made1, Made
  <1>4. Working' = Working \ {w} /\ w \in Working
    BY <1>1 DEF Working, MeshInv, Types
  <1>5. /\ Loaded' = Loaded /\ \A x : Fits(x)' <=> Fits(x)
        /\ \A x : RetrieveBlocks(x)' = RetrieveBlocks(x)
    BY <1>1, SameMap
  <1> SUFFICES ASSUME NEW b \in Loaded, ~Owes(b)' PROVE FreshOf(b)'
    BY <1>5 DEF Fresh
  <1>6. FreshOf(b)
    BY <1>1 DEF Fresh, Owes
  <1>7. InQueue(b)' <=> InQueue(b)
    BY <1>1 DEF InQueue
  <1>8. (\A i \in DOMAIN m_queue : m_queue[i].p = b => Fits(m_queue[i]))'
    BY <1>1, <1>5, <1>6 DEF FreshOf, Fits
  <1>9. (~InQueue(b) => \A v \in Working : job[v].p = b => Fits(job[v]))'
    <2>1. ~InQueue(b) => \A v \in Working' : job[v].p = b => Fits(job[v])
      BY <1>4, <1>6 DEF FreshOf
    <2> QED BY <1>1, <1>5, <1>7, <2>1 DEF Fits
  \* With the lists as they are after the step, the map being the same.
  <1>10. ResultShows(b)' <=> \/ LastShows(m_queue_out', b)
                             \/ /\ Lacks(m_queue_out', b)
                                /\ LastShows(m_queue_out_urgent', b)
                             \/ /\ Lacks(m_queue_out', b) /\ Lacks(m_queue_out_urgent', b)
                                /\ Shows(b, shown[b])
    <2>1. LastShows(m_queue_out, b)' <=> LastShows(m_queue_out', b)
      BY <1>1, <1>5 DEF LastShows, Shows
    <2>2. LastShows(m_queue_out_urgent, b)' <=> LastShows(m_queue_out_urgent', b)
      BY <1>1, <1>5 DEF LastShows, Shows
    <2>3. Shows(b, shown[b])' <=> Shows(b, shown[b])
      BY <1>1, <1>5 DEF Shows
    <2> QED BY <2>1, <2>2, <2>3 DEF ResultShows, Lacks
  <1>11. CASE u.p = b
    <2>1. ASSUME ~InQueue(b), b \notin overtaken' PROVE ResultShows(b)'
      <3>1. Fits(u)
        BY <1>0, <1>4, <1>6, <1>11, <2>1 DEF FreshOf
      <3>2. Shows(b, r.mesh)
        BY <1>3, <1>11, <3>1, FitShows
      <3>3. CASE /\ Added(m_queue_out, m_queue_out', r)
                 /\ m_queue_out_urgent' = m_queue_out_urgent
        <4>1. LastShows(m_queue_out', b)
          BY <1>3, <1>11, <3>2, <3>3, AddedLast
        <4> QED BY <1>10, <4>1
      <3>4. CASE /\ Added(m_queue_out_urgent, m_queue_out_urgent', r)
                 /\ m_queue_out' = m_queue_out
                 /\ overtaken' = IF \E i \in DOMAIN m_queue_out : m_queue_out[i].p = u.p
                                 THEN overtaken \cup {u.p} ELSE overtaken \ {u.p}
        <4>1. LastShows(m_queue_out_urgent', b)
          BY <1>3, <1>11, <3>2, <3>4, AddedLast
        <4>2. Lacks(m_queue_out', b)
          BY <1>11, <2>1, <3>4 DEF Lacks
        <4> QED BY <1>10, <4>1, <4>2
      <3> QED BY <1>3, <3>3, <3>4
    <2> QED BY <1>7, <1>8, <1>9, <2>1 DEF FreshOf
  <1>12. CASE u.p # b
    <2>1. InWork(b)' <=> InWork(b)
      BY <1>0, <1>1, <1>4, <1>12 DEF InWork
    <2>2. b \in overtaken' <=> b \in overtaken
      BY <1>3, <1>12
    <2>3. ResultShows(b) => ResultShows(b)'
      <3>1. Lacks(m_queue_out, b) => Lacks(m_queue_out', b)
        BY <1>3, <1>12, AddedLast
      <3>2. LastShows(m_queue_out, b) => LastShows(m_queue_out', b)
        BY <1>3, <1>12, AddedLast
      <3>3. Lacks(m_queue_out_urgent, b) => Lacks(m_queue_out_urgent', b)
        BY <1>3, <1>12, AddedLast
      <3>4. LastShows(m_queue_out_urgent, b) => LastShows(m_queue_out_urgent', b)
        BY <1>3, <1>12, AddedLast
      <3> QED BY <1>10, <3>1, <3>2, <3>3, <3>4 DEF ResultShows
    <2> QED BY <1>6, <1>7, <1>8, <1>9, <2>1, <2>2, <2>3 DEF FreshOf
  <1> QED BY <1>11, <1>12

LEMMA TakeResultFresh ==
  ASSUME MeshConstants, MeshInv, Fresh, TakeResult
  PROVE  Fresh'
  <1>1. /\ content' = content /\ adding' = adding /\ m_queue' = m_queue
        /\ pc' = pc /\ job' = job /\ overtaken' = overtaken
    BY DEF TakeResult, mapVars, queueVars, workerVars
  <1>2. PICK r : Taken(r)
    BY TakeResultIs DEF MeshInv
  <1>3. /\ Loaded' = Loaded /\ Working' = Working
        /\ \A x : Fits(x)' <=> Fits(x)
        /\ \A x : RetrieveBlocks(x)' = RetrieveBlocks(x)
    BY <1>1, SameMap DEF Working
  <1> SUFFICES ASSUME NEW b \in Loaded, ~Owes(b)' PROVE FreshOf(b)'
    BY <1>3 DEF Fresh
  <1>4. FreshOf(b)
    BY <1>1 DEF Fresh, Owes
  <1>5. /\ InQueue(b)' <=> InQueue(b)
        /\ InWork(b)' <=> InWork(b)
    BY <1>1, <1>3 DEF InQueue, InWork
  <1>6. (\A i \in DOMAIN m_queue : m_queue[i].p = b => Fits(m_queue[i]))'
    BY <1>1, <1>3, <1>4 DEF FreshOf, Fits
  <1>7. (~InQueue(b) => \A v \in Working : job[v].p = b => Fits(job[v]))'
    BY <1>1, <1>3, <1>4, <1>5 DEF FreshOf, Fits
  <1>8. ResultShows(b)' <=> \/ LastShows(m_queue_out', b)
                            \/ /\ Lacks(m_queue_out', b)
                               /\ LastShows(m_queue_out_urgent', b)
                            \/ /\ Lacks(m_queue_out', b) /\ Lacks(m_queue_out_urgent', b)
                               /\ Shows(b, shown'[b])
    <2>1. LastShows(m_queue_out, b)' <=> LastShows(m_queue_out', b)
      BY <1>1, <1>3 DEF LastShows, Shows
    <2>2. LastShows(m_queue_out_urgent, b)' <=> LastShows(m_queue_out_urgent', b)
      BY <1>1, <1>3 DEF LastShows, Shows
    <2>3. Shows(b, shown[b])' <=> Shows(b, shown'[b])
      BY <1>1, <1>3 DEF Shows
    <2> QED BY <2>1, <2>2, <2>3 DEF ResultShows, Lacks
  <1>9. IF r.p = b THEN shown'[b] = r.mesh ELSE shown'[b] = shown[b]
    <2>1. shown \in [Blocks -> Meshes \cup {None}] /\ b \in Blocks
      BY DEF MeshInv, Types, Loaded
    <2> QED BY <1>2, <2>1 DEF Taken
  <1>10. ASSUME ResultShows(b) PROVE ResultShows(b)'
    <2>1. CASE /\ Dropped(m_queue_out_urgent, m_queue_out_urgent', 1)
               /\ r = m_queue_out_urgent[1] /\ m_queue_out' = m_queue_out
      <3>1. Lacks(m_queue_out_urgent, b) => /\ Lacks(m_queue_out_urgent', b)
                                            /\ r.p # b
        BY <2>1, DroppedLast DEF Dropped, Lacks
      <3>2. LastShows(m_queue_out_urgent, b) =>
              \/ LastShows(m_queue_out_urgent', b)
              \/ r.p = b /\ Shows(b, r.mesh) /\ Lacks(m_queue_out_urgent', b)
        BY <2>1, DroppedLast
      <3> QED BY <1>8, <1>9, <1>10, <2>1, <3>1, <3>2 DEF ResultShows
    <2>2. CASE /\ Dropped(m_queue_out, m_queue_out', 1) /\ m_queue_out_urgent = <<>>
               /\ r = m_queue_out[1] /\ m_queue_out_urgent' = <<>>
      <3>1. Lacks(m_queue_out, b) => Lacks(m_queue_out', b) /\ r.p # b
        BY <2>2, DroppedLast DEF Dropped, Lacks
      <3>2. LastShows(m_queue_out, b) =>
              \/ LastShows(m_queue_out', b)
              \/ r.p = b /\ Shows(b, r.mesh) /\ Lacks(m_queue_out', b)
        BY <2>2, DroppedLast
      <3>3. ~LastShows(m_queue_out_urgent, b) /\ Lacks(m_queue_out_urgent', b)
        BY <2>2 DEF LastShows, Lacks
      <3> QED BY <1>8, <1>9, <1>10, <3>1, <3>2, <3>3 DEF ResultShows
    <2> QED BY <1>2, <2>1, <2>2 DEF Taken
  <1> QED BY <1>1, <1>4, <1>5, <1>6, <1>7, <1>10 DEF FreshOf

\* What the rest of the steps changes is none of this.
LEMMA TurnFresh ==
  ASSUME MeshInv, Fresh,
         \/ DeferUpdate \/ BeginTaking \/ EndTaking \/ UNCHANGED vars
         \/ \E w \in Workers : Wake(w) \/ Done(w)
  PROVE  Fresh'
  <1>1. CASE DeferUpdate
    BY <1>1, FreshStays DEF DeferUpdate, Working, mapVars, queueVars, resultVars
  <1>2. CASE BeginTaking
    BY <1>2, FreshStays DEF BeginTaking, Working, mapVars, queueVars, workerVars, resultVars
  <1>3. CASE EndTaking
    BY <1>3, FreshStays DEF EndTaking, Working, mapVars, queueVars, workerVars, resultVars
  <1>4. CASE UNCHANGED vars
    BY <1>4, FreshStays DEF vars, Working, mapVars, queueVars, workerVars, resultVars
  <1>5. ASSUME NEW w \in Workers, Wake(w) PROVE Fresh'
    <2>1. Working' = Working /\ job' = job
      BY <1>5 DEF Wake, Goto, Working, MeshInv, Types
    <2> QED BY <1>5, <2>1, FreshStays DEF Wake, mapVars, queueVars, resultVars
  <1>6. ASSUME NEW w \in Workers, Done(w) PROVE Fresh'
    <2>1. Working' = Working /\ \A v \in Working : job'[v] = job[v]
      BY <1>6 DEF Done, Goto, Working, MeshInv, Types
    <2> QED BY <1>6, <2>1, FreshStays DEF Done, mapVars, resultVars
  <1> QED BY <1>1, <1>2, <1>3, <1>4, <1>5, <1>6

LEMMA FreshInit ==
  ASSUME MeshConstants, Init
  PROVE  Fresh
  <1>1. /\ m_queue = <<>> /\ m_queue_out = <<>> /\ m_queue_out_urgent = <<>>
        /\ Working = {}
    BY DEF Init, Working
  <1> SUFFICES ASSUME NEW b \in Loaded PROVE FreshOf(b)
    BY DEF Fresh
  <1>2. MeshInv
    BY MeshInit
  <1>3. /\ b \in Blocks /\ content[b].air = (b \in Airy) /\ Loaded \subseteq Blocks
        /\ \A n \in Loaded : content[n].version = 0
    BY DEF Init, Loaded
  <1>4. shown[b] = [n \in IF b \in Airy THEN {} ELSE Around[b] \cup {b} |-> 0]
    BY <1>3 DEF Init
  <1>5. shown[b] # None
    <2>1. Around[b] \cup {b} \in SUBSET Blocks
      BY <1>3 DEF MeshConstants
    <2> DEFINE s == IF b \in Airy THEN {} ELSE Around[b] \cup {b}
    <2>2. s \in SUBSET Blocks
      BY <2>1
    <2>3. shown[b] \in [s -> Nat]
      BY <1>4
    <2> HIDE DEF s
    <2>4. shown[b] \in Meshes
      BY <2>2, <2>3 DEF Meshes
    <2> QED BY <2>4 DEF MeshConstants
  <1>6. Shows(b, shown[b])
    <2>1. CASE b \in Airy
      BY <1>3, <1>4, <2>1 DEF Shows
    <2>2. CASE b \notin Airy
      <3>1. shown[b] = [n \in Around[b] \cup {b} |-> 0]
        BY <1>4, <2>2
      <3>2. \A n \in RetrieveBlocks(b) : n \in Around[b] \cup {b} /\ content[n].version = 0
        BY <1>3 DEF RetrieveBlocks
      <3> QED BY <1>3, <1>5, <2>2, <3>1, <3>2 DEF Shows
    <2> QED BY <2>1, <2>2
  <1> QED BY <1>1, <1>6 DEF FreshOf, ResultShows, Lacks, InQueue

LEMMA FreshNext ==
  ASSUME MeshConstants, MeshInv, Fresh, [Next]_vars
  PROVE  Fresh'
  <1>1. ASSUME NEW b \in Blocks, NEW air \in BOOLEAN, BlockData(b, air) \/ ChangeNode(b, air)
        PROVE  Fresh'
    <2>1. PICK acks \in {{}, {versions + 1}}, urgent \in BOOLEAN :
            Change(b, air, acks, urgent)
      BY <1>1, ChangesAre
    <2> QED BY <2>1, ChangeFresh
  <1>2. ASSUME NEW b \in Blocks, Unload(b) PROVE Fresh'
    BY <1>2, UnloadFresh
  <1>3. CASE AddBlock
    BY <1>3, AddBlockFresh
  <1>4. CASE TakeResult
    BY <1>4, TakeResultFresh
  <1>5. CASE DeferUpdate \/ BeginTaking \/ EndTaking \/ UNCHANGED vars
    BY <1>5, TurnFresh
  <1>6. ASSUME NEW w \in Workers, WorkerStep(w) PROVE Fresh'
    BY <1>6, TurnFresh, PopFresh, MakeMeshFresh DEF WorkerStep
  <1> QED BY <1>1, <1>2, <1>3, <1>4, <1>5, <1>6 DEF Next

\* When nothing is on its way any more, a block shows what it and the loaded
\* blocks round it are, however many workers made the meshes and however the
\* updates were merged or skipped - unless an urgent one was made while the
\* result of an earlier one lay in the other queue.
THEOREM MeshIsNewest ==
  ASSUME MeshConstants
  PROVE  Spec => []NewestMesh
  <1>1. Init => MeshInv /\ Fresh
    BY MeshInit, FreshInit
  <1>2. MeshInv /\ Fresh /\ [Next]_vars => (MeshInv /\ Fresh)'
    BY MeshNext, FreshNext
  <1>3. MeshInv /\ Fresh => NewestMesh
    BY FreshIs DEF MeshInv
  <1> QED BY <1>1, <1>2, <1>3, PTL DEF Spec


-----------------------------------------------------------------------------
(***************************************************************************)
(* Each acknowledgement is in one place.                                   *)
(***************************************************************************)
Lone(S) == \A x, y \in S : x = y

Has(s, v) == {i \in DOMAIN s : v \in s[i].acks}
AtWork(v) == {w \in Working : v \in job[w].acks}
Given(v) == {i \in DOMAIN acked : acked[i] = v}

\* One of these sets has an element, and has no other.
OneOf(A, B, C, D, E, F) ==
  /\ Lone(A) /\ Lone(B) /\ Lone(C) /\ Lone(D) /\ Lone(E) /\ Lone(F)
  /\ \/ A # {} /\ B = {} /\ C = {} /\ D = {} /\ E = {} /\ F = {}
     \/ A = {} /\ B # {} /\ C = {} /\ D = {} /\ E = {} /\ F = {}
     \/ A = {} /\ B = {} /\ C # {} /\ D = {} /\ E = {} /\ F = {}
     \/ A = {} /\ B = {} /\ C = {} /\ D # {} /\ E = {} /\ F = {}
     \/ A = {} /\ B = {} /\ C = {} /\ D = {} /\ E # {} /\ F = {}
     \/ A = {} /\ B = {} /\ C = {} /\ D = {} /\ E = {} /\ F # {}

OnePlace(v) == OneOf(Has(adding, v), Has(m_queue, v), AtWork(v),
                     Has(m_queue_out_urgent, v), Has(m_queue_out, v), Given(v))

Acknowledged == \A v \in received : OnePlace(v)

LEMMA DropHas ==
  ASSUME NEW s, NEW t, NEW k, NEW v, Dropped(s, t, k), Lone(Has(s, v))
  PROVE  /\ Lone(Has(t, v))
         /\ v \in s[k].acks => Has(s, v) # {} /\ Has(t, v) = {}
         /\ v \notin s[k].acks => (Has(t, v) = {} <=> Has(s, v) = {})
  <1>1. /\ k \in DOMAIN s
        /\ \A j \in DOMAIN t : Was(k, j) \in DOMAIN s \ {k} /\ t[j] = s[Was(k, j)]
        /\ \A i \in DOMAIN s \ {k} : \E j \in DOMAIN t : Was(k, j) = i
        /\ \A i, j \in DOMAIN t : Was(k, i) = Was(k, j) => i = j
    BY DEF Dropped
  <1>2. \A j \in Has(t, v) : j \in DOMAIN t /\ Was(k, j) \in Has(s, v) /\ Was(k, j) # k
    BY <1>1 DEF Has
  <1>3. Lone(Has(t, v))
    BY <1>1, <1>2 DEF Lone
  <1>4. ASSUME v \in s[k].acks PROVE Has(s, v) # {} /\ Has(t, v) = {}
    <2>1. k \in Has(s, v)
      BY <1>1, <1>4 DEF Has
    <2> QED BY <1>2, <2>1 DEF Lone
  <1>5. ASSUME v \notin s[k].acks PROVE Has(t, v) = {} <=> Has(s, v) = {}
    <2>1. ASSUME NEW i \in Has(s, v) PROVE Has(t, v) # {}
      <3>1. i \in DOMAIN s \ {k} /\ v \in s[i].acks
        BY <1>5, <2>1 DEF Has
      <3>2. PICK j \in DOMAIN t : Was(k, j) = i
        BY <1>1, <3>1
      <3>3. j \in Has(t, v)
        BY <1>1, <3>1, <3>2 DEF Has
      <3> QED BY <3>3
    <2> QED BY <1>2, <2>1
  <1> QED BY <1>3, <1>4, <1>5

LEMMA AddHas ==
  ASSUME NEW s, NEW t, NEW e, NEW v, Added(s, t, e), Lone(Has(s, v)),
         v \in e.acks => Has(s, v) = {}
  PROVE  Lone(Has(t, v)) /\ (Has(t, v) = {} <=> Has(s, v) = {} /\ v \notin e.acks)
  <1>1. PICK k \in DOMAIN t : /\ DOMAIN s = DOMAIN t \ {k} /\ t[k] = e
                              /\ \A i \in DOMAIN s : t[i] = s[i]
    BY DEF Added
  <1>2. Has(t, v) = IF v \in e.acks THEN Has(s, v) \cup {k} ELSE Has(s, v)
    BY <1>1 DEF Has
  <1> QED BY <1>2 DEF Lone

LEMMA MergeHas ==
  ASSUME NEW u, NEW i \in DOMAIN m_queue, NEW v, Merged(i, u), Lone(Has(m_queue, v)),
         v \in u.acks => Has(m_queue, v) = {}
  PROVE  /\ Lone(Has(m_queue', v))
         /\ Has(m_queue', v) = {} <=> Has(m_queue, v) = {} /\ v \notin u.acks
  <1>1. /\ DOMAIN m_queue' = DOMAIN m_queue
        /\ \A j \in DOMAIN m_queue : j # i => m_queue'[j] = m_queue[j]
        /\ m_queue'[i].acks = m_queue[i].acks \cup u.acks
    BY DEF Merged
  <1>2. Has(m_queue', v) = IF v \in u.acks THEN Has(m_queue, v) \cup {i} ELSE Has(m_queue, v)
    <2>1. \A j \in DOMAIN m_queue : v \in m_queue'[j].acks <=>
             v \in m_queue[j].acks \/ (j = i /\ v \in u.acks)
      BY <1>1
    <2> QED BY <1>1, <2>1 DEF Has
  <1> QED BY <1>2 DEF Lone

\* A new version is acknowledged nowhere.
LEMMA NewIsNowhere ==
  ASSUME MeshInv, main = "step", NEW v \in Nat, v > versions
  PROVE  /\ Has(adding, v) = {} /\ Has(m_queue, v) = {} /\ AtWork(v) = {}
         /\ Has(m_queue_out_urgent, v) = {} /\ Has(m_queue_out, v) = {} /\ Given(v) = {}
         /\ v \notin received
  <1>1. /\ Types /\ NoCalls /\ QueueLinked /\ JobsLinked /\ ResultsLinked /\ Counted
        /\ versions \in Nat
    BY DEF MeshInv, Links, Types
  <1>2. ASSUME NEW u, Holds(u), v \in u.acks PROVE FALSE
    <2>1. u.p \in Loaded /\ v <= content[u.p].version
      BY <1>2 DEF Holds
    <2>2. content[u.p].version <= versions /\ content[u.p].version \in Nat
      BY <1>1, <2>1, Elements DEF Counted
    <2> QED BY <1>1, <2>1, <2>2
  <1>3. ASSUME NEW r \in Made, Result(r), v \in r.acks PROVE FALSE
    <2>1. r.saw \in Nat /\ r.saw <= versions /\ v <= r.saw
      BY <1>3 DEF Result, Made
    <2> QED BY <1>1, <2>1
  <1>4. Has(adding, v) = {}
    BY <1>1 DEF NoCalls, Has
  <1>5. Has(m_queue, v) = {}
    BY <1>1, <1>2 DEF QueueLinked, Has
  <1>6. AtWork(v) = {}
    BY <1>1, <1>2 DEF JobsLinked, AtWork
  <1>7. Has(m_queue_out, v) = {}
    BY <1>1, <1>3, Elements DEF ResultsLinked, Has
  <1>8. Has(m_queue_out_urgent, v) = {}
    BY <1>1, <1>3, Elements DEF ResultsLinked, Has
  <1>9. Given(v) = {}
    <2>1. \A i \in DOMAIN acked : acked[i] \in Nat /\ acked[i] <= versions
      BY <1>1 DEF Counted, Types
    <2> QED BY <1>1, <2>1 DEF Given
  <1>10. v \notin received
    BY <1>1 DEF Counted
  <1> QED BY <1>4, <1>5, <1>6, <1>7, <1>8, <1>9, <1>10

LEMMA ChangeAcks ==
  ASSUME MeshConstants, MeshInv, Acknowledged, NEW b \in Blocks, NEW air \in BOOLEAN,
         NEW acks \in {{}, {versions + 1}}, NEW urgent \in BOOLEAN,
         Change(b, air, acks, urgent),
         \/ acks = {versions + 1} /\ received' = received \cup {versions + 1}
         \/ acks = {} /\ received' = received
  PROVE  Acknowledged'
  <1>1. /\ main = "step" /\ adding' = UpdatesFor(b, acks, urgent)
        /\ m_queue' = m_queue /\ pc' = pc /\ job' = job /\ m_queue_out' = m_queue_out
        /\ m_queue_out_urgent' = m_queue_out_urgent /\ acked' = acked
    BY DEF Change, queueVars, workerVars, resultVars
  <1>2. versions \in Nat /\ versions + 1 \in Nat /\ versions + 1 > versions
    BY DEF MeshInv, Types
  <1>3. acks \in AckSets
    <2>1. IsFiniteSet({}) /\ IsFiniteSet({versions + 1})
      BY FS_EmptySet, FS_Singleton
    <2> QED BY <1>2, <2>1 DEF AckSets
  <1>4. /\ 1 \in DOMAIN adding' /\ adding'[1].acks = acks
        /\ \A i \in DOMAIN adding' \ {1} : adding'[i].acks = {}
    <2> DEFINE t == UpdatesFor(b, acks, urgent)
    <2>1. /\ 1 \in DOMAIN t
          /\ t[1] = [p |-> b, acks |-> acks, urgent |-> urgent, from_neighbor |-> FALSE]
          /\ \A i \in DOMAIN t \ {1} : t[i].from_neighbor /\ t[i].acks = {}
      BY <1>3, CallsFor
    <2> HIDE DEF t
    <2> QED BY <1>1, <2>1 DEF t
  <1>5. \A v : Has(adding', v) = IF v \in acks THEN {1} ELSE {}
    BY <1>4 DEF Has
  <1>6. Working' = Working
    BY <1>1 DEF Working
  <1> SUFFICES ASSUME NEW v \in received' PROVE OnePlace(v)'
    BY DEF Acknowledged
  <1>7. /\ AtWork(v)' = AtWork(v) /\ Given(v)' = Given(v)
        /\ Has(adding, v)' = Has(adding', v) /\ Has(m_queue, v)' = Has(m_queue, v)
        /\ Has(m_queue_out, v)' = Has(m_queue_out, v)
        /\ Has(m_queue_out_urgent, v)' = Has(m_queue_out_urgent, v)
    BY <1>1, <1>6 DEF AtWork, Given, Has
  <1>8. CASE v = versions + 1
    <2>1. /\ Has(m_queue, v) = {} /\ AtWork(v) = {}
          /\ Has(m_queue_out_urgent, v) = {} /\ Has(m_queue_out, v) = {} /\ Given(v) = {}
          /\ v \notin received
      BY <1>1, <1>2, <1>8, NewIsNowhere
    <2>2. Has(adding', v) = {1}
      BY <1>5, <1>8, <2>1
    <2> QED BY <1>7, <2>1, <2>2 DEF OnePlace, OneOf, Lone
  <1>9. CASE v # versions + 1
    <2>1. v \in received /\ Has(adding', v) = {}
      BY <1>5, <1>9
    <2>2. Has(adding, v) = {}
      BY <1>1 DEF MeshInv, Links, NoCalls, Has
    <2>3. OnePlace(v)
      BY <2>1 DEF Acknowledged
    <2> QED BY <1>7, <2>1, <2>2, <2>3 DEF OnePlace
  <1> QED BY <1>8, <1>9

LEMMA AddBlockAcks ==
  ASSUME MeshConstants, MeshInv, Acknowledged, AddBlock
  PROVE  Acknowledged'
  <1>0. PICK u : u = adding[1]
    OBVIOUS
  <1>1. /\ received' = received /\ pc' = pc /\ job' = job /\ m_queue_out' = m_queue_out
        /\ m_queue_out_urgent' = m_queue_out_urgent /\ acked' = acked
    BY DEF AddBlock, mapVars, workerVars, resultVars
  <1>2. Dropped(adding, adding', 1) /\ 1 \in DOMAIN adding /\ Call(u)
    BY <1>0, AddBlockIs DEF MeshInv, Dropped
  <1>3. /\ u.from_neighbor => u.acks = {}
        /\ ~u.from_neighbor => u.p \in Loaded
    BY <1>0, <1>2 DEF MeshInv, Links, CallsLinked
  <1>4. Working' = Working
    BY <1>1 DEF Working
  <1> SUFFICES ASSUME NEW v \in received PROVE OnePlace(v)'
    BY <1>1 DEF Acknowledged
  <1>5. /\ AtWork(v)' = AtWork(v) /\ Given(v)' = Given(v)
        /\ Has(adding, v)' = Has(adding', v) /\ Has(m_queue, v)' = Has(m_queue', v)
        /\ Has(m_queue_out, v)' = Has(m_queue_out, v)
        /\ Has(m_queue_out_urgent, v)' = Has(m_queue_out_urgent, v)
    BY <1>1, <1>4 DEF AtWork, Given, Has
  <1>6. OnePlace(v) /\ Lone(Has(adding, v)) /\ Lone(Has(m_queue, v))
    BY DEF Acknowledged, OnePlace, OneOf
  <1>7. /\ Lone(Has(adding', v))
        /\ v \in u.acks => Has(adding, v) # {} /\ Has(adding', v) = {}
        /\ v \notin u.acks => (Has(adding', v) = {} <=> Has(adding, v) = {})
    BY <1>0, <1>2, <1>6, DropHas
  <1>8. v \in u.acks => Has(m_queue, v) = {}
    BY <1>6, <1>7 DEF OnePlace, OneOf
  <1>9. /\ Lone(Has(m_queue', v))
        /\ Has(m_queue', v) = {} <=> Has(m_queue, v) = {} /\ v \notin u.acks
    <2>1. CASE m_queue' = m_queue /\ u.acks = {}
      BY <1>6, <2>1
    <2>2. ASSUME NEW i \in DOMAIN m_queue, Merged(i, u)
          PROVE  /\ Lone(Has(m_queue', v))
                 /\ Has(m_queue', v) = {} <=> Has(m_queue, v) = {} /\ v \notin u.acks
      BY <1>6, <1>8, <2>2, MergeHas
    <2>3. ASSUME NEW e, e.acks = u.acks, Added(m_queue, m_queue', e)
          PROVE  /\ Lone(Has(m_queue', v))
                 /\ Has(m_queue', v) = {} <=> Has(m_queue, v) = {} /\ v \notin u.acks
      BY <1>6, <1>8, <2>3, AddHas
    <2> QED BY <1>2, <1>3, <2>1, <2>2, <2>3 DEF Call
  <1>10. CASE v \in u.acks
    BY <1>5, <1>6, <1>7, <1>9, <1>10 DEF OnePlace, OneOf
  <1>11. CASE v \notin u.acks
    BY <1>5, <1>6, <1>7, <1>9, <1>11 DEF OnePlace, OneOf
  <1> QED BY <1>10, <1>11

LEMMA PopAcks ==
  ASSUME MeshConstants, MeshInv, Acknowledged, NEW w \in Workers, Pop(w)
  PROVE  Acknowledged'
  <1>1. /\ received' = received /\ adding' = adding /\ m_queue_out' = m_queue_out
        /\ m_queue_out_urgent' = m_queue_out_urgent /\ acked' = acked /\ pc[w] = "pop"
    BY DEF Pop, mapVars, resultVars
  <1> SUFFICES ASSUME NEW v \in received PROVE OnePlace(v)'
    BY <1>1 DEF Acknowledged
  <1>2. /\ Given(v)' = Given(v)
        /\ Has(adding, v)' = Has(adding, v) /\ Has(m_queue, v)' = Has(m_queue', v)
        /\ Has(m_queue_out, v)' = Has(m_queue_out, v)
        /\ Has(m_queue_out_urgent, v)' = Has(m_queue_out_urgent, v)
    BY <1>1 DEF Given, Has
  <1>3. OnePlace(v) /\ Lone(Has(m_queue, v))
    BY DEF Acknowledged, OnePlace, OneOf
  <1>4. CASE /\ pc' = [pc EXCEPT ![w] = "wait"] /\ UNCHANGED <<queueVars, job>>
    <2>1. Working' = Working
      BY <1>1, <1>4 DEF Working, MeshInv, Types
    <2>2. AtWork(v)' = AtWork(v) /\ m_queue' = m_queue
      BY <1>4, <2>1 DEF AtWork, queueVars
    <2> QED BY <1>2, <1>3, <2>2 DEF OnePlace
  <1>5. ASSUME NEW k \in DOMAIN m_queue, Popped(w, k) PROVE OnePlace(v)'
    <2>0. PICK u : u = m_queue[k]
      OBVIOUS
    <2>1. /\ Dropped(m_queue, m_queue', k)
          /\ job' = [job EXCEPT ![w] = u] /\ pc' = [pc EXCEPT ![w] = "make"]
      BY <1>5, <2>0 DEF Popped
    <2>2. /\ Working' = Working \cup {w} /\ w \notin Working /\ job'[w] = u
          /\ \A x \in Working : job'[x] = job[x]
      BY <1>1, <2>1 DEF Working, MeshInv, Types
    <2>3. AtWork(v)' = IF v \in u.acks THEN AtWork(v) \cup {w} ELSE AtWork(v)
      BY <2>2 DEF AtWork
    <2>4. /\ Lone(Has(m_queue', v))
          /\ v \in u.acks => Has(m_queue, v) # {} /\ Has(m_queue', v) = {}
          /\ v \notin u.acks => (Has(m_queue', v) = {} <=> Has(m_queue, v) = {})
      BY <1>3, <2>0, <2>1, DropHas
    <2>5. CASE v \in u.acks
      <3>1. AtWork(v) = {}
        BY <1>3, <2>4, <2>5 DEF OnePlace, OneOf
      <3>2. Lone(AtWork(v)') /\ AtWork(v)' # {}
        BY <2>3, <2>5, <3>1 DEF Lone
      <3> QED BY <1>2, <1>3, <2>4, <2>5, <3>2 DEF OnePlace, OneOf
    <2>6. CASE v \notin u.acks
      BY <1>2, <1>3, <2>3, <2>4, <2>6 DEF OnePlace, OneOf
    <2> QED BY <2>5, <2>6
  <1> QED BY <1>4, <1>5, PopIs DEF MeshInv

LEMMA MakeMeshAcks ==
  ASSUME MeshConstants, MeshInv, Acknowledged, NEW w \in Workers, MakeMesh(w)
  PROVE  Acknowledged'
  <1>1. /\ received' = received /\ adding' = adding /\ m_queue' = m_queue
        /\ job' = job /\ acked' = acked /\ pc[w] = "make"
        /\ pc' = [pc EXCEPT ![w] = "done"]
    BY DEF MakeMesh, Goto, mapVars, queueVars
  <1>2. PICK r : Made1(w, r)
    BY MakeMeshIs DEF MeshInv, Links
  <1>3. r.acks = job[w].acks
    BY <1>2 DEF Made1
  <1>4. Working' = Working \ {w} /\ w \in Working
    BY <1>1 DEF Working, MeshInv, Types
  <1> SUFFICES ASSUME NEW v \in received PROVE OnePlace(v)'
    BY <1>1 DEF Acknowledged
  <1>5. /\ Given(v)' = Given(v)
        /\ Has(adding, v)' = Has(adding, v) /\ Has(m_queue, v)' = Has(m_queue, v)
        /\ Has(m_queue_out, v)' = Has(m_queue_out', v)
        /\ Has(m_queue_out_urgent, v)' = Has(m_queue_out_urgent', v)
    BY <1>1 DEF Given, Has
  <1>6. /\ OnePlace(v) /\ Lone(AtWork(v)) /\ Lone(Has(m_queue_out, v))
        /\ Lone(Has(m_queue_out_urgent, v))
    BY DEF Acknowledged, OnePlace, OneOf
  <1>7. AtWork(v)' = AtWork(v) \ {w} /\ (w \in AtWork(v) <=> v \in r.acks)
    BY <1>1, <1>3, <1>4 DEF AtWork
  <1>8. v \in r.acks => /\ AtWork(v)' = {} /\ AtWork(v) # {}
                        /\ Has(m_queue_out, v) = {} /\ Has(m_queue_out_urgent, v) = {}
    BY <1>6, <1>7 DEF OnePlace, OneOf, Lone
  <1>9. v \notin r.acks => AtWork(v)' = AtWork(v)
    BY <1>7
  <1>10. CASE /\ Added(m_queue_out_urgent, m_queue_out_urgent', r)
              /\ m_queue_out' = m_queue_out
    <2>1. /\ Lone(Has(m_queue_out_urgent', v))
          /\ Has(m_queue_out_urgent', v) = {}
               <=> Has(m_queue_out_urgent, v) = {} /\ v \notin r.acks
      BY <1>6, <1>8, <1>10, AddHas
    <2>2. CASE v \in r.acks
      <3>1. Lone(AtWork(v)')
        BY <1>8, <2>2 DEF Lone
      <3> QED BY <1>5, <1>6, <1>8, <1>10, <2>1, <2>2, <3>1 DEF OnePlace, OneOf
    <2>3. CASE v \notin r.acks
      BY <1>5, <1>6, <1>9, <1>10, <2>1, <2>3 DEF OnePlace, OneOf
    <2> QED BY <2>2, <2>3
  <1>11. CASE /\ Added(m_queue_out, m_queue_out', r)
              /\ m_queue_out_urgent' = m_queue_out_urgent
    <2>1. /\ Lone(Has(m_queue_out', v))
          /\ Has(m_queue_out', v) = {} <=> Has(m_queue_out, v) = {} /\ v \notin r.acks
      BY <1>6, <1>8, <1>11, AddHas
    <2>2. CASE v \in r.acks
      <3>1. Lone(AtWork(v)')
        BY <1>8, <2>2 DEF Lone
      <3> QED BY <1>5, <1>6, <1>8, <1>11, <2>1, <2>2, <3>1 DEF OnePlace, OneOf
    <2>3. CASE v \notin r.acks
      BY <1>5, <1>6, <1>9, <1>11, <2>1, <2>3 DEF OnePlace, OneOf
    <2> QED BY <2>2, <2>3
  <1> QED BY <1>2, <1>10, <1>11 DEF Made1

\* The places of a sequence with an element of P.
Hits(s, P) == {i \in DOMAIN s : s[i] \in P}

LEMMA ConcatIs ==
  ASSUME NEW S, NEW s \in Seq(S), NEW t \in Seq(S)
  PROVE  /\ s \o t \in Seq(S)
         /\ \A i \in DOMAIN s : i \in DOMAIN (s \o t) /\ (s \o t)[i] = s[i]
         /\ \A i \in DOMAIN t : Len(s) + i \in DOMAIN (s \o t) /\ (s \o t)[Len(s) + i] = t[i]
         /\ \A i \in DOMAIN (s \o t) :
              \/ i \in DOMAIN s /\ (s \o t)[i] = s[i]
              \/ /\ i \notin DOMAIN s /\ i - Len(s) \in DOMAIN t
                 /\ (s \o t)[i] = t[i - Len(s)]
  <1> DEFINE x == s \o t
             m == Len(s)
             n == Len(t)
  <1>1. x \in Seq(S) /\ Len(x) = m + n
    BY ConcatProperties
  <1>2. \A i \in 1 .. m + n : x[i] = IF i <= m THEN s[i] ELSE t[i - m]
    BY ConcatProperties
  <1>3. /\ DOMAIN s = 1 .. m /\ DOMAIN t = 1 .. n /\ DOMAIN x = 1 .. m + n
        /\ m \in Nat /\ n \in Nat
    BY <1>1
  <1> HIDE DEF x, m, n
  <1>4. \A i \in DOMAIN s : i \in DOMAIN x /\ x[i] = s[i]
    BY <1>2, <1>3
  <1>5. ASSUME NEW i \in DOMAIN t PROVE m + i \in DOMAIN x /\ x[m + i] = t[i]
    <2>1. m + i \in 1 .. m + n /\ ~(m + i <= m) /\ (m + i) - m = i
      BY <1>3
    <2>2. x[m + i] = t[(m + i) - m]
      BY <1>2, <2>1
    <2> QED BY <1>3, <2>1, <2>2
  <1>6. ASSUME NEW i \in DOMAIN x
        PROVE  \/ i \in DOMAIN s /\ x[i] = s[i]
               \/ i \notin DOMAIN s /\ i - m \in DOMAIN t /\ x[i] = t[i - m]
    BY <1>2, <1>3
  <1> QED BY <1>1, <1>4, <1>5, <1>6 DEF x, m

LEMMA ConcatHits ==
  ASSUME NEW S, NEW s \in Seq(S), NEW t \in Seq(S), NEW P,
         Lone(Hits(s, P)), Lone(Hits(t, P)), Hits(s, P) = {} \/ Hits(t, P) = {}
  PROVE  /\ Lone(Hits(s \o t, P))
         /\ Hits(s \o t, P) = {} <=> Hits(s, P) = {} /\ Hits(t, P) = {}
  <1> DEFINE x == s \o t
             m == Len(s)
  <1>1. /\ \A i \in DOMAIN s : i \in DOMAIN x /\ x[i] = s[i]
        /\ \A i \in DOMAIN t : m + i \in DOMAIN x /\ x[m + i] = t[i]
        /\ \A i \in DOMAIN x : \/ i \in DOMAIN s /\ x[i] = s[i]
                               \/ i \notin DOMAIN s /\ i - m \in DOMAIN t /\ x[i] = t[i - m]
    BY ConcatIs
  <1>2. m \in Nat /\ DOMAIN x \subseteq Nat
    <2>1. x \in Seq(S)
      BY ConcatIs
    <2> QED BY <2>1
  <1> HIDE DEF x, m
  <1>3. \A i \in Hits(x, P) : i \in Hits(s, P) \/ (i - m \in Hits(t, P) /\ i \in Nat)
    BY <1>1, <1>2 DEF Hits
  <1>4. \A i \in Hits(s, P) : i \in Hits(x, P)
    BY <1>1 DEF Hits
  <1>5. \A i \in Hits(t, P) : m + i \in Hits(x, P)
    BY <1>1 DEF Hits
  <1>6. Hits(x, P) = {} <=> Hits(s, P) = {} /\ Hits(t, P) = {}
    BY <1>3, <1>4, <1>5
  <1>7. Lone(Hits(x, P))
    <2> SUFFICES ASSUME NEW i \in Hits(x, P), NEW j \in Hits(x, P) PROVE i = j
      BY DEF Lone
    <2>1. CASE Hits(t, P) = {}
      BY <1>3, <2>1 DEF Lone
    <2>2. CASE Hits(s, P) = {}
      <3>1. i - m \in Hits(t, P) /\ j - m \in Hits(t, P) /\ i \in Nat /\ j \in Nat
        BY <1>3, <2>2
      <3>2. i - m = j - m
        BY <3>1 DEF Lone
      <3> QED BY <1>2, <3>1, <3>2
    <2> QED BY <2>1, <2>2
  <1> QED BY <1>6, <1>7 DEF x

LEMMA TakeResultAcks ==
  ASSUME MeshConstants, MeshInv, Acknowledged, TakeResult
  PROVE  Acknowledged'
  <1>1. /\ received' = received /\ adding' = adding /\ m_queue' = m_queue
        /\ pc' = pc /\ job' = job
    BY DEF TakeResult, mapVars, queueVars, workerVars
  <1>2. PICK r : Taken(r)
    BY TakeResultIs DEF MeshInv
  <1>3. r.acks \in AckSets /\ acked' = acked \o SetToSeq(r.acks)
    BY <1>2 DEF Taken, Made
  <1>4. Working' = Working
    BY <1>1 DEF Working
  <1> SUFFICES ASSUME NEW v \in received PROVE OnePlace(v)'
    BY <1>1 DEF Acknowledged
  <1>5. /\ AtWork(v)' = AtWork(v)
        /\ Has(adding, v)' = Has(adding, v) /\ Has(m_queue, v)' = Has(m_queue, v)
        /\ Has(m_queue_out, v)' = Has(m_queue_out', v)
        /\ Has(m_queue_out_urgent, v)' = Has(m_queue_out_urgent', v)
    BY <1>1, <1>4 DEF AtWork, Has
  <1>6. /\ OnePlace(v) /\ Lone(Given(v)) /\ Lone(Has(m_queue_out, v))
        /\ Lone(Has(m_queue_out_urgent, v))
    BY DEF Acknowledged, OnePlace, OneOf
  \* The result leaves its queue ...
  <1>7. /\ Lone(Has(m_queue_out', v)) /\ Lone(Has(m_queue_out_urgent', v))
        /\ v \in r.acks => /\ Has(m_queue_out, v) # {} \/ Has(m_queue_out_urgent, v) # {}
                           /\ Has(m_queue_out', v) = {} /\ Has(m_queue_out_urgent', v) = {}
        /\ v \notin r.acks =>
             /\ Has(m_queue_out', v) = {} <=> Has(m_queue_out, v) = {}
             /\ Has(m_queue_out_urgent', v) = {} <=> Has(m_queue_out_urgent, v) = {}
    <2>1. CASE /\ Dropped(m_queue_out_urgent, m_queue_out_urgent', 1)
               /\ r = m_queue_out_urgent[1] /\ m_queue_out' = m_queue_out
      <3>1. /\ Lone(Has(m_queue_out_urgent', v))
            /\ v \in r.acks => /\ Has(m_queue_out_urgent, v) # {}
                               /\ Has(m_queue_out_urgent', v) = {}
            /\ v \notin r.acks =>
                 (Has(m_queue_out_urgent', v) = {} <=> Has(m_queue_out_urgent, v) = {})
        BY <1>6, <2>1, DropHas
      <3>2. v \in r.acks => Has(m_queue_out, v) = {}
        BY <1>6, <3>1 DEF OnePlace, OneOf
      <3> QED BY <1>6, <2>1, <3>1, <3>2
    <2>2. CASE /\ Dropped(m_queue_out, m_queue_out', 1) /\ m_queue_out_urgent = <<>>
               /\ r = m_queue_out[1] /\ m_queue_out_urgent' = <<>>
      <3>1. /\ Lone(Has(m_queue_out', v))
            /\ v \in r.acks => Has(m_queue_out, v) # {} /\ Has(m_queue_out', v) = {}
            /\ v \notin r.acks => (Has(m_queue_out', v) = {} <=> Has(m_queue_out, v) = {})
        BY <1>6, <2>2, DropHas
      <3>2. v \in r.acks => Has(m_queue_out_urgent, v) = {}
        BY <1>6, <3>1 DEF OnePlace, OneOf
      <3> QED BY <1>6, <2>2, <3>1, <3>2
    <2> QED BY <1>2, <2>1, <2>2 DEF Taken
  \* ... and what it acknowledges is given to the server.
  <1>8. /\ Lone(Given(v)')
        /\ Given(v)' = {} <=> Given(v) = {} /\ v \notin r.acks
    <2> DEFINE f == SetToSeq(r.acks)
    <2>1. /\ f \in Seq(r.acks)
          /\ \A x \in r.acks : \E i \in DOMAIN f : f[i] = x
          /\ \A i, j \in DOMAIN f : f[i] = f[j] => i = j
      BY <1>3, Listed DEF AckSets
    <2> HIDE DEF f
    <2>2. f \in Seq(Nat) /\ acked \in Seq(Nat)
      BY <1>3, <2>1, SeqMonotonic DEF AckSets, MeshInv, Types
    <2>3. /\ Given(v) = Hits(acked, {v}) /\ Given(v)' = Hits(acked', {v})
          /\ acked' = acked \o f
      BY <1>3 DEF Given, Hits, f
    <2>4. Lone(Hits(f, {v}))
      BY <2>1 DEF Hits, Lone
    <2>5. Hits(f, {v}) = {} <=> v \notin r.acks
      <3>1. \A i \in DOMAIN f : f[i] \in r.acks
        BY <2>1
      <3> QED BY <2>1, <3>1 DEF Hits
    <2>6. v \in r.acks => Given(v) = {}
      BY <1>6, <1>7 DEF OnePlace, OneOf
    <2>7. /\ Lone(Hits(acked \o f, {v}))
          /\ Hits(acked \o f, {v}) = {} <=> Hits(acked, {v}) = {} /\ Hits(f, {v}) = {}
      <3> DEFINE P == {v}
      <3>1. Lone(Hits(acked, P)) /\ Lone(Hits(f, P))
        BY <1>6, <2>3, <2>4
      <3>2. Hits(acked, P) = {} \/ Hits(f, P) = {}
        BY <2>3, <2>5, <2>6
      <3> HIDE DEF P
      <3>3. /\ Lone(Hits(acked \o f, P))
            /\ Hits(acked \o f, P) = {} <=> Hits(acked, P) = {} /\ Hits(f, P) = {}
        BY <2>2, <3>1, <3>2, ConcatHits
      <3> QED BY <3>3 DEF P
    <2> QED BY <2>3, <2>5, <2>7
  <1>9. CASE v \in r.acks
    BY <1>5, <1>6, <1>7, <1>8, <1>9 DEF OnePlace, OneOf
  <1>10. CASE v \notin r.acks
    BY <1>5, <1>6, <1>7, <1>8, <1>10 DEF OnePlace, OneOf
  <1> QED BY <1>9, <1>10

\* The steps that move no acknowledgement.
LEMMA AcksStay ==
  ASSUME Acknowledged, received' = received, adding' = adding, m_queue' = m_queue,
         Working' = Working, \A w \in Working : job'[w] = job[w],
         m_queue_out' = m_queue_out, m_queue_out_urgent' = m_queue_out_urgent,
         acked' = acked
  PROVE  Acknowledged'
  <1> SUFFICES ASSUME NEW v \in received PROVE OnePlace(v)'
    BY DEF Acknowledged
  <1>1. /\ AtWork(v)' = AtWork(v) /\ Given(v)' = Given(v)
        /\ Has(adding, v)' = Has(adding, v) /\ Has(m_queue, v)' = Has(m_queue, v)
        /\ Has(m_queue_out, v)' = Has(m_queue_out, v)
        /\ Has(m_queue_out_urgent, v)' = Has(m_queue_out_urgent, v)
    BY DEF AtWork, Given, Has
  <1>2. OnePlace(v)
    BY DEF Acknowledged
  <1> QED BY <1>1, <1>2 DEF OnePlace

LEMMA TurnAcks ==
  ASSUME MeshInv, Acknowledged,
         \/ DeferUpdate \/ BeginTaking \/ EndTaking \/ UNCHANGED vars
         \/ \E b \in Blocks : Unload(b)
         \/ \E w \in Workers : Wake(w) \/ Done(w)
  PROVE  Acknowledged'
  <1>1. CASE DeferUpdate
    BY <1>1, AcksStay DEF DeferUpdate, Working, mapVars, queueVars, resultVars
  <1>2. CASE BeginTaking
    BY <1>2, AcksStay DEF BeginTaking, Working, mapVars, queueVars, workerVars, resultVars
  <1>3. CASE EndTaking
    BY <1>3, AcksStay DEF EndTaking, Working, mapVars, queueVars, workerVars, resultVars
  <1>4. CASE UNCHANGED vars
    BY <1>4, AcksStay DEF vars, Working, mapVars, queueVars, workerVars, resultVars
  <1>5. ASSUME NEW b \in Blocks, Unload(b) PROVE Acknowledged'
    BY <1>5, AcksStay DEF Unload, Working, queueVars, workerVars, resultVars
  <1>6. ASSUME NEW w \in Workers, Wake(w) PROVE Acknowledged'
    <2>1. Working' = Working /\ job' = job
      BY <1>6 DEF Wake, Goto, Working, MeshInv, Types
    <2> QED BY <1>6, <2>1, AcksStay DEF Wake, mapVars, queueVars, resultVars
  <1>7. ASSUME NEW w \in Workers, Done(w) PROVE Acknowledged'
    <2>1. Working' = Working /\ \A v \in Working : job'[v] = job[v]
      BY <1>7 DEF Done, Goto, Working, MeshInv, Types
    <2> QED BY <1>7, <2>1, AcksStay DEF Done, mapVars, resultVars
  <1> QED BY <1>1, <1>2, <1>3, <1>4, <1>5, <1>6, <1>7

LEMMA AcksNext ==
  ASSUME MeshConstants, MeshInv, Acknowledged, [Next]_vars
  PROVE  Acknowledged'
  <1>1. ASSUME NEW b \in Blocks, NEW air \in BOOLEAN, BlockData(b, air) \/ ChangeNode(b, air)
        PROVE  Acknowledged'
    <2>1. PICK acks \in {{}, {versions + 1}}, urgent \in BOOLEAN :
            /\ Change(b, air, acks, urgent)
            /\ \/ acks = {versions + 1} /\ received' = received \cup {versions + 1}
               \/ acks = {} /\ received' = received
      BY <1>1, ChangesAre
    <2> QED BY <2>1, ChangeAcks
  <1>2. CASE AddBlock
    BY <1>2, AddBlockAcks
  <1>3. CASE TakeResult
    BY <1>3, TakeResultAcks
  <1>4. CASE \/ DeferUpdate \/ BeginTaking \/ EndTaking \/ UNCHANGED vars
             \/ \E b \in Blocks : Unload(b)
    BY <1>4, TurnAcks
  <1>5. ASSUME NEW w \in Workers, WorkerStep(w) PROVE Acknowledged'
    BY <1>5, TurnAcks, PopAcks, MakeMeshAcks DEF WorkerStep
  <1> QED BY <1>1, <1>2, <1>3, <1>4, <1>5 DEF Next

LEMMA LoneCount ==
  ASSUME NEW S, Lone(S)
  PROVE  Cardinality(S) = IF S = {} THEN 0 ELSE 1
  <1>1. CASE S = {}
    BY <1>1, FS_EmptySet
  <1>2. CASE S # {}
    <2>1. PICK x \in S : TRUE
      BY <1>2
    <2>2. S = {x}
      BY <2>1 DEF Lone
    <2>3. Cardinality({x}) = 1
      BY FS_Singleton
    <2> QED BY <1>2, <2>2, <2>3
  <1> QED BY <1>1, <1>2

\* What is owed is in the calls, the queue or the results.
LEMMA OwedIs ==
  ASSUME Types, NEW v, OnePlace(v)
  PROVE  LET H == {i \in DOMAIN Owed : v \in Owed[i]}
         IN  /\ Lone(H)
             /\ H = {} <=> /\ Has(adding, v) = {} /\ Has(m_queue, v) = {}
                           /\ Has(m_queue_out_urgent, v) = {} /\ Has(m_queue_out, v) = {}
  <1> DEFINE P == {x \in AckSets : v \in x}
             M == {x \in Made : v \in x.acks}
             A == [i \in DOMAIN adding |-> adding[i].acks]
             Q == [i \in DOMAIN m_queue |-> m_queue[i].acks]
             R == [i \in DOMAIN Results |-> Results[i].acks]
             H == {i \in DOMAIN Owed : v \in Owed[i]}
  <1>0. /\ adding \in Seq(Calls) /\ m_queue \in Seq(Updates) /\ m_queue_out \in Seq(Made)
        /\ m_queue_out_urgent \in Seq(Made)
    BY DEF Types
  <1>1. A \in Seq(AckSets) /\ Has(adding, v) = Hits(A, P)
    <2>1. DOMAIN A = 1 .. Len(adding) /\ Len(adding) \in Nat
      BY <1>0
    <2>2. ASSUME NEW i \in DOMAIN A PROVE A[i] \in AckSets /\ A[i] = adding[i].acks
      <3>1. adding[i] \in Calls
        BY <1>0
      <3> QED BY <3>1 DEF Calls
    <2>3. A \in Seq(AckSets)
      BY <2>1, <2>2
    <2>4. Has(adding, v) = Hits(A, P)
      BY <2>2 DEF Has, Hits
    <2> QED BY <2>3, <2>4
  <1>2. Q \in Seq(AckSets) /\ Has(m_queue, v) = Hits(Q, P)
    <2>1. DOMAIN Q = 1 .. Len(m_queue) /\ Len(m_queue) \in Nat
      BY <1>0
    <2>2. ASSUME NEW i \in DOMAIN Q PROVE Q[i] \in AckSets /\ Q[i] = m_queue[i].acks
      <3>1. m_queue[i] \in Updates
        BY <1>0
      <3> QED BY <3>1 DEF Updates
    <2>3. Q \in Seq(AckSets)
      BY <2>1, <2>2
    <2>4. Has(m_queue, v) = Hits(Q, P)
      BY <2>2 DEF Has, Hits
    <2> QED BY <2>3, <2>4
  <1>3. Results \in Seq(Made)
    BY <1>0, ConcatIs DEF Results
  <1>4. R \in Seq(AckSets) /\ Hits(R, P) = Hits(Results, M)
    <2>1. DOMAIN R = 1 .. Len(Results) /\ Len(Results) \in Nat
      BY <1>3
    <2>2. ASSUME NEW i \in DOMAIN R
          PROVE  R[i] \in AckSets /\ R[i] = Results[i].acks /\ Results[i] \in Made
      <3>1. Results[i] \in Made
        BY <1>3
      <3> QED BY <3>1 DEF Made
    <2>3. R \in Seq(AckSets)
      BY <2>1, <2>2
    <2>4. Hits(R, P) = Hits(Results, M)
      BY <2>2 DEF Hits
    <2> QED BY <2>3, <2>4
  <1>5. /\ Has(m_queue_out, v) = Hits(m_queue_out, M)
        /\ Has(m_queue_out_urgent, v) = Hits(m_queue_out_urgent, M)
    BY <1>0 DEF Has, Hits
  <1>6. Owed = (A \o Q) \o R
    BY DEF Owed
  <1> HIDE DEF P, M, A, Q, R
  <1>7. /\ Lone(Hits(A, P)) /\ Lone(Hits(Q, P)) /\ Lone(Hits(m_queue_out, M))
        /\ Lone(Hits(m_queue_out_urgent, M))
        /\ Hits(m_queue_out, M) = {} \/ Hits(m_queue_out_urgent, M) = {}
        /\ Hits(A, P) = {} \/ Hits(Q, P) = {}
        /\ \/ Hits(A, P) = {} /\ Hits(Q, P) = {}
           \/ Hits(m_queue_out, M) = {} /\ Hits(m_queue_out_urgent, M) = {}
    BY <1>1, <1>2, <1>5 DEF OnePlace, OneOf
  <1>8. /\ Lone(Hits(Results, M))
        /\ Hits(Results, M) = {} <=> /\ Hits(m_queue_out_urgent, M) = {}
                                     /\ Hits(m_queue_out, M) = {}
    BY <1>0, <1>7, ConcatHits DEF Results
  <1>9. /\ A \o Q \in Seq(AckSets) /\ Lone(Hits(A \o Q, P))
        /\ Hits(A \o Q, P) = {} <=> Hits(A, P) = {} /\ Hits(Q, P) = {}
    BY <1>1, <1>2, <1>7, ConcatHits, ConcatIs
  <1>10. /\ Owed \in Seq(AckSets) /\ Lone(Hits(Owed, P))
         /\ Hits(Owed, P) = {} <=> Hits(A \o Q, P) = {} /\ Hits(R, P) = {}
    <2>1. Owed \in Seq(AckSets)
      BY <1>4, <1>6, <1>9, ConcatIs
    <2>2. /\ Lone(Hits(R, P))
          /\ Hits(A \o Q, P) = {} \/ Hits(R, P) = {}
      BY <1>4, <1>7, <1>8, <1>9
    <2>3. /\ Lone(Hits((A \o Q) \o R, P))
          /\ Hits((A \o Q) \o R, P) = {} <=> Hits(A \o Q, P) = {} /\ Hits(R, P) = {}
      BY <1>4, <1>9, <2>2, ConcatHits
    <2> QED BY <1>6, <2>1, <2>3
  <1>11. H = Hits(Owed, P)
    BY <1>10 DEF Hits, P
  <1> HIDE DEF H
  <1> QED BY <1>1, <1>2, <1>4, <1>5, <1>8, <1>9, <1>10, <1>11 DEF H

LEMMA AcksAre ==
  MeshInv /\ Acknowledged => AckedOnce
  <1> SUFFICES ASSUME MeshInv, Acknowledged PROVE AckedOnce
    OBVIOUS
  <1>1. ASSUME NEW v \in received
        PROVE  Cardinality({i \in DOMAIN Owed : v \in Owed[i]})
                 + Cardinality({w \in Working : v \in job[w].acks})
                 + Cardinality({i \in DOMAIN acked : acked[i] = v}) = 1
    <2> DEFINE H == {i \in DOMAIN Owed : v \in Owed[i]}
    <2>1. OnePlace(v)
      BY DEF Acknowledged
    <2>2. /\ Lone(H)
          /\ H = {} <=> /\ Has(adding, v) = {} /\ Has(m_queue, v) = {}
                        /\ Has(m_queue_out_urgent, v) = {} /\ Has(m_queue_out, v) = {}
      BY <2>1, OwedIs DEF MeshInv
    <2> HIDE DEF H
    <2>3. Lone(AtWork(v)) /\ Lone(Given(v))
      BY <2>1 DEF OnePlace, OneOf
    <2>4. /\ Cardinality(H) = IF H = {} THEN 0 ELSE 1
          /\ Cardinality(AtWork(v)) = IF AtWork(v) = {} THEN 0 ELSE 1
          /\ Cardinality(Given(v)) = IF Given(v) = {} THEN 0 ELSE 1
      BY <2>2, <2>3, LoneCount
    <2>5. \/ H # {} /\ AtWork(v) = {} /\ Given(v) = {}
          \/ H = {} /\ AtWork(v) # {} /\ Given(v) = {}
          \/ H = {} /\ AtWork(v) = {} /\ Given(v) # {}
      BY <2>1, <2>2 DEF OnePlace, OneOf
    <2>6. Cardinality(H) + Cardinality(AtWork(v)) + Cardinality(Given(v)) = 1
      BY <2>4, <2>5
    <2> QED BY <2>6 DEF H, AtWork, Given
  <1>2. ASSUME NEW i \in DOMAIN Results, NEW v \in Results[i].acks
        PROVE  v <= Results[i].saw
    <2>1. m_queue_out \in Seq(Made) /\ m_queue_out_urgent \in Seq(Made)
      BY DEF MeshInv, Types
    <2>2. \/ \E j \in DOMAIN m_queue_out : Results[i] = m_queue_out[j]
          \/ \E j \in DOMAIN m_queue_out_urgent : Results[i] = m_queue_out_urgent[j]
      BY <2>1, ConcatIs DEF Results
    <2>3. Result(Results[i])
      BY <2>2 DEF MeshInv, Links, ResultsLinked
    <2> QED BY <2>3 DEF Result
  <1> QED BY <1>1, <1>2 DEF AckedOnce

\* Every block that comes from the server is acknowledged once, by one update,
\* result or message, whatever is merged, skipped or urgent, and not before a
\* mesh was made of it or of what came after it.
THEOREM MeshAcksOnce ==
  ASSUME MeshConstants
  PROVE  Spec => []AckedOnce
  <1>1. Init => MeshInv /\ Acknowledged
    BY MeshInit DEF Init, Acknowledged
  <1>2. MeshInv /\ Acknowledged /\ [Next]_vars => (MeshInv /\ Acknowledged)'
    BY MeshNext, AcksNext
  <1> QED BY <1>1, <1>2, AcksAre, PTL DEF Spec

=============================================================================
