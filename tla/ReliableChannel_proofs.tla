----------------------- MODULE ReliableChannel_proofs -----------------------
(***************************************************************************)
(* Proofs about a reliable channel, for every size of the sequence space,  *)
(* of the windows, of the stream and of the network.                       *)
(*                                                                         *)
(* First, facts about sequence numbers: the comparisons of the code are    *)
(* the distance on the circle, and within one turn of the circle a number  *)
(* names one packet of the stream.  Then what the operations of            *)
(* ReliablePacketBuffer do to its list, for every list: which packets are  *)
(* in it afterwards and in which order, and that a buffer in use is a set  *)
(* of the numbers of one window (OrderedWindow).  Last, the channel.       *)
(***************************************************************************)
EXTENDS ReliableChannel, ReliableBuffer, SequenceTheorems, FiniteSetTheorems,
        WellFoundedInduction, TLAPS

-----------------------------------------------------------------------------
(***************************************************************************)
(* Division by a symbolic SeqSpace.                                        *)
(***************************************************************************)

\* Quotient and remainder of the C++ operators / and % on the space.
LEMMA DivMod ==
  ASSUME NEW a \in Int
  PROVE  /\ a \div SeqSpace \in Int
         /\ a % SeqSpace \in SeqNums
         /\ a = SeqSpace * (a \div SeqSpace) + (a % SeqSpace)
  <1>1. SeqSpace \in Nat /\ SeqSpace > 0
    BY SeqNumAssumption
  <1> QED BY <1>1 DEF SeqNums

\* They are unique.
LEMMA DivModUnique ==
  ASSUME NEW p \in Int, NEW q \in Int, NEW r \in SeqNums, NEW t \in SeqNums,
         SeqSpace * p + r = SeqSpace * q + t
  PROVE  p = q /\ r = t
  <1> USE SeqNumAssumption DEF SeqNums
  <1>1. CASE p = q
    BY <1>1
  <1>2. CASE p >= q + 1
    <2>1. SeqSpace * p >= SeqSpace * (q + 1)
      BY <1>2
    <2> QED BY <2>1
  <1>3. CASE q >= p + 1
    <2>1. SeqSpace * q >= SeqSpace * (p + 1)
      BY <1>3
    <2> QED BY <2>1
  <1> QED BY <1>1, <1>2, <1>3

\* What a remainder is, from a decomposition.
LEMMA ModIs ==
  ASSUME NEW a \in Int, NEW q \in Int, NEW r \in SeqNums, a = SeqSpace * q + r
  PROVE  a % SeqSpace = r
  <1> DEFINE p == a \div SeqSpace
             t == a % SeqSpace
  <1>1. p \in Int /\ t \in SeqNums /\ a = SeqSpace * p + t
    BY DivMod
  <1> HIDE DEF p, t
  <1>2. t = r
    BY <1>1, DivModUnique
  <1> QED BY <1>2 DEF t

\* Wrapping in the middle of a sum changes nothing.
LEMMA ModOfSum ==
  ASSUME NEW a \in Int, NEW k \in Int
  PROVE  ((a % SeqSpace) + k) % SeqSpace = (a + k) % SeqSpace
  <1> DEFINE p == a \div SeqSpace
             t == a % SeqSpace
             u == (t + k) \div SeqSpace
             v == (t + k) % SeqSpace
  <1>1. p \in Int /\ t \in SeqNums /\ a = SeqSpace * p + t
    BY DivMod
  <1>2. t + k \in Int
    BY <1>1, SeqNumAssumption DEF SeqNums
  <1> HIDE DEF p, t
  <1>3. u \in Int /\ v \in SeqNums /\ t + k = SeqSpace * u + v
    BY <1>2, DivMod
  <1> HIDE DEF u, v
  <1>4. a + k = SeqSpace * (p + u) + v /\ a + k \in Int /\ p + u \in Int
    BY <1>1, <1>3, SeqNumAssumption DEF SeqNums
  <1>5. (a + k) % SeqSpace = v
    BY <1>3, <1>4, ModIs
  <1> QED BY <1>5 DEF v, t

-----------------------------------------------------------------------------
(***************************************************************************)
(* Numbers of the stream.                                                  *)
(***************************************************************************)

\* Every position of the stream has a sequence number.
LEMMA SeqNumOfType ==
  ASSUME NEW n \in Int
  PROVE  SeqNumOf(n) \in SeqNums
  <1>1. SeqInitial + n \in Int
    BY SeqNumAssumption
  <1> QED BY <1>1, DivMod DEF SeqNumOf

\* u16 addition stays a sequence number.
LEMMA SeqAddType ==
  ASSUME NEW s \in SeqNums, NEW k \in Int
  PROVE  SeqAdd(s, k) \in SeqNums
  <1>1. s + k \in Int
    BY SeqNumAssumption DEF SeqNums
  <1> QED BY <1>1, DivMod DEF SeqAdd

\* The first packet has the initial number.
LEMMA SeqNumOfZero == SeqNumOf(0) = SeqInitial
  <1>1. SeqInitial \in SeqNums /\ SeqInitial + 0 \in Int
        /\ SeqInitial + 0 = SeqSpace * 0 + SeqInitial
    BY SeqNumAssumption DEF SeqNums
  <1> HIDE DEF SeqNums
  <1> QED BY <1>1, ModIs DEF SeqNumOf

\* u16 addition on a number is addition on the position.
LEMMA SeqAddOf ==
  ASSUME NEW n \in Int, NEW k \in Int
  PROVE  SeqAdd(SeqNumOf(n), k) = SeqNumOf(n + k)
  <1>1. SeqInitial + n \in Int /\ (SeqInitial + n) + k = SeqInitial + (n + k)
    BY SeqNumAssumption
  <1>2. (((SeqInitial + n) % SeqSpace) + k) % SeqSpace
          = ((SeqInitial + n) + k) % SeqSpace
    BY <1>1, ModOfSum
  <1> QED BY <1>1, <1>2 DEF SeqAdd, SeqNumOf

\* Distance on the circle is distance in the stream, within one turn.
LEMMA DistanceOf ==
  ASSUME NEW a \in Int, NEW b \in Int, a <= b, b - a < SeqSpace
  PROVE  Distance(SeqNumOf(a), SeqNumOf(b)) = b - a
  <1> DEFINE s == SeqNumOf(a)
             t == SeqNumOf(b)
             d == b - a
  <1>1. s \in SeqNums /\ t \in SeqNums /\ d \in 0 .. SeqSpace - 1
    BY SeqNumOfType, SeqNumAssumption
  <1>2. t = (s + d) % SeqSpace
    BY SeqAddOf DEF SeqAdd
  <1> HIDE DEF s, t, d
  <1>3. CASE s + d < SeqSpace
    <2>1. s + d \in SeqNums /\ s + d \in Int /\ s + d = SeqSpace * 0 + (s + d)
      BY <1>1, <1>3, SeqNumAssumption DEF SeqNums
    <2>2. t = s + d
      BY <1>2, <2>1, ModIs
    <2> QED BY <1>1, <2>2, SeqNumAssumption DEF Distance, SeqNums, s, t, d
  <1>4. CASE s + d >= SeqSpace
    <2>1. s + d - SeqSpace \in SeqNums /\ s + d \in Int
          /\ s + d = SeqSpace * 1 + (s + d - SeqSpace)
      BY <1>1, <1>4, SeqNumAssumption DEF SeqNums
    <2>2. t = s + d - SeqSpace
      BY <1>2, <2>1, ModIs
    <2>3. Distance(s, t) = d
      BY <1>1, <2>2, SeqNumAssumption DEF Distance, SeqNums
    <2> QED BY <2>3 DEF s, t, d
  <1> QED BY <1>1, <1>3, <1>4, SeqNumAssumption DEF SeqNums

(***************************************************************************)
(* Within one turn a sequence number names one packet: what lets an ACK, a *)
(* duplicate and a buffered packet be told apart by number alone.          *)
(***************************************************************************)
THEOREM SeqNumInjective ==
  ASSUME NEW a \in Int, NEW b \in Int,
         a - b < SeqSpace, b - a < SeqSpace, SeqNumOf(a) = SeqNumOf(b)
  PROVE  a = b
  <1>1. SeqNumOf(a) \in SeqNums
    BY SeqNumOfType
  <1>2. CASE a <= b
    BY <1>1, <1>2, DistanceOf, SeqNumAssumption DEF Distance, SeqNums
  <1>3. CASE b <= a
    BY <1>1, <1>3, DistanceOf, SeqNumAssumption DEF Distance, SeqNums
  <1> QED BY <1>2, <1>3

-----------------------------------------------------------------------------
(***************************************************************************)
(* seqnum_in_window is "closer than the window's size", for every position *)
(* of the window, wrapped or not.                                          *)
(***************************************************************************)
THEOREM WindowIsDistance ==
  ASSUME NEW s \in SeqNums, NEW next \in SeqNums, NEW size \in 1 .. SeqSpace - 1
  PROVE  SeqInWindow(s, next, size) <=> Distance(next, s) < size
  <1> DEFINE e == SeqAdd(next, size)
  <1>1. e = IF next + size < SeqSpace THEN next + size ELSE next + size - SeqSpace
    <2>1. CASE next + size < SeqSpace
      <3>1. next + size \in SeqNums /\ next + size \in Int
            /\ next + size = SeqSpace * 0 + (next + size)
        BY <2>1, SeqNumAssumption DEF SeqNums
      <3>2. e = next + size
        BY <3>1, ModIs DEF SeqAdd
      <3> QED BY <2>1, <3>2
    <2>2. CASE ~(next + size < SeqSpace)
      <3>1. next + size - SeqSpace \in SeqNums /\ next + size \in Int
            /\ next + size = SeqSpace * 1 + (next + size - SeqSpace)
        BY <2>2, SeqNumAssumption DEF SeqNums
      <3>2. e = next + size - SeqSpace
        BY <3>1, ModIs DEF SeqAdd
      <3> QED BY <2>2, <3>2
    <2> QED BY <2>1, <2>2
  <1>2. SeqInWindow(s, next, size) <=>
          IF next < e THEN s >= next /\ s < e ELSE s < e \/ s >= next
    BY DEF SeqInWindow
  <1> HIDE DEF e
  <1> QED BY <1>1, <1>2, SeqNumAssumption DEF Distance, SeqNums

(***************************************************************************)
(* Of two different numbers exactly one is higher: a reliable packet out   *)
(* of the receive window is either dropped as newer or acknowledged as     *)
(* older, and handlePacketType_Reliable has no fourth case.                *)
(***************************************************************************)
THEOREM HigherIsTotal ==
  ASSUME NEW s \in SeqNums, NEW t \in SeqNums, s # t
  PROVE  SeqHigher(s, t) <=> ~SeqHigher(t, s)
  BY SeqNumAssumption DEF SeqHigher, SeqNumMax, SeqNums

-----------------------------------------------------------------------------
(***************************************************************************)
(* Lists.                                                                  *)
(***************************************************************************)

\* A non-empty set of naturals has a least element.
LEMMA LeastNat ==
  ASSUME NEW T, T \subseteq Nat, T # {}
  PROVE  \E x \in T : \A y \in T : x <= y
  <1> DEFINE R == OpToRel(<, Nat)
  <1>1. IsWellFoundedOn(R, Nat)
    BY NatLessThanWellFounded
  <1>2. \A x, y \in Nat : x < y => <<x, y>> \in R
    BY DEF OpToRel
  <1> HIDE DEF R
  <1>3. PICK x \in T : \A y \in T : <<y, x>> \notin R
    BY <1>1, WFMin
  <1>4. \A y \in T : ~(y < x)
    BY <1>2, <1>3
  <1>5. \A y \in T : y \in Nat /\ x \in Nat
    OBVIOUS
  <1>6. \A y \in T : x <= y
    BY <1>4, <1>5
  <1> QED BY <1>6

\* What Max is of a bounded set of integers.
LEMMA MaxIs ==
  ASSUME NEW T, T \subseteq Int, T # {}, NEW b \in Int, \A x \in T : x <= b
  PROVE  Max(T) \in T /\ \A x \in T : x <= Max(T)
  <1> DEFINE D == {b - x : x \in T}
  <1>1. D \subseteq Nat /\ D # {}
    <2>1. \A x \in T : x \in Int /\ x <= b
      OBVIOUS
    <2>2. \A x \in T : b - x \in Nat
      BY <2>1
    <2> QED BY <2>2
  <1>2. PICK d \in D : \A y \in D : d <= y
    BY <1>1, LeastNat
  <1>3. PICK m \in T : d = b - m
    BY <1>2
  <1>4. \A x \in T : b - m <= b - x
    BY <1>2, <1>3
  <1>5. \A x \in T : m >= x
    BY <1>4
  <1>6. Max(T) \in T /\ \A x \in T : Max(T) >= x
    BY <1>5 DEF Max
  <1>7. Max(T) \in Int
    BY <1>6
  <1> QED BY <1>6, <1>7

\* The larger of two.
LEMMA MaxOfTwo ==
  ASSUME NEW x \in Int, NEW y \in Int
  PROVE  Max({x, y}) \in Int /\ x <= Max({x, y}) /\ y <= Max({x, y})
  <1>1. PICK b \in Int : x <= b /\ y <= b
    <2>1. x <= y \/ y <= x
      OBVIOUS
    <2> QED BY <2>1
  <1>2. {x, y} \subseteq Int /\ {x, y} # {} /\ \A z \in {x, y} : z <= b
    BY <1>1
  <1>3. Max({x, y}) \in {x, y} /\ \A z \in {x, y} : z <= Max({x, y})
    BY <1>1, <1>2, MaxIs
  <1> QED BY <1>3

\* Elements of a list with one element put in.
LEMMA InsertAtProperties ==
  ASSUME NEW S, NEW s \in Seq(S), NEW i \in 1 .. Len(s) + 1, NEW e \in S
  PROVE  /\ InsertAt(s, i, e) \in Seq(S)
         /\ Len(InsertAt(s, i, e)) = Len(s) + 1
         /\ \A j \in 1 .. Len(s) + 1 :
              InsertAt(s, i, e)[j] = IF j < i THEN s[j]
                                     ELSE IF j = i THEN e ELSE s[j - 1]
  <1> DEFINE a == SubSeq(s, 1, i - 1)
             c == SubSeq(s, i, Len(s))
  <1>1. /\ a \in Seq(S) /\ Len(a) = i - 1
        /\ \A j \in 1 .. i - 1 : a[j] = s[j]
    BY SubSeqProperties
  <1>2. /\ c \in Seq(S) /\ Len(c) = Len(s) - i + 1
        /\ \A j \in 1 .. Len(s) - i + 1 : c[j] = s[i + j - 1]
    BY SubSeqProperties
  <1> HIDE DEF a, c
  <1>3. <<e>> \in Seq(S) /\ Len(<<e>>) = 1 /\ <<e>>[1] = e
    OBVIOUS
  <1>4. /\ a \o <<e>> \in Seq(S) /\ Len(a \o <<e>>) = i
        /\ \A j \in 1 .. i : (a \o <<e>>)[j] = IF j < i THEN s[j] ELSE e
    BY <1>1, <1>3, ConcatProperties
  <1> DEFINE b == a \o <<e>>
  <1> HIDE DEF b
  <1>b. b \in Seq(S) /\ Len(b) = i
    BY <1>4 DEF b
  <1>5. /\ b \o c \in Seq(S) /\ Len(b \o c) = Len(s) + 1
        /\ \A j \in 1 .. Len(s) + 1 :
             (b \o c)[j] = IF j <= i THEN b[j] ELSE c[j - i]
    <2>1. /\ b \o c \in Seq(S) /\ Len(b \o c) = Len(b) + Len(c)
          /\ \A j \in 1 .. Len(b) + Len(c) :
               (b \o c)[j] = IF j <= Len(b) THEN b[j] ELSE c[j - Len(b)]
      BY <1>b, <1>2, ConcatProperties
    <2>2. Len(b) + Len(c) = Len(s) + 1
      BY <1>b, <1>2
    <2> QED BY <1>b, <2>1, <2>2
  <1>6. \A j \in 1 .. Len(s) + 1 : j > i => c[j - i] = s[j - 1]
    BY <1>2
  <1>7. InsertAt(s, i, e) = b \o c
    BY DEF InsertAt, b, a, c
  <1> QED BY <1>4, <1>5, <1>6, <1>7 DEF b

\* Elements of a list with one element taken out.
LEMMA RemoveAtProperties ==
  ASSUME NEW S, NEW s \in Seq(S), NEW i \in 1 .. Len(s)
  PROVE  /\ RemoveAt(s, i) \in Seq(S)
         /\ Len(RemoveAt(s, i)) = Len(s) - 1
         /\ \A j \in 1 .. Len(s) - 1 :
              RemoveAt(s, i)[j] = IF j < i THEN s[j] ELSE s[j + 1]
  <1> DEFINE a == SubSeq(s, 1, i - 1)
             c == SubSeq(s, i + 1, Len(s))
  <1>1. /\ a \in Seq(S) /\ Len(a) = i - 1
        /\ \A j \in 1 .. i - 1 : a[j] = s[j]
    BY SubSeqProperties
  <1>2. /\ c \in Seq(S) /\ Len(c) = Len(s) - i
        /\ \A j \in 1 .. Len(s) - i : c[j] = s[i + j]
    BY SubSeqProperties
  <1> HIDE DEF a, c
  <1>3. /\ a \o c \in Seq(S) /\ Len(a \o c) = Len(s) - 1
        /\ \A j \in 1 .. Len(s) - 1 :
             (a \o c)[j] = IF j < i THEN a[j] ELSE c[j - (i - 1)]
    <2>1. /\ a \o c \in Seq(S) /\ Len(a \o c) = Len(a) + Len(c)
          /\ \A j \in 1 .. Len(a) + Len(c) :
               (a \o c)[j] = IF j <= Len(a) THEN a[j] ELSE c[j - Len(a)]
      BY <1>1, <1>2, ConcatProperties
    <2>2. Len(a) + Len(c) = Len(s) - 1 /\ Len(a) = i - 1
      BY <1>1, <1>2
    <2> QED BY <2>1, <2>2
  <1>4. \A j \in 1 .. Len(s) - 1 : j >= i => c[j - (i - 1)] = s[j + 1]
    BY <1>2
  <1>5. RemoveAt(s, i) = a \o c
    BY DEF RemoveAt, a, c
  <1> QED BY <1>1, <1>3, <1>4, <1>5

-----------------------------------------------------------------------------
(***************************************************************************)
(* insert().                                                               *)
(***************************************************************************)

\* The loop stops somewhere: at the first packet not passed over, or the end.
LEMMA InsertPositionProperties ==
  ASSUME NEW S, NEW list \in Seq(S), NEW s, NEW next
  PROVE  LET i == InsertPosition(list, s, next)
         IN  /\ i \in 1 .. Len(list) + 1
             /\ \A j \in 1 .. i - 1 : Precedes(list[j].seq, s, next)
             /\ i <= Len(list) => ~Precedes(list[i].seq, s, next)
  <1> DEFINE T == {j \in 1 .. Len(list) + 1 :
                     j <= Len(list) => ~Precedes(list[j].seq, s, next)}
  <1>1. T \subseteq Nat /\ Len(list) + 1 \in T
    OBVIOUS
  <1>2. PICK x \in T : \A y \in T : x <= y
    BY <1>1, LeastNat
  <1>3. /\ x \in 1 .. Len(list) + 1
        /\ \A j \in 1 .. x - 1 : Precedes(list[j].seq, s, next)
        /\ x <= Len(list) => ~Precedes(list[x].seq, s, next)
    BY <1>2
  <1> QED BY <1>3 DEF InsertPosition

(***************************************************************************)
(* insert() loses nothing and invents nothing, and a packet that is let in *)
(* is in the list afterwards, itself or an earlier one of its number.      *)
(***************************************************************************)
LEMMA InsertPacketSet ==
  ASSUME NEW list \in Seq(Packets), NEW p \in Packets, NEW next
  PROVE  LET new == InsertPacket(list, p, next)
         IN  /\ new \in Seq(Packets)
             /\ Range(list) \subseteq Range(new)
             /\ Range(new) \subseteq Range(list) \cup {p}
             /\ Insertable(p.seq, next) => \E q \in Range(new) : q.seq = p.seq
  <1> DEFINE i == InsertPosition(list, p.seq, next)
             present == i <= Len(list) /\ list[i].seq = p.seq
             new == InsertPacket(list, p, next)
  <1>1. i \in 1 .. Len(list) + 1
    BY InsertPositionProperties
  <1>2. CASE ~Insertable(p.seq, next)
    <2>1. new = list
      BY <1>2 DEF InsertPacket
    <2> QED BY <2>1, <1>2
  <1>3. CASE Insertable(p.seq, next) /\ present
    <2>1. new = list
      BY <1>3 DEF InsertPacket
    <2>2. list[i] \in Range(list) /\ list[i].seq = p.seq
      BY <1>1, <1>3 DEF Range
    <2> QED BY <2>1, <2>2
  <1>4. CASE Insertable(p.seq, next) /\ ~present
    <2>1. new = InsertAt(list, i, p)
      BY <1>4 DEF InsertPacket
    <2> HIDE DEF new, i, present
    <2>2. /\ new \in Seq(Packets) /\ Len(new) = Len(list) + 1
          /\ \A j \in 1 .. Len(list) + 1 :
               new[j] = IF j < i THEN list[j] ELSE IF j = i THEN p ELSE list[j - 1]
      BY <1>1, <2>1, InsertAtProperties, SMTT(30)
    <2>3. ASSUME NEW k \in DOMAIN list
          PROVE  \E j \in DOMAIN new : new[j] = list[k]
      <3>1. CASE k < i
        BY <1>1, <2>2, <3>1
      <3>2. CASE k >= i
        <4>1. k + 1 \in DOMAIN new /\ new[k + 1] = list[k]
          BY <1>1, <2>2, <3>2
        <4> QED BY <4>1
      <3> QED BY <1>1, <3>1, <3>2
    <2>4. ASSUME NEW j \in DOMAIN new
          PROVE  new[j] = p \/ \E k \in DOMAIN list : new[j] = list[k]
      <3>1. CASE j < i
        BY <1>1, <2>2, <3>1
      <3>2. CASE j = i
        BY <1>1, <2>2, <3>2
      <3>3. CASE j > i
        <4>1. j - 1 \in DOMAIN list /\ new[j] = list[j - 1]
          BY <1>1, <2>2, <3>3
        <4> QED BY <4>1
      <3> QED BY <1>1, <2>2, <3>1, <3>2, <3>3
    <2>5. i \in DOMAIN new /\ new[i] = p
      BY <1>1, <2>2
    <2>6. Range(list) \subseteq Range(new) /\ Range(new) \subseteq Range(list) \cup {p}
      BY <2>3, <2>4 DEF Range
    <2>7. p \in Range(new)
      BY <2>5 DEF Range
    <2> QED BY <2>2, <2>6, <2>7 DEF new
  <1> QED BY <1>2, <1>3, <1>4

-----------------------------------------------------------------------------
(***************************************************************************)
(* Positions instead of numbers.  A list is read relative to a base        *)
(* position b, whose number is the next_expected that insert() is given.   *)
(***************************************************************************)

\* Every packet lies less than one turn of the circle after b.
From(list, b) == \A id \in IdsOf(list) : b <= id /\ id < b + SeqSpace

\* An element of a list, as a member of the sets made from it.
LEMMA ElementOf ==
  ASSUME NEW list \in Seq(Packets), NEW i \in DOMAIN list
  PROVE  /\ list[i] \in Packets /\ list[i].id \in Nat
         /\ list[i] \in Range(list) /\ list[i].id \in IdsOf(list)
  <1>1. list[i] \in Packets
    OBVIOUS
  <1> QED BY <1>1 DEF Range, IdsOf, Packets

LEMMA IdsOfRange ==
  ASSUME NEW list
  PROVE  IdsOf(list) = {q.id : q \in Range(list)}
  BY DEF IdsOf, Range

\* insert()'s two loop tests are one comparison of positions, wrapped or not.
LEMMA PrecedesIsOlder ==
  ASSUME NEW b \in Int, NEW a \in Int, NEW c \in Int,
         b <= a, a < b + SeqSpace, b < c, c < b + SeqSpace
  PROVE  Precedes(SeqNumOf(a), SeqNumOf(c), SeqNumOf(b)) <=> a < c
  <1>1. /\ SeqNumOf(a) \in SeqNums /\ SeqNumOf(b) \in SeqNums
        /\ SeqNumOf(c) \in SeqNums /\ SeqSpace \in Nat
    BY SeqNumOfType, SeqNumAssumption
  <1>2. Distance(SeqNumOf(b), SeqNumOf(a)) = a - b
    BY <1>1, DistanceOf
  <1>3. Distance(SeqNumOf(b), SeqNumOf(c)) = c - b
    BY <1>1, DistanceOf
  <1> QED BY <1>1, <1>2, <1>3 DEF Precedes, Distance, SeqNums

\* What insert() accepts: the positions b + 1 .. b + RecvWindow - 1.
LEMMA InsertableIsWindow ==
  ASSUME NEW b \in Int, NEW n \in Int, b <= n, n < b + SeqSpace
  PROVE  Insertable(SeqNumOf(n), SeqNumOf(b)) <=> b < n /\ n < b + RecvWindow
  <1>1. /\ SeqNumOf(n) \in SeqNums /\ SeqNumOf(b) \in SeqNums
        /\ SeqSpace \in Nat /\ RecvWindow \in 1 .. SeqSpace - 1
    BY SeqNumOfType, SeqNumAssumption
  <1>2. Distance(SeqNumOf(b), SeqNumOf(n)) = n - b
    BY <1>1, DistanceOf
  <1>3. SeqInWindow(SeqNumOf(n), SeqNumOf(b), RecvWindow) <=> n - b < RecvWindow
    BY <1>1, <1>2, WindowIsDistance
  <1>4. SeqNumOf(n) # SeqNumOf(b) <=> n # b
    BY <1>1, SeqNumInjective
  <1> QED BY <1>1, <1>3, <1>4 DEF Insertable

(***************************************************************************)
(* insert() keeps a list in order of age, with the wrap anywhere in it,    *)
(* loses no packet of it, and lets in exactly the packets of the window.   *)
(***************************************************************************)
THEOREM InsertKeepsOrder ==
  ASSUME NEW b \in Int, NEW list \in Seq(Packets), NEW p \in Packets,
         SeqsMatch(list), From(list, b), Ascending(list),
         p.seq = SeqNumOf(p.id), b <= p.id, p.id < b + SeqSpace
  PROVE  LET new == InsertPacket(list, p, SeqNumOf(b))
         IN  /\ new \in Seq(Packets) /\ SeqsMatch(new)
             /\ IdsOf(list) \subseteq IdsOf(new)
             /\ IdsOf(new) \subseteq IdsOf(list) \cup {p.id}
             /\ b < p.id /\ p.id < b + RecvWindow => p.id \in IdsOf(new)
             /\ Ascending(new)
  <1> DEFINE next == SeqNumOf(b)
             new == InsertPacket(list, p, next)
             i == InsertPosition(list, p.seq, next)
             present == i <= Len(list) /\ list[i].seq = p.seq
  <1>0. SeqSpace \in Nat /\ p.id \in Nat
    BY SeqNumAssumption DEF Packets
  <1>a. \A j \in DOMAIN list :
          /\ list[j].id \in Nat /\ list[j].seq = SeqNumOf(list[j].id)
          /\ b <= list[j].id /\ list[j].id < b + SeqSpace
    BY ElementOf DEF SeqsMatch, From
  <1>1. /\ new \in Seq(Packets)
        /\ Range(list) \subseteq Range(new)
        /\ Range(new) \subseteq Range(list) \cup {p}
        /\ Insertable(p.seq, next) => \E q \in Range(new) : q.seq = p.seq
    <2> HIDE DEF next
    <2> QED BY InsertPacketSet
  <1>2. SeqsMatch(new)
    BY <1>1 DEF SeqsMatch
  <1>3. IdsOf(list) \subseteq IdsOf(new) /\ IdsOf(new) \subseteq IdsOf(list) \cup {p.id}
    BY <1>1, IdsOfRange
  <1>4. ASSUME b < p.id, p.id < b + RecvWindow
        PROVE  p.id \in IdsOf(new)
    <2>1. Insertable(p.seq, next)
      BY <1>0, <1>4, InsertableIsWindow
    <2>2. PICK q \in Range(new) : q.seq = p.seq
      BY <1>1, <2>1
    <2>3. q.id \in IdsOf(new)
      BY IdsOfRange
    <2>4. CASE q = p
      BY <2>3, <2>4
    <2>5. CASE q \in Range(list)
      <3>1. PICK j \in DOMAIN list : q = list[j]
        BY <2>5 DEF Range
      <3>2. SeqNumOf(list[j].id) = SeqNumOf(p.id)
        BY <1>a, <2>2, <3>1
      <3>3. list[j].id = p.id
        BY <1>0, <1>a, <3>2, SeqNumInjective
      <3> QED BY <2>3, <3>1, <3>3
    <2> QED BY <1>1, <2>4, <2>5
  <1>5. Ascending(new)
    <2>1. /\ i \in 1 .. Len(list) + 1
          /\ \A j \in 1 .. i - 1 : Precedes(list[j].seq, p.seq, next)
          /\ i <= Len(list) => ~Precedes(list[i].seq, p.seq, next)
      BY InsertPositionProperties
    <2>2. CASE ~Insertable(p.seq, next) \/ present
      BY <2>2 DEF InsertPacket
    <2>3. CASE Insertable(p.seq, next) /\ ~present
      <3>p. i \in 1 .. Len(list) + 1
        BY <2>1
      <3>1. new = InsertAt(list, i, p)
        BY <2>3 DEF InsertPacket
      <3>2. b < p.id
        BY <1>0, <2>3, InsertableIsWindow
      <3>3. \A j \in DOMAIN list :
              Precedes(list[j].seq, p.seq, next) <=> list[j].id < p.id
        BY <1>0, <1>a, <3>2, PrecedesIsOlder
      <3>4. \A j \in 1 .. i - 1 : list[j].id < p.id
        BY <2>1, <3>3
      <3>5. i <= Len(list) => p.id < list[i].id
        BY <1>0, <1>a, <2>1, <2>3, <3>3
      <3>6. \A j \in DOMAIN list : j >= i => p.id < list[j].id
        <4>1. SUFFICES ASSUME NEW j \in DOMAIN list, j >= i
                       PROVE  p.id < list[j].id
          OBVIOUS
        <4>2. i \in DOMAIN list /\ p.id < list[i].id
          BY <3>p, <3>5, <4>1
        <4>3. CASE j = i
          BY <4>2, <4>3
        <4>4. CASE j > i
          <5>1. list[i].id < list[j].id
            BY <4>2, <4>4 DEF Ascending
          <5> QED BY <1>0, <1>a, <4>2, <5>1
        <4> QED BY <3>p, <4>1, <4>3, <4>4
      <3> HIDE DEF new, i, present
      <3>7. /\ Len(new) = Len(list) + 1
            /\ \A j \in 1 .. Len(list) + 1 :
                 new[j] = IF j < i THEN list[j] ELSE IF j = i THEN p ELSE list[j - 1]
        BY <3>p, <3>1, InsertAtProperties
      <3>8. SUFFICES ASSUME NEW j \in 1 .. Len(list) + 1, NEW k \in 1 .. Len(list) + 1,
                            j < k
                     PROVE  new[j].id < new[k].id
        BY <1>1, <3>7 DEF Ascending, new
      <3>9. CASE k < i
        BY <2>1, <3>7, <3>8, <3>9 DEF Ascending
      <3>10. CASE k = i
        BY <2>1, <3>4, <3>7, <3>8, <3>10
      <3>11. CASE k > i /\ j < i
        <4>1. new[j] = list[j] /\ new[k] = list[k - 1] /\ k - 1 \in DOMAIN list
              /\ j \in DOMAIN list /\ j < k - 1
          BY <2>1, <3>7, <3>8, <3>11
        <4> QED BY <4>1 DEF Ascending
      <3>12. CASE k > i /\ j = i
        <4>1. new[j] = p /\ new[k] = list[k - 1] /\ k - 1 \in DOMAIN list /\ k - 1 >= i
          BY <2>1, <3>7, <3>8, <3>12
        <4> QED BY <3>6, <4>1
      <3>13. CASE j > i
        <4>1. new[j] = list[j - 1] /\ new[k] = list[k - 1] /\ j - 1 < k - 1
              /\ j - 1 \in DOMAIN list /\ k - 1 \in DOMAIN list
          BY <2>1, <3>7, <3>8, <3>13
        <4> QED BY <4>1 DEF Ascending
      <3> QED BY <2>1, <3>8, <3>9, <3>10, <3>11, <3>12, <3>13
    <2> QED BY <2>2, <2>3
  <1> QED BY <1>1, <1>2, <1>3, <1>4, <1>5

-----------------------------------------------------------------------------
(***************************************************************************)
(* Taking packets out.                                                     *)
(***************************************************************************)

\* A list with one element removed: what is left, and in which order.
LEMMA RemoveAtKeepsOrder ==
  ASSUME NEW list \in Seq(Packets), NEW i \in 1 .. Len(list), Ascending(list)
  PROVE  LET new == RemoveAt(list, i)
         IN  /\ new \in Seq(Packets)
             /\ Range(new) \subseteq Range(list)
             /\ Range(list) \subseteq Range(new) \cup {list[i]}
             /\ Ascending(new)
  <1> DEFINE new == RemoveAt(list, i)
  <1>1. /\ new \in Seq(Packets) /\ Len(new) = Len(list) - 1
        /\ \A j \in 1 .. Len(list) - 1 :
             new[j] = IF j < i THEN list[j] ELSE list[j + 1]
    BY RemoveAtProperties
  <1> HIDE DEF new
  <1>2. Range(new) \subseteq Range(list)
    <2>1. ASSUME NEW j \in DOMAIN new
          PROVE  \E k \in DOMAIN list : new[j] = list[k]
      BY <1>1
    <2> QED BY <2>1 DEF Range
  <1>3. Range(list) \subseteq Range(new) \cup {list[i]}
    <2>1. ASSUME NEW k \in DOMAIN list, k # i
          PROVE  \E j \in DOMAIN new : new[j] = list[k]
      <3>1. CASE k < i
        BY <1>1, <3>1
      <3>2. CASE k > i
        <4>1. k - 1 \in DOMAIN new /\ new[k - 1] = list[k]
          BY <1>1, <3>2
        <4> QED BY <4>1
      <3> QED BY <2>1, <3>1, <3>2
    <2> QED BY <2>1 DEF Range
  <1>4. Ascending(new)
    <2>1. SUFFICES ASSUME NEW j \in 1 .. Len(list) - 1, NEW k \in 1 .. Len(list) - 1,
                          j < k
                   PROVE  new[j].id < new[k].id
      BY <1>1 DEF Ascending
    <2>2. PICK x \in DOMAIN list, y \in DOMAIN list :
            x < y /\ new[j] = list[x] /\ new[k] = list[y]
      <3>1. CASE k < i
        <4>1. /\ j \in DOMAIN list /\ k \in DOMAIN list
              /\ new[j] = list[j] /\ new[k] = list[k]
          BY <1>1, <2>1, <3>1
        <4> QED BY <2>1, <4>1
      <3>2. CASE j < i /\ k >= i
        <4>1. /\ j \in DOMAIN list /\ k + 1 \in DOMAIN list /\ j < k + 1
              /\ new[j] = list[j] /\ new[k] = list[k + 1]
          BY <1>1, <2>1, <3>2
        <4> QED BY <4>1
      <3>3. CASE j >= i
        <4>1. /\ j + 1 \in DOMAIN list /\ k + 1 \in DOMAIN list /\ j + 1 < k + 1
              /\ new[j] = list[j + 1] /\ new[k] = list[k + 1]
          BY <1>1, <2>1, <3>3
        <4> QED BY <4>1
      <3> QED BY <2>1, <3>1, <3>2, <3>3
    <2> QED BY <2>2 DEF Ascending
  <1> QED BY <1>1, <1>2, <1>3, <1>4 DEF new

\* The front taken off a list.
LEMMA TailKeepsOrder ==
  ASSUME NEW list \in Seq(Packets), list # <<>>, Ascending(list)
  PROVE  /\ Tail(list) \in Seq(Packets)
         /\ Range(Tail(list)) \subseteq Range(list)
         /\ Range(list) \subseteq Range(Tail(list)) \cup {list[1]}
         /\ Ascending(Tail(list))
  <1> DEFINE new == Tail(list)
  <1>1. /\ new \in Seq(Packets) /\ Len(new) = Len(list) - 1 /\ Len(list) >= 1
        /\ \A j \in 1 .. Len(list) - 1 : new[j] = list[j + 1]
    OBVIOUS
  <1> HIDE DEF new
  <1>2. Range(new) \subseteq Range(list)
    <2>1. \A j \in DOMAIN new : j + 1 \in DOMAIN list /\ new[j] = list[j + 1]
      BY <1>1
    <2> QED BY <2>1 DEF Range
  <1>3. Range(list) \subseteq Range(new) \cup {list[1]}
    <2>1. \A k \in DOMAIN list : k # 1 => k - 1 \in DOMAIN new /\ new[k - 1] = list[k]
      BY <1>1
    <2> QED BY <2>1 DEF Range
  <1>4. Ascending(new)
    <2>1. \A j, k \in DOMAIN new :
            j < k => /\ j + 1 \in DOMAIN list /\ k + 1 \in DOMAIN list /\ j + 1 < k + 1
                     /\ new[j] = list[j + 1] /\ new[k] = list[k + 1]
      BY <1>1
    <2> QED BY <2>1 DEF Ascending
  <1> QED BY <1>1, <1>2, <1>3, <1>4 DEF new

\* Whatever popSeqnum() does, the list holds packets afterwards.
LEMMA PopSeqnumType ==
  ASSUME NEW list \in Seq(Packets), NEW s
  PROVE  PopSeqnum(list, s) \in Seq(Packets)
  <1> DEFINE at == PositionsOf(list, s)
             i == CHOOSE x \in at : \A j \in at : x <= j
  <1>1. CASE at = {}
    BY <1>1 DEF PopSeqnum
  <1>2. CASE at # {}
    <2>1. at \subseteq Nat
      BY DEF PositionsOf
    <2>2. i \in at
      BY <1>2, <2>1, LeastNat
    <2>3. PopSeqnum(list, s) = RemoveAt(list, i)
      BY <1>2 DEF PopSeqnum
    <2> HIDE DEF i
    <2>4. i \in 1 .. Len(list)
      BY <2>2 DEF PositionsOf
    <2> QED BY <2>3, <2>4, RemoveAtProperties
  <1> QED BY <1>1, <1>2

(***************************************************************************)
(* popSeqnum() takes out a packet with that number and no other.           *)
(***************************************************************************)
THEOREM PopKeepsTheRest ==
  ASSUME NEW list \in Seq(Packets), NEW s, Ascending(list)
  PROVE  LET new == PopSeqnum(list, s)
         IN  /\ new \in Seq(Packets)
             /\ Range(new) \subseteq Range(list)
             /\ \A q \in Range(list) : q.seq # s => q \in Range(new)
             /\ Ascending(new)
  <1> DEFINE new == PopSeqnum(list, s)
             at == PositionsOf(list, s)
  <1>1. CASE at = {}
    <2>1. new = list
      BY <1>1 DEF PopSeqnum
    <2> QED BY <2>1
  <1>2. CASE at # {}
    <2> DEFINE i == CHOOSE x \in at : \A j \in at : x <= j
    <2>1. at \subseteq Nat
      BY DEF PositionsOf
    <2>2. \E x \in at : \A y \in at : x <= y
      BY <1>2, <2>1, LeastNat
    <2>3. i \in at
      BY <2>2
    <2>4. new = RemoveAt(list, i)
      BY <1>2 DEF PopSeqnum
    <2> HIDE DEF i, new
    <2>5. i \in 1 .. Len(list) /\ list[i].seq = s
      BY <2>3 DEF PositionsOf
    <2>6. /\ new \in Seq(Packets)
          /\ Range(new) \subseteq Range(list)
          /\ Range(list) \subseteq Range(new) \cup {list[i]}
          /\ Ascending(new)
      BY <2>4, <2>5, RemoveAtKeepsOrder
    <2> QED BY <2>5, <2>6 DEF new
  <1> QED BY <1>1, <1>2

-----------------------------------------------------------------------------
(***************************************************************************)
(* A buffer in use is an OrderedWindow.  Here a packet is its number: that *)
(* it stays in order is shown for any numbers that are offered, not only   *)
(* for those of a stream.                                                  *)
(***************************************************************************)

Numbered == [seq : SeqNums]
NumbersOf(list) == {list[i].seq : i \in DOMAIN list}

\* SortedFromBase, of any list and base.
SortedFrom(list, b) == \A i, j \in DOMAIN list :
  i < j => Distance(b, list[i].seq) < Distance(b, list[j].seq)

\* What a buffer holds is at most a window away from its base.
InWindowOf(list, b) == \A i \in DOMAIN list : Distance(b, list[i].seq) < RecvWindow

BufferInv ==
  /\ m_list \in Seq(Numbered) /\ next_expected \in SeqNums
  /\ SortedFrom(m_list, next_expected) /\ InWindowOf(m_list, next_expected)

\* An element of such a list.
LEMMA NumberAt ==
  ASSUME NEW list \in Seq(Numbered), NEW i \in DOMAIN list
  PROVE  list[i].seq \in SeqNums
  <1>1. list[i] \in Numbered
    OBVIOUS
  <1> QED BY <1>1 DEF Numbered

LEMMA DistanceType ==
  ASSUME NEW s \in SeqNums, NEW b \in SeqNums
  PROVE  /\ Distance(b, s) \in 0 .. SeqSpace - 1
         /\ Distance(b, s) = 0 <=> s = b
  BY SeqNumAssumption DEF Distance, SeqNums

\* Two numbers that are equally far away are one.
LEMMA DistanceInjective ==
  ASSUME NEW s \in SeqNums, NEW t \in SeqNums, NEW b \in SeqNums,
         Distance(b, s) = Distance(b, t)
  PROVE  s = t
  BY SeqNumAssumption DEF Distance, SeqNums

\* insert()'s two loop tests are one comparison of distances, wrapped or not.
LEMMA PrecedesIsCloser ==
  ASSUME NEW s \in SeqNums, NEW t \in SeqNums, NEW b \in SeqNums
  PROVE  Precedes(s, t, b) <=> Distance(b, s) < Distance(b, t)
  BY SeqNumAssumption DEF Precedes, Distance, SeqNums

\* What insert() lets in.
LEMMA InsertableIsClose ==
  ASSUME NEW s \in SeqNums, NEW b \in SeqNums
  PROVE  Insertable(s, b) <=> Distance(b, s) \in 1 .. RecvWindow - 1
  <1>1. RecvWindow \in 1 .. SeqSpace - 1
    BY SeqNumAssumption
  <1>2. SeqInWindow(s, b, RecvWindow) <=> Distance(b, s) < RecvWindow
    BY <1>1, WindowIsDistance
  <1>3. Distance(b, s) \in 0 .. SeqSpace - 1 /\ (Distance(b, s) = 0 <=> s = b)
    BY DistanceType
  <1>4. RecvWindow \in Nat /\ SeqSpace \in Nat
    BY SeqNumAssumption
  <1> QED BY <1>2, <1>3, <1>4 DEF Insertable

\* A step of the base brings everything but the base itself nearer by one.
LEMMA DistanceAfterStep ==
  ASSUME NEW s \in SeqNums, NEW b \in SeqNums, s # b
  PROVE  Distance(SeqAdd(b, 1), s) = Distance(b, s) - 1
  <1>1. CASE b + 1 < SeqSpace
    <2>1. b + 1 \in SeqNums /\ b + 1 \in Int /\ b + 1 = SeqSpace * 0 + (b + 1)
      BY <1>1, SeqNumAssumption DEF SeqNums
    <2>2. SeqAdd(b, 1) = b + 1
      BY <2>1, ModIs DEF SeqAdd
    <2> QED BY <1>1, <2>2, SeqNumAssumption DEF Distance, SeqNums
  <1>2. CASE b + 1 = SeqSpace
    <2>1. 0 \in SeqNums /\ b + 1 \in Int /\ b + 1 = SeqSpace * 1 + 0
      BY <1>2, SeqNumAssumption DEF SeqNums
    <2>2. SeqAdd(b, 1) = 0
      BY <2>1, ModIs DEF SeqAdd
    <2> QED BY <1>2, <2>2, SeqNumAssumption DEF Distance, SeqNums
  <1> QED BY <1>1, <1>2, SeqNumAssumption DEF SeqNums

(***************************************************************************)
(* insert() keeps the distances ascending, and lets in what lies in the    *)
(* open window and nothing else.                                           *)
(***************************************************************************)
LEMMA InsertKeepsDistance ==
  ASSUME NEW list \in Seq(Numbered), NEW s \in SeqNums, NEW b \in SeqNums,
         SortedFrom(list, b)
  PROVE  LET new == InsertPacket(list, [seq |-> s], b)
         IN  /\ new \in Seq(Numbered) /\ SortedFrom(new, b)
             /\ NumbersOf(new) =
                  IF Insertable(s, b) THEN NumbersOf(list) \cup {s} ELSE NumbersOf(list)
  <1> DEFINE p == [seq |-> s]
             i == InsertPosition(list, s, b)
             present == i <= Len(list) /\ list[i].seq = s
             new == InsertPacket(list, p, b)
             D(x) == Distance(b, x)
  <1>1. p \in Numbered /\ p.seq = s
    BY DEF Numbered
  <1>2. /\ i \in 1 .. Len(list) + 1
        /\ \A j \in 1 .. i - 1 : Precedes(list[j].seq, s, b)
        /\ i <= Len(list) => ~Precedes(list[i].seq, s, b)
    BY InsertPositionProperties
  <1>3. \A j \in DOMAIN list : /\ list[j].seq \in SeqNums
                               /\ D(list[j].seq) \in Int
    BY NumberAt, DistanceType
  <1>4. D(s) \in Int
    BY DistanceType
  <1>5. CASE ~Insertable(s, b)
    <2>1. new = list
      BY <1>1, <1>5 DEF InsertPacket
    <2> QED BY <2>1, <1>5
  <1>6. CASE Insertable(s, b) /\ present
    <2>1. new = list
      BY <1>1, <1>6 DEF InsertPacket
    <2>2. i \in DOMAIN list /\ list[i].seq = s
      BY <1>2, <1>6
    <2>3. s \in NumbersOf(list)
      BY <2>2 DEF NumbersOf
    <2> QED BY <2>1, <2>3, <1>6
  <1>7. CASE Insertable(s, b) /\ ~present
    <2>1. new = InsertAt(list, i, p)
      BY <1>1, <1>7 DEF InsertPacket
    <2>2. i <= Len(list) => list[i].seq # s
      BY <1>7
    <2> HIDE DEF new, i, present, p
    <2>3. /\ new \in Seq(Numbered) /\ Len(new) = Len(list) + 1
          /\ \A j \in 1 .. Len(list) + 1 :
               new[j] = IF j < i THEN list[j] ELSE IF j = i THEN p ELSE list[j - 1]
      BY <1>1, <1>2, <2>1, InsertAtProperties, SMTT(30)
    <2>4. \A j \in 1 .. i - 1 : D(list[j].seq) < D(s)
      BY <1>2, <1>3, PrecedesIsCloser
    <2>5. i <= Len(list) => D(s) < D(list[i].seq)
      <3> SUFFICES ASSUME i <= Len(list) PROVE D(s) < D(list[i].seq)
        OBVIOUS
      <3>1. i \in DOMAIN list
        BY <1>2
      <3>2. list[i].seq \in SeqNums /\ D(list[i].seq) \in Int
        BY <1>3, <3>1
      <3>3. ~(D(list[i].seq) < D(s))
        BY <1>2, <3>1, <3>2, PrecedesIsCloser
      <3>4. D(list[i].seq) # D(s)
        BY <2>2, <3>2, DistanceInjective
      <3> QED BY <1>4, <3>2, <3>3, <3>4
    <2>6. \A j \in i .. Len(list) : D(s) < D(list[j].seq)
      <3> SUFFICES ASSUME NEW j \in i .. Len(list) PROVE D(s) < D(list[j].seq)
        OBVIOUS
      <3>1. i \in DOMAIN list /\ j \in DOMAIN list /\ i <= Len(list)
        BY <1>2
      <3>2. i < j => D(list[i].seq) < D(list[j].seq)
        BY <3>1 DEF SortedFrom
      <3> HIDE DEF D
      <3> QED BY <1>3, <1>4, <2>5, <3>1, <3>2
    <2>7. \A j, k \in DOMAIN list : j < k => D(list[j].seq) < D(list[k].seq)
      BY DEF SortedFrom
    <2>8. SortedFrom(new, b)
      <3> SUFFICES ASSUME NEW j \in 1 .. Len(list) + 1, NEW k \in 1 .. Len(list) + 1,
                          j < k
                   PROVE  D(new[j].seq) < D(new[k].seq)
        BY <2>3 DEF SortedFrom
      <3> HIDE DEF D
      <3>1. CASE k < i
        BY <1>2, <2>3, <2>7, <3>1
      <3>2. CASE k = i
        <4>1. new[k].seq = s /\ new[j] = list[j] /\ j \in 1 .. i - 1
          BY <1>1, <1>2, <2>3, <3>2
        <4> QED BY <2>4, <4>1
      <3>3. CASE k > i /\ j < i
        <4>1. /\ new[k] = list[k - 1] /\ k - 1 \in i .. Len(list)
              /\ new[j] = list[j] /\ j \in 1 .. i - 1
              /\ j \in DOMAIN list /\ k - 1 \in DOMAIN list /\ j < k - 1
          BY <1>2, <2>3, <3>3
        <4> QED BY <2>7, <4>1
      <3>4. CASE k > i /\ j = i
        <4>1. new[k] = list[k - 1] /\ k - 1 \in i .. Len(list) /\ new[j].seq = s
          BY <1>1, <1>2, <2>3, <3>4
        <4> QED BY <2>6, <4>1
      <3>5. CASE k > i /\ j > i
        <4>1. /\ new[k] = list[k - 1] /\ new[j] = list[j - 1]
              /\ j - 1 \in DOMAIN list /\ k - 1 \in DOMAIN list /\ j - 1 < k - 1
          BY <1>2, <2>3, <3>5
        <4> QED BY <2>7, <4>1
      <3> QED BY <1>2, <3>1, <3>2, <3>3, <3>4, <3>5
    <2>9. NumbersOf(new) = NumbersOf(list) \cup {s}
      <3>1. ASSUME NEW k \in DOMAIN list
            PROVE  \E j \in DOMAIN new : new[j].seq = list[k].seq
        <4>1. CASE k < i
          <5>1. k \in DOMAIN new /\ new[k] = list[k]
            BY <1>2, <2>3, <4>1
          <5> QED BY <5>1
        <4>2. CASE k >= i
          <5>1. k + 1 \in DOMAIN new /\ new[k + 1] = list[k]
            BY <1>2, <2>3, <4>2
          <5> QED BY <5>1
        <4> QED BY <1>2, <4>1, <4>2
      <3>2. ASSUME NEW j \in DOMAIN new
            PROVE  new[j].seq = s \/ \E k \in DOMAIN list : new[j].seq = list[k].seq
        <4>1. CASE j < i
          BY <1>2, <2>3, <4>1
        <4>2. CASE j = i
          BY <1>1, <1>2, <2>3, <4>2
        <4>3. CASE j > i
          <5>1. j - 1 \in DOMAIN list /\ new[j] = list[j - 1]
            BY <1>2, <2>3, <4>3
          <5> QED BY <5>1
        <4> QED BY <1>2, <2>3, <4>1, <4>2, <4>3
      <3>3. i \in DOMAIN new /\ new[i].seq = s
        BY <1>1, <1>2, <2>3
      <3> QED BY <3>1, <3>2, <3>3 DEF NumbersOf
    <2> QED BY <1>7, <2>3, <2>8, <2>9 DEF new, p
  <1> QED BY <1>5, <1>6, <1>7

(***************************************************************************)
(* Taking the element at a position out of a list with ascending distances *)
(* takes its number out of the set, as no number is in it twice.           *)
(***************************************************************************)
TakenOut(list, i, new) ==
  /\ Len(new) = Len(list) - 1
  /\ \A j \in 1 .. Len(list) - 1 : new[j] = IF j < i THEN list[j] ELSE list[j + 1]

LEMMA RemoveKeepsDistance ==
  ASSUME NEW list \in Seq(Numbered), NEW b \in SeqNums, SortedFrom(list, b),
         NEW new \in Seq(Numbered), NEW i \in 1 .. Len(list), TakenOut(list, i, new)
  PROVE  /\ SortedFrom(new, b)
         /\ NumbersOf(new) = NumbersOf(list) \ {list[i].seq}
  <1> DEFINE D(x) == Distance(b, x)
  <1>1. \A j \in DOMAIN list : list[j].seq \in SeqNums /\ D(list[j].seq) \in Int
    BY NumberAt, DistanceType
  <1>2. \A j, k \in DOMAIN list : j < k => D(list[j].seq) < D(list[k].seq)
    BY DEF SortedFrom
  <1>3. ASSUME NEW j \in DOMAIN new
        PROVE  LET x == IF j < i THEN j ELSE j + 1
               IN x \in DOMAIN list /\ x # i /\ new[j] = list[x]
    <2>1. j \in 1 .. Len(list) - 1
      BY DEF TakenOut
    <2> QED BY <2>1 DEF TakenOut
  <1>4. SortedFrom(new, b)
    <2> SUFFICES ASSUME NEW j \in DOMAIN new, NEW k \in DOMAIN new, j < k
                 PROVE  D(new[j].seq) < D(new[k].seq)
      BY DEF SortedFrom
    <2> HIDE DEF D
    <2> DEFINE x == IF j < i THEN j ELSE j + 1
               y == IF k < i THEN k ELSE k + 1
    <2>1. x \in DOMAIN list /\ y \in DOMAIN list /\ new[j] = list[x] /\ new[k] = list[y]
      BY <1>3
    <2>2. x < y
      OBVIOUS
    <2> QED BY <1>2, <2>1, <2>2
  <1>5. \A j \in DOMAIN list : j # i => list[j].seq # list[i].seq
    <2> HIDE DEF D
    <2> QED BY <1>1, <1>2
  <1>6. ASSUME NEW k \in DOMAIN list, k # i
        PROVE  \E j \in DOMAIN new : new[j].seq = list[k].seq
    <2>1. CASE k < i
      <3>1. k \in DOMAIN new /\ new[k] = list[k]
        BY <2>1 DEF TakenOut
      <3> QED BY <3>1
    <2>2. CASE k > i
      <3>1. k - 1 \in DOMAIN new /\ new[k - 1] = list[k]
        BY <2>2 DEF TakenOut
      <3> QED BY <3>1
    <2> QED BY <1>6, <2>1, <2>2
  <1>7. ASSUME NEW j \in DOMAIN new
        PROVE  \E k \in DOMAIN list : k # i /\ new[j].seq = list[k].seq
    <2>1. PICK x \in DOMAIN list : x # i /\ new[j] = list[x]
      BY <1>3
    <2> QED BY <2>1
  <1>8. NumbersOf(new) = NumbersOf(list) \ {list[i].seq}
    <2>1. \A n : n \in NumbersOf(new) => n \in NumbersOf(list) /\ n # list[i].seq
      BY <1>5, <1>7 DEF NumbersOf
    <2>2. \A n : n \in NumbersOf(list) /\ n # list[i].seq => n \in NumbersOf(new)
      BY <1>6 DEF NumbersOf
    <2> QED BY <2>1, <2>2
  <1> QED BY <1>4, <1>8

\* popSeqnum(), of a number that is in the list.
LEMMA PopKeepsDistance ==
  ASSUME NEW list \in Seq(Numbered), NEW b \in SeqNums, SortedFrom(list, b),
         NEW s, PositionsOf(list, s) # {}
  PROVE  /\ PopSeqnum(list, s) \in Seq(Numbered) /\ SortedFrom(PopSeqnum(list, s), b)
         /\ NumbersOf(PopSeqnum(list, s)) = NumbersOf(list) \ {s}
         /\ s \in NumbersOf(list)
  <1> DEFINE at == PositionsOf(list, s)
             i == CHOOSE x \in at : \A j \in at : x <= j
             new == PopSeqnum(list, s)
  <1>1. at \subseteq Nat
    BY DEF PositionsOf
  <1>2. \E x \in at : \A y \in at : x <= y
    BY <1>1, LeastNat
  <1>3. i \in at
    BY <1>2
  <1>4. new = RemoveAt(list, i)
    BY DEF PopSeqnum
  <1> HIDE DEF i, new
  <1>5. i \in 1 .. Len(list) /\ list[i].seq = s
    BY <1>3 DEF PositionsOf
  <1>6. new \in Seq(Numbered) /\ TakenOut(list, i, new)
    BY <1>4, <1>5, RemoveAtProperties DEF TakenOut
  <1>7. SortedFrom(new, b) /\ NumbersOf(new) = NumbersOf(list) \ {s}
    BY <1>5, <1>6, RemoveKeepsDistance
  <1>8. s \in NumbersOf(list)
    BY <1>5 DEF NumbersOf
  <1> QED BY <1>6, <1>7, <1>8 DEF new

\* When the base moves on, it can only have been the front.
LEMMA FrontIsBase ==
  ASSUME NEW list \in Seq(Numbered), NEW b \in SeqNums, SortedFrom(list, b),
         b \in NumbersOf(list)
  PROVE  list # <<>> /\ FirstSeqnum(list) = b
  <1>1. PICK i \in DOMAIN list : list[i].seq = b
    BY DEF NumbersOf
  <1>2. 1 \in DOMAIN list /\ i \in Nat /\ 1 <= i /\ list # <<>>
    BY <1>1
  <1>3. list[1].seq \in SeqNums
    BY <1>2, NumberAt
  <1>4. Distance(b, list[1].seq) \in Nat /\ Distance(b, b) = 0
    BY <1>3, DistanceType
  <1>5. 1 < i => Distance(b, list[1].seq) < Distance(b, list[i].seq)
    BY <1>1, <1>2 DEF SortedFrom
  <1>6. i = 1
    BY <1>1, <1>2, <1>4, <1>5
  <1> QED BY <1>1, <1>2, <1>6 DEF FirstSeqnum

\* What Advance leaves: the base is gone, the rest is one nearer.
LEMMA AdvanceKeepsDistance ==
  ASSUME NEW list \in Seq(Numbered), NEW b \in SeqNums, SortedFrom(list, b),
         InWindowOf(list, b)
  PROVE  LET new == IF list # <<>> /\ FirstSeqnum(list) = b THEN Tail(list) ELSE list
             next == SeqAdd(b, 1)
         IN  /\ new \in Seq(Numbered) /\ next \in SeqNums
             /\ SortedFrom(new, next) /\ InWindowOf(new, next)
             /\ NumbersOf(new) = NumbersOf(list) \ {b}
  <1> DEFINE new == IF list # <<>> /\ FirstSeqnum(list) = b THEN Tail(list) ELSE list
             next == SeqAdd(b, 1)
  <1>1. next \in SeqNums
    BY SeqAddType
  <1>2. /\ new \in Seq(Numbered) /\ SortedFrom(new, b)
        /\ NumbersOf(new) = NumbersOf(list) \ {b}
    <2>1. CASE list # <<>> /\ FirstSeqnum(list) = b
      <3>1. Tail(list) \in Seq(Numbered) /\ 1 \in 1 .. Len(list)
            /\ TakenOut(list, 1, Tail(list))
        BY <2>1 DEF TakenOut
      <3>2. /\ SortedFrom(Tail(list), b)
            /\ NumbersOf(Tail(list)) = NumbersOf(list) \ {list[1].seq}
        BY <3>1, RemoveKeepsDistance
      <3> QED BY <2>1, <3>1, <3>2 DEF FirstSeqnum
    <2>2. CASE ~(list # <<>> /\ FirstSeqnum(list) = b)
      <3>1. b \notin NumbersOf(list)
        BY <2>2, FrontIsBase
      <3> QED BY <2>2, <3>1
    <2> QED BY <2>1, <2>2
  <1> HIDE DEF new, next
  <1>3. \A i \in DOMAIN new : /\ new[i].seq \in NumbersOf(list) /\ new[i].seq # b
                              /\ new[i].seq \in SeqNums
    <2>1. \A i \in DOMAIN new : new[i].seq \in NumbersOf(new)
      BY DEF NumbersOf
    <2>2. \A i \in DOMAIN new : new[i].seq \in SeqNums
      BY <1>2, NumberAt
    <2> QED BY <1>2, <2>1, <2>2
  <1>4. \A i \in DOMAIN new :
          /\ Distance(next, new[i].seq) = Distance(b, new[i].seq) - 1
          /\ Distance(b, new[i].seq) \in Int
    BY <1>3, DistanceAfterStep, DistanceType DEF next
  <1>5. \A n \in NumbersOf(list) : Distance(b, n) < RecvWindow
    BY DEF NumbersOf, InWindowOf
  <1>6. SortedFrom(new, next)
    <2>1. \A i, j \in DOMAIN new :
            i < j => Distance(b, new[i].seq) < Distance(b, new[j].seq)
      BY <1>2 DEF SortedFrom
    <2>2. \A i, j \in DOMAIN new :
            i < j => Distance(next, new[i].seq) < Distance(next, new[j].seq)
      BY <1>4, <2>1
    <2> QED BY <2>2 DEF SortedFrom
  <1>7. InWindowOf(new, next)
    <2>1. RecvWindow \in Int
      BY SeqNumAssumption
    <2>2. \A i \in DOMAIN new : Distance(next, new[i].seq) < RecvWindow
      BY <1>3, <1>4, <1>5, <2>1
    <2> QED BY <2>2 DEF InWindowOf
  <1> QED BY <1>1, <1>2, <1>6, <1>7 DEF new, next

-----------------------------------------------------------------------------
\* One insertion.
LEMMA InsertStep ==
  ASSUME BufferInv, NEW s \in SeqNums, Insert(s)
  PROVE  BufferInv' /\ [Window!Next]_<<NumbersOf(m_list), next_expected>>
  <1> DEFINE new == InsertPacket(m_list, [seq |-> s], next_expected)
  <1>1. m_list' = new /\ next_expected' = next_expected
    BY DEF Insert
  <1>2. /\ new \in Seq(Numbered) /\ SortedFrom(new, next_expected)
        /\ NumbersOf(new) = IF Insertable(s, next_expected)
                            THEN NumbersOf(m_list) \cup {s} ELSE NumbersOf(m_list)
    BY InsertKeepsDistance DEF BufferInv
  <1> HIDE DEF new
  <1>3. next_expected \in SeqNums
    BY DEF BufferInv
  <1>4. Insertable(s, next_expected) <=>
          Distance(next_expected, s) \in 1 .. RecvWindow - 1
    BY <1>3, InsertableIsClose
  <1>5. RecvWindow \in Int
    BY SeqNumAssumption
  <1>6. InWindowOf(new, next_expected)
    <2>1. \A n \in NumbersOf(new) :
            n \in NumbersOf(m_list) \/ (n = s /\ Insertable(s, next_expected))
      BY <1>2
    <2>2. \A n \in NumbersOf(m_list) : Distance(next_expected, n) < RecvWindow
      BY DEF NumbersOf, BufferInv, InWindowOf
    <2>3. \A n \in NumbersOf(new) : Distance(next_expected, n) < RecvWindow
      BY <1>4, <1>5, <2>1, <2>2
    <2> QED BY <2>3 DEF InWindowOf, NumbersOf
  <1>7. BufferInv'
    BY <1>1, <1>2, <1>3, <1>6 DEF BufferInv
  <1>8. NumbersOf(m_list)' = NumbersOf(new)
    BY <1>1 DEF NumbersOf
  <1>9. CASE Insertable(s, next_expected)
    <2>1. Window!Insert
      BY <1>1, <1>2, <1>4, <1>8, <1>9
         DEF Window!Insert, NumbersOf, SeqNums, Window!SeqNums, Distance, Window!Distance
    <2> QED BY <1>7, <2>1 DEF Window!Next
  <1>10. CASE ~Insertable(s, next_expected)
    BY <1>1, <1>2, <1>7, <1>8, <1>10
  <1> QED BY <1>9, <1>10

LEMMA PopStep ==
  ASSUME BufferInv, NEW s \in SeqNums, Pop(s)
  PROVE  BufferInv' /\ Window!Next
  <1> DEFINE new == PopSeqnum(m_list, s)
  <1>1. m_list' = new /\ next_expected' = next_expected /\ PositionsOf(m_list, s) # {}
    BY DEF Pop
  <1>2. /\ new \in Seq(Numbered) /\ SortedFrom(new, next_expected)
        /\ NumbersOf(new) = NumbersOf(m_list) \ {s} /\ s \in NumbersOf(m_list)
    BY <1>1, PopKeepsDistance DEF BufferInv
  <1> HIDE DEF new
  <1>3. InWindowOf(new, next_expected)
    <2>1. \A n \in NumbersOf(m_list) : Distance(next_expected, n) < RecvWindow
      BY DEF NumbersOf, BufferInv, InWindowOf
    <2>2. \A n \in NumbersOf(new) : Distance(next_expected, n) < RecvWindow
      BY <1>2, <2>1
    <2> QED BY <2>2 DEF InWindowOf, NumbersOf
  <1>4. BufferInv'
    BY <1>1, <1>2, <1>3 DEF BufferInv
  <1>5. NumbersOf(m_list)' = NumbersOf(new)
    BY <1>1 DEF NumbersOf
  <1>6. Window!Pop
    BY <1>1, <1>2, <1>5 DEF Window!Pop, NumbersOf
  <1> QED BY <1>4, <1>6 DEF Window!Next

LEMMA AdvanceStep ==
  ASSUME BufferInv, Advance
  PROVE  BufferInv' /\ Window!Next
  <1> DEFINE new == IF m_list # <<>> /\ FirstSeqnum(m_list) = next_expected
                    THEN Tail(m_list) ELSE m_list
             next == SeqAdd(next_expected, 1)
  <1>1. m_list' = new /\ next_expected' = next
    BY DEF Advance
  <1>2. /\ new \in Seq(Numbered) /\ next \in SeqNums
        /\ SortedFrom(new, next) /\ InWindowOf(new, next)
        /\ NumbersOf(new) = NumbersOf(m_list) \ {next_expected}
    BY AdvanceKeepsDistance DEF BufferInv
  <1> HIDE DEF new
  <1>3. BufferInv'
    BY <1>1, <1>2 DEF BufferInv
  <1>4. NumbersOf(m_list)' = NumbersOf(new)
    BY <1>1 DEF NumbersOf
  <1>5. Window!Advance
    BY <1>1, <1>2, <1>4 DEF Window!Advance, NumbersOf, SeqAdd, Window!SeqAdd
  <1> QED BY <1>3, <1>5 DEF Window!Next

LEMMA BufferStep ==
  ASSUME BufferInv, [BufferNext]_bufferVars
  PROVE  BufferInv' /\ [Window!Next]_<<NumbersOf(m_list), next_expected>>
  <1>1. CASE UNCHANGED bufferVars
    BY <1>1 DEF bufferVars, BufferInv, SortedFrom, InWindowOf, NumbersOf
  <1>2. CASE BufferNext
    BY <1>2, InsertStep, PopStep, AdvanceStep DEF BufferNext
  <1> QED BY <1>1, <1>2

LEMMA BufferStart == BufferInit => BufferInv /\ Window!Init
  <1> SUFFICES ASSUME BufferInit PROVE BufferInv /\ Window!Init
    OBVIOUS
  <1>1. m_list = <<>> /\ next_expected = SeqInitial /\ SeqInitial \in SeqNums
    BY SeqNumAssumption DEF BufferInit, SeqNums
  <1>2. m_list \in Seq(Numbered) /\ DOMAIN m_list = {}
    BY <1>1
  <1> QED BY <1>1, <1>2 DEF BufferInv, SortedFrom, InWindowOf, Window!Init

\* At any base and whatever numbers are offered, the list is sorted by distance
\* from the base, without duplicates: the front is the number whose turn is next
\* (ReliablePacketBuffer::insert, getFirstSeqnum).
THEOREM BufferIsSorted == BufferSpec => []SortedFromBase
  <1>1. BufferInit => BufferInv
    BY BufferStart
  <1>2. BufferInv /\ [BufferNext]_bufferVars => BufferInv'
    BY BufferStep
  <1>3. BufferInv => SortedFromBase
    BY DEF BufferInv, SortedFrom, SortedFromBase
  <1> QED BY <1>1, <1>2, <1>3, PTL DEF BufferSpec

\* The list implements a set of the numbers of one window: insert() lets in
\* exactly what lies in the open window and drops nothing, popSeqnum() and popFirst()
\* take out one number and no other.
THEOREM BufferIsWindow == BufferSpec => ImplementsWindow
  <1>1. BufferInit => BufferInv
    BY BufferStart
  <1>2. BufferInv /\ [BufferNext]_bufferVars => BufferInv'
    BY BufferStep
  <1>3. BufferInit => Window!Init
    BY BufferStart
  <1>4. BufferInv /\ [BufferNext]_bufferVars =>
          [Window!Next]_<<{m_list[i].seq : i \in DOMAIN m_list}, next_expected>>
    BY BufferStep DEF NumbersOf
  <1> QED BY <1>1, <1>2, <1>3, <1>4, PTL DEF BufferSpec, ImplementsWindow, Window!Spec

-----------------------------------------------------------------------------
(***************************************************************************)
(* The channel.                                                            *)
(***************************************************************************)
Messages == [kind : {"data", "ack"}, seq : SeqNums, id : Nat]

-----------------------------------------------------------------------------
(***************************************************************************)
(* Types.                                                                  *)
(***************************************************************************)

\* The elements of a list without its front.
LEMMA TailRange ==
  ASSUME NEW list \in Seq(Packets), list # <<>>
  PROVE  /\ Range(Tail(list)) \subseteq Range(list)
         /\ Range(list) \subseteq Range(Tail(list)) \cup {list[1]}
  <1>1. \A j \in DOMAIN Tail(list) : j + 1 \in DOMAIN list /\ Tail(list)[j] = list[j + 1]
    OBVIOUS
  <1>2. \A k \in DOMAIN list :
          k # 1 => k - 1 \in DOMAIN Tail(list) /\ Tail(list)[k - 1] = list[k]
    OBVIOUS
  <1> QED BY <1>1, <1>2 DEF Range

\* A command's packets get numbers that follow the last one.
LEMMA NewPacketsType ==
  ASSUME NEW n \in Nat, nextOutgoing \in SeqNums, numbered \in Seq(Nat)
  PROVE  /\ NewPackets(n) \in Seq(Packets)
         /\ Len(NewPackets(n)) = n
         /\ \A k \in 1 .. n : NewPackets(n)[k] =
              [seq |-> SeqAdd(nextOutgoing, k - 1), id |-> Allocated + k - 1]
  <1>1. \A k \in 1 .. n :
          [seq |-> SeqAdd(nextOutgoing, k - 1), id |-> Allocated + k - 1] \in Packets
    <2>1. SUFFICES ASSUME NEW k \in 1 .. n
                   PROVE  /\ SeqAdd(nextOutgoing, k - 1) \in SeqNums
                          /\ Allocated + k - 1 \in Nat
      BY DEF Packets
    <2>2. SeqAdd(nextOutgoing, k - 1) \in SeqNums
      BY SeqAddType
    <2> QED BY <2>2 DEF Allocated
  <1> QED BY <1>1 DEF NewPackets

LEMMA NumberType ==
  ASSUME TypeOK, NEW cmd \in Nat, NEW n \in Nat, Number(cmd, n)
  PROVE  /\ nextOutgoing' \in SeqNums
         /\ numbered' \in Seq(Nat)
         /\ Allocated' = Allocated + n
  <1>1. nextOutgoing' \in SeqNums
    BY SeqAddType DEF TypeOK, Number
  <1>2. [k \in 1 .. n |-> cmd] \in Seq(Nat) /\ Len([k \in 1 .. n |-> cmd]) = n
    OBVIOUS
  <1>3. numbered' = numbered \o [k \in 1 .. n |-> cmd]
    BY DEF Number
  <1> QED BY <1>1, <1>2, <1>3 DEF TypeOK, Allocated

LEMMA HeadAndTail ==
  ASSUME NEW S, NEW s \in Seq(S), s # <<>>
  PROVE  Head(s) \in S /\ Tail(s) \in Seq(S) /\ 1 \in DOMAIN s /\ Head(s) = s[1]
  OBVIOUS

LEMMA TransmitSubset ==
  ASSUME NEW net, NEW m
  PROVE  net \subseteq Transmit(net, m) /\ Transmit(net, m) \subseteq net \cup {m}
  BY DEF Transmit

LEMMA DatagramType ==
  ASSUME NEW p \in [seq : SeqNums, id : Nat]
  PROVE  Data(p) \in Messages
  BY DEF Data, Messages

LEMMA AckType ==
  ASSUME NEW m \in Messages
  PROVE  Ack(m) \in Messages
  BY DEF Ack, Messages

LEMMA InitType == Init => TypeOK
  <1> SUFFICES ASSUME Init PROVE TypeOK
    OBVIOUS
  <1>1. SeqInitial \in SeqNums /\ StartWindow \in MinWindow .. MaxWindow
    BY SeqNumAssumption, ChannelAssumption DEF SeqNums
  <1> QED BY <1>1 DEF Init, TypeOK

(***************************************************************************)
(* Every action keeps the types; the sender's first.                       *)
(***************************************************************************)
LEMMA SubmitType ==
  ASSUME TypeOK, NEW n \in ChunkCounts, SubmitNumbered(n) \/ SubmitQueued(n)
  PROVE  TypeOK'
  <1>1. n \in Nat
    BY ChannelAssumption
  <1>2. CASE SubmitNumbered(n)
    <2>1. submitted' \in Nat
      BY <1>2 DEF TypeOK, SubmitNumbered
    <2>2. nextOutgoing' \in SeqNums /\ numbered' \in Seq(Nat)
      BY <1>1, <1>2, <2>1, NumberType DEF SubmitNumbered
    <2>3. queuedReliables' \in Seq(Packets)
      BY <1>1, <1>2, NewPacketsType DEF TypeOK, SubmitNumbered
    <2>4. network' \subseteq network
      BY <1>2 DEF SubmitNumbered, StillInFlight
    <2> QED BY <1>2, <2>1, <2>2, <2>3, <2>4 DEF TypeOK, SubmitNumbered, receiverVars
  <1>3. CASE SubmitQueued(n)
    <2>1. submitted' \in Nat
      BY <1>3 DEF TypeOK, SubmitQueued
    <2>2. [cmd |-> submitted', chunks |-> n] \in [cmd : Nat, chunks : Nat]
      BY <1>1, <2>1
    <2>3. queuedCommands' \in Seq([cmd : Nat, chunks : Nat])
      BY <1>3, <2>2 DEF TypeOK, SubmitQueued
    <2> QED BY <1>3, <2>1, <2>3 DEF TypeOK, SubmitQueued, receiverVars
  <1> QED BY <1>2, <1>3

LEMMA RunCommandQueuesType ==
  ASSUME TypeOK, RunCommandQueues
  PROVE  TypeOK'
  <1> DEFINE c == Head(queuedCommands)
  <1>0. queuedCommands \in Seq([cmd : Nat, chunks : Nat]) /\ queuedCommands # <<>>
    BY DEF TypeOK, RunCommandQueues
  <1>1. c \in [cmd : Nat, chunks : Nat]
        /\ Tail(queuedCommands) \in Seq([cmd : Nat, chunks : Nat])
    BY <1>0, HeadAndTail
  <1>2. Number(c.cmd, c.chunks)
        /\ queuedReliables' = queuedReliables \o NewPackets(c.chunks)
    BY DEF RunCommandQueues
  <1> HIDE DEF c
  <1>3. nextOutgoing' \in SeqNums /\ numbered' \in Seq(Nat)
    BY <1>1, <1>2, NumberType
  <1>4. queuedReliables' \in Seq(Packets)
    BY <1>1, <1>2, NewPacketsType DEF TypeOK
  <1>5. network' \subseteq network
    BY DEF RunCommandQueues, StillInFlight
  <1> QED BY <1>1, <1>3, <1>4, <1>5 DEF TypeOK, RunCommandQueues, receiverVars

LEMMA SendQueuedType ==
  ASSUME TypeOK, SendQueued
  PROVE  TypeOK'
  <1> DEFINE p == Head(queuedReliables)
  <1>1. p \in Packets /\ Tail(queuedReliables) \in Seq(Packets)
    BY DEF TypeOK, SendQueued
  <1>2. /\ outgoingReliablesSent' =
             InsertPacket(outgoingReliablesSent, p, OldestSendable(nextOutgoing'))
        /\ network' = Transmit(network, Data(p))
    BY DEF SendQueued, SendAsPacketReliable
  <1> HIDE DEF p
  <1>3. outgoingReliablesSent' \in Seq(Packets)
    BY <1>1, <1>2, InsertPacketSet DEF TypeOK
  <1>4. network' \subseteq Messages
    BY <1>1, <1>2, DatagramType, TransmitSubset DEF TypeOK, Messages, Packets
  <1> QED BY <1>1, <1>3, <1>4 DEF TypeOK, SendQueued, receiverVars, Messages

LEMMA PingType ==
  ASSUME TypeOK, Ping
  PROVE  TypeOK'
  <1> DEFINE p == NewPackets(1)[1]
             net == StillInFlight(network, Allocated')
  <1>1. p \in Packets
    BY NewPacketsType DEF TypeOK
  <1>2. nextOutgoing' \in SeqNums /\ numbered' \in Seq(Nat)
    BY NumberType DEF Ping
  <1>3. net \subseteq network
    BY DEF StillInFlight
  <1>4. \/ /\ SendAsPacketReliable(p, net)
           /\ UNCHANGED queuedReliables
        \/ /\ queuedReliables' = Append(queuedReliables, p)
           /\ network' = net
           /\ UNCHANGED outgoingReliablesSent
    BY DEF Ping
  <1> HIDE DEF p, net
  <1>5. /\ queuedReliables' \in Seq(Packets) /\ outgoingReliablesSent' \in Seq(Packets)
        /\ network' \subseteq Messages
    <2>1. CASE SendAsPacketReliable(p, net) /\ UNCHANGED queuedReliables
      <3>1. outgoingReliablesSent' \in Seq(Packets)
        BY <1>1, <2>1, InsertPacketSet DEF TypeOK, SendAsPacketReliable
      <3>2. network' \subseteq Messages
        BY <1>1, <1>3, <2>1, DatagramType, TransmitSubset
        DEF TypeOK, Messages, Packets, SendAsPacketReliable
      <3> QED BY <2>1, <3>1, <3>2 DEF TypeOK
    <2>2. CASE /\ queuedReliables' = Append(queuedReliables, p)
               /\ network' = net
               /\ UNCHANGED outgoingReliablesSent
      BY <1>1, <1>3, <2>2 DEF TypeOK, Messages
    <2> QED BY <1>4, <2>1, <2>2
  <1> QED BY <1>2, <1>5 DEF TypeOK, Ping, receiverVars, Messages

LEMMA ResendType ==
  ASSUME TypeOK, NEW i \in DOMAIN outgoingReliablesSent, Resend(outgoingReliablesSent[i])
  PROVE  TypeOK'
  <1>1. outgoingReliablesSent[i] \in Packets
    BY DEF TypeOK
  <1>2. network' \subseteq Messages
    BY <1>1, DatagramType, TransmitSubset DEF TypeOK, Messages, Packets, Resend
  <1> QED BY <1>2 DEF TypeOK, Resend, senderVars, receiverVars, Messages

LEMMA UpdateTimersType ==
  ASSUME TypeOK, UpdateTimers
  PROVE  TypeOK'
  <1>1. windowSize' \in MinWindow .. MaxWindow
    BY ChannelAssumption DEF TypeOK, UpdateTimers, SetWindowSize
  <1> QED BY <1>1 DEF TypeOK, UpdateTimers, receiverVars

(***************************************************************************)
(* The receiving actions.                                                  *)
(***************************************************************************)
LEMMA ReceiveAckType ==
  ASSUME TypeOK, NEW m \in network, ReceiveAck(m)
  PROVE  TypeOK'
  <1>1. outgoingReliablesSent' \in Seq(Packets)
    BY PopSeqnumType DEF TypeOK, ReceiveAck
  <1>2. network' \subseteq network
    BY DEF ReceiveAck, AfterArrival
  <1> QED BY <1>1, <1>2 DEF TypeOK, ReceiveAck, receiverVars

\* What a receiving action leaves in flight.
LEMMA ReplyInFlight ==
  ASSUME NEW m \in network, NEW net \in AfterArrival(m), network' = Transmit(net, Ack(m))
  PROVE  network' \subseteq network \cup {Ack(m)}
  BY TransmitSubset DEF AfterArrival

LEMMA ReceiveInFlight ==
  ASSUME NEW m \in network, ReceiveData(m)
  PROVE  network' \subseteq network \cup {Ack(m)}
  <1>1. CASE ReceiveInTurn(m)
    BY <1>1, ReplyInFlight DEF ReceiveInTurn
  <1>2. CASE ReceiveAhead(m)
    BY <1>2, ReplyInFlight DEF ReceiveAhead
  <1>3. CASE ReceiveOutside(m)
    BY <1>3, ReplyInFlight DEF ReceiveOutside, AfterArrival
  <1> QED BY <1>1, <1>2, <1>3 DEF ReceiveData

LEMMA ReceiveDataType ==
  ASSUME TypeOK, NEW m \in network, ReceiveData(m)
  PROVE  TypeOK'
  <1>1. m \in Messages /\ [seq |-> m.seq, id |-> m.id] \in Packets
    BY DEF TypeOK, Messages, Packets
  <1>2. network' \subseteq Messages
    BY <1>1, AckType, ReceiveInFlight DEF TypeOK, Messages
  <1>3. CASE ReceiveInTurn(m)
    <2>1. incomingReliables' \in Seq(Packets)
      BY <1>3 DEF TypeOK, ReceiveInTurn
    <2>2. nextIncoming' \in SeqNums
      BY <1>3, SeqAddType DEF TypeOK, ReceiveInTurn
    <2>3. delivered' \in Seq(Nat)
      BY <1>1, <1>3 DEF TypeOK, ReceiveInTurn, Messages
    <2> QED BY <1>2, <1>3, <2>1, <2>2, <2>3
        DEF TypeOK, ReceiveInTurn, ReadDatagram, senderVars, Messages
  <1>4. CASE ReceiveAhead(m)
    <2>1. incomingReliables' \in Seq(Packets)
      BY <1>1, <1>4, InsertPacketSet DEF TypeOK, ReceiveAhead
    <2> QED BY <1>2, <1>4, <2>1
        DEF TypeOK, ReceiveAhead, ReadDatagram, senderVars, Messages
  <1>5. CASE ReceiveOutside(m)
    BY <1>2, <1>5 DEF TypeOK, ReceiveOutside, ReadDatagram, senderVars, Messages
  <1> QED BY <1>3, <1>4, <1>5 DEF ReceiveData

LEMMA LocalReceiverType ==
  ASSUME TypeOK, Unbuffer \/ Drained
  PROVE  TypeOK'
  <1>1. CASE Unbuffer
    <2>1. incomingReliables # <<>> /\ incomingReliables \in Seq(Packets)
      BY <1>1 DEF TypeOK, Unbuffer, FrontIsNext
    <2>2. incomingReliables' \in Seq(Packets) /\ Head(incomingReliables) \in Packets
      BY <1>1, <2>1 DEF Unbuffer
    <2>3. nextIncoming' \in SeqNums
      BY <1>1, SeqAddType DEF TypeOK, Unbuffer
    <2>4. delivered' \in Seq(Nat)
      BY <1>1, <2>2 DEF TypeOK, Unbuffer, Packets
    <2> QED BY <1>1, <2>2, <2>3, <2>4 DEF TypeOK, Unbuffer, senderVars
  <1>2. CASE Drained
    BY <1>2 DEF TypeOK, Drained, senderVars
  <1> QED BY <1>1, <1>2

LEMMA NextType == TypeOK /\ [Next]_vars => TypeOK'
  <1> SUFFICES ASSUME TypeOK, [Next]_vars PROVE TypeOK'
    OBVIOUS
  <1>1. CASE \E n \in ChunkCounts : SubmitNumbered(n) \/ SubmitQueued(n)
    BY <1>1, SubmitType
  <1>2. CASE RunCommandQueues
    BY <1>2, RunCommandQueuesType
  <1>3. CASE SendQueued
    BY <1>3, SendQueuedType
  <1>4. CASE Ping
    BY <1>4, PingType
  <1>5. CASE UpdateTimers
    BY <1>5, UpdateTimersType
  <1>6. CASE \E i \in DOMAIN outgoingReliablesSent : Resend(outgoingReliablesSent[i])
    BY <1>6, ResendType
  <1>7. CASE \E m \in network : ReceiveAck(m) \/ ReceiveData(m)
    BY <1>7, ReceiveAckType, ReceiveDataType
  <1>8. CASE Unbuffer \/ Drained
    BY <1>8, LocalReceiverType
  <1>9. CASE Lose
    BY <1>9 DEF TypeOK, Lose, senderVars, receiverVars
  <1>10. CASE UNCHANGED vars
    BY <1>10 DEF TypeOK, vars, senderVars, receiverVars
  <1> QED BY <1>1, <1>2, <1>3, <1>4, <1>5, <1>6, <1>7, <1>8, <1>9, <1>10 DEF Next

(***************************************************************************)
(* Type correctness: the queues hold packets, sequence numbers stay on the *)
(* circle and the window stays within its limits.                          *)
(***************************************************************************)
THEOREM TypeCorrect == Spec => []TypeOK
  <1> QED BY InitType, NextType, PTL DEF Spec

-----------------------------------------------------------------------------
(***************************************************************************)
(* Numbering: the packets added to the stream, in terms of IInv.           *)
(***************************************************************************)

\* Appending packets to the queue of unsent ones adds their ids.
LEMMA ConcatIds ==
  ASSUME NEW a \in Seq(Packets), NEW b \in Seq(Packets)
  PROVE  Range(a \o b) = Range(a) \cup Range(b)
  <1>1. /\ a \o b \in Seq(Packets) /\ Len(a \o b) = Len(a) + Len(b)
        /\ \A j \in 1 .. Len(a) + Len(b) :
             (a \o b)[j] = IF j <= Len(a) THEN a[j] ELSE b[j - Len(a)]
    BY ConcatProperties
  <1> DEFINE c == a \o b
  <1> HIDE DEF c
  <1>2. Range(c) \subseteq Range(a) \cup Range(b)
    <2>1. SUFFICES ASSUME NEW j \in DOMAIN c
                   PROVE  c[j] \in Range(a) \cup Range(b)
      BY DEF Range
    <2>2. CASE j <= Len(a)
      <3>1. j \in DOMAIN a /\ c[j] = a[j]
        BY <1>1, <2>2 DEF c
      <3> QED BY <3>1 DEF Range
    <2>3. CASE j > Len(a)
      <3>1. j - Len(a) \in DOMAIN b /\ c[j] = b[j - Len(a)]
        BY <1>1, <2>3 DEF c
      <3> QED BY <3>1 DEF Range
    <2>4. j \in Nat /\ Len(a) \in Nat
      BY <1>1 DEF c
    <2> QED BY <2>2, <2>3, <2>4
  <1>3. Range(a) \subseteq Range(c)
    <2>1. \A j \in DOMAIN a : j \in DOMAIN c /\ c[j] = a[j]
      BY <1>1 DEF c
    <2> QED BY <2>1 DEF Range
  <1>4. Range(b) \subseteq Range(c)
    <2>1. \A j \in DOMAIN b : j + Len(a) \in DOMAIN c /\ c[j + Len(a)] = b[j]
      BY <1>1 DEF c
    <2> QED BY <2>1 DEF Range
  <1> QED BY <1>2, <1>3, <1>4 DEF c

\* The packets of a command carry the numbers of the positions that follow.
LEMMA NewPacketsMatch ==
  ASSUME NEW n \in Nat, TypeOK, nextOutgoing = SeqNumOf(Allocated)
  PROVE  /\ SeqsMatch(NewPackets(n))
         /\ IdsOf(NewPackets(n)) = Allocated .. Allocated + n - 1
  <1>0. Allocated \in Nat
    BY DEF TypeOK, Allocated
  <1>1. /\ Len(NewPackets(n)) = n /\ NewPackets(n) \in Seq(Packets)
        /\ \A k \in 1 .. n : NewPackets(n)[k] =
             [seq |-> SeqAdd(nextOutgoing, k - 1), id |-> Allocated + k - 1]
    BY NewPacketsType DEF TypeOK
  <1> DEFINE new == NewPackets(n)
  <1>2. \A k \in 1 .. n : /\ new[k].id = Allocated + k - 1
                          /\ new[k].seq = SeqNumOf(Allocated + (k - 1))
    <2> TAKE k \in 1 .. n
    <2>1. new[k] = [seq |-> SeqAdd(nextOutgoing, k - 1), id |-> Allocated + k - 1]
      BY <1>1
    <2>2. Allocated \in Int /\ k - 1 \in Int
      BY <1>0
    <2>3. SeqAdd(SeqNumOf(Allocated), k - 1) = SeqNumOf(Allocated + (k - 1))
      BY <2>2, SeqAddOf
    <2>4. new[k].id = Allocated + k - 1 /\ new[k].seq = SeqAdd(SeqNumOf(Allocated), k - 1)
      BY <2>1
    <2> HIDE DEF new
    <2> QED BY <2>3, <2>4
  <1> HIDE DEF new
  <1>3. DOMAIN new = 1 .. n
    BY <1>1 DEF new
  <1>4. SeqsMatch(new)
    BY <1>0, <1>2, <1>3 DEF SeqsMatch, Range
  <1>5. \A id \in Allocated .. Allocated + n - 1 :
          id - Allocated + 1 \in 1 .. n /\ new[id - Allocated + 1].id = id
    BY <1>0, <1>2
  <1>6. IdsOf(new) = Allocated .. Allocated + n - 1
    BY <1>0, <1>2, <1>3, <1>5 DEF IdsOf
  <1> QED BY <1>4, <1>6 DEF new

(***************************************************************************)
(* Numbering n packets and appending them to queuedReliables, as           *)
(* SubmitNumbered, RunCommandQueues and a ping that finds the wire full do.*)
(***************************************************************************)
LEMMA NumberAndQueue ==
  ASSUME IInv, NEW n \in Nat, NEW cmd \in Nat, Number(cmd, n), TypeOK',
         queuedReliables' = queuedReliables \o NewPackets(n),
         network' = StillInFlight(network, Allocated'),
         UNCHANGED <<outgoingReliablesSent, receiverVars>>
  PROVE  IInv'
  <1> USE DEF IInv
  <1>0. /\ Allocated \in Nat /\ Allocated' = Allocated + n /\ Len(delivered) \in Nat
        /\ RecvWindow \in Nat
    <2>1. RecvWindow \in Nat
      BY SeqNumAssumption
    <2>2. Allocated \in Nat /\ Len(delivered) \in Nat
      BY DEF TypeOK, Allocated
    <2> QED BY <2>1, <2>2, NumberType
  <1>1. nextOutgoing' = SeqNumOf(Allocated')
    <2>1. nextOutgoing' = SeqAdd(SeqNumOf(Allocated), n)
      BY DEF Number, NumbersMatch
    <2>2. Allocated \in Int /\ n \in Int
      BY <1>0
    <2> QED BY <1>0, <2>1, <2>2, SeqAddOf
  <1>2. /\ NewPackets(n) \in Seq(Packets) /\ SeqsMatch(NewPackets(n))
        /\ IdsOf(NewPackets(n)) = Allocated .. Allocated + n - 1
    BY NewPacketsType, NewPacketsMatch DEF TypeOK, NumbersMatch
  <1>3. Range(queuedReliables') = Range(queuedReliables) \cup Range(NewPackets(n))
    BY <1>2, ConcatIds DEF TypeOK
  <1>4. IdsOf(queuedReliables') = IdsOf(queuedReliables) \cup (Allocated .. Allocated + n - 1)
    BY <1>2, <1>3, IdsOfRange
  <1>5. network' \subseteq network /\ \A m \in network' : Allocated' - m.id < RecvWindow
    BY DEF StillInFlight
  <1>6. \A m \in network : m.id \in Nat
    BY DEF TypeOK
  <1>r. receiverVars' = receiverVars /\ outgoingReliablesSent' = outgoingReliablesSent
    OBVIOUS
  <1>7. NumbersMatch'
    BY <1>1, <1>2, <1>3, <1>5, <1>r DEF NumbersMatch, SeqsMatch, receiverVars
  <1>8. PositionsInRange'
    <2>1. \A id \in IdsOf(queuedReliables) \cup IdsOf(outgoingReliablesSent) : id \in Nat
      BY ElementOf DEF TypeOK, IdsOf
    <2>2. \A id \in IdsOf(incomingReliables) : id \in Nat
      BY ElementOf DEF TypeOK, IdsOf
    <2> QED BY <1>0, <1>4, <1>5, <1>6, <1>r, <2>1, <2>2
        DEF PositionsInRange, receiverVars
  <1>9. AcksAreHonest'
    BY <1>5, <1>r DEF AcksAreHonest, receiverVars
  <1>10. InOrderExactlyOnce' /\ BuffersAscending' /\ NeverStallsOnBuffered'
    BY <1>r DEF InOrderExactlyOnce, BuffersAscending, NeverStallsOnBuffered, receiverVars
  <1>11. NothingLost'
    BY <1>0, <1>4, <1>r DEF NothingLost, receiverVars
  <1> QED BY <1>7, <1>8, <1>9, <1>10, <1>11

-----------------------------------------------------------------------------
(***************************************************************************)
(* Sending.                                                                *)
(***************************************************************************)

(***************************************************************************)
(* sendAsPacketReliable never fails to file a packet that lies less than   *)
(* RecvWindow before the next number a: this is what WithinWindow is for.  *)
(***************************************************************************)
LEMMA FileForResending ==
  ASSUME NEW list \in Seq(Packets), NEW p \in Packets, NEW a \in Nat,
         SeqsMatch(list), Ascending(list), p.seq = SeqNumOf(p.id),
         \A id \in IdsOf(list) : a - id <= RecvWindow /\ id < a,
         a - p.id < RecvWindow, p.id < a
  PROVE  LET new == InsertPacket(list, p, OldestSendable(SeqNumOf(a)))
         IN  /\ new \in Seq(Packets) /\ SeqsMatch(new) /\ Ascending(new)
             /\ IdsOf(new) = IdsOf(list) \cup {p.id}
  <1> DEFINE b == a - RecvWindow
             new == InsertPacket(list, p, SeqNumOf(b))
  <1>1. RecvWindow \in Nat /\ SeqSpace = 2 * RecvWindow /\ RecvWindow > 0
    BY SeqNumAssumption
  <1>2. OldestSendable(SeqNumOf(a)) = SeqNumOf(b)
    <2>1. a \in Int /\ -RecvWindow \in Int /\ a + (-RecvWindow) = a - RecvWindow
      BY <1>1
    <2> QED BY <2>1, SeqAddOf DEF OldestSendable
  <1>3. \A id \in IdsOf(list) : id \in Nat
    BY ElementOf DEF IdsOf
  <1>4. p.id \in Nat
    BY DEF Packets
  <1>5. b \in Int /\ From(list, b) /\ b < p.id /\ p.id < b + RecvWindow
        /\ b <= p.id /\ p.id < b + SeqSpace
    BY <1>1, <1>3, <1>4 DEF From
  <1> HIDE DEF b
  <1>6. /\ new \in Seq(Packets) /\ SeqsMatch(new)
        /\ IdsOf(list) \subseteq IdsOf(new)
        /\ IdsOf(new) \subseteq IdsOf(list) \cup {p.id}
        /\ b < p.id /\ p.id < b + RecvWindow => p.id \in IdsOf(new)
        /\ Ascending(new)
    BY <1>5, InsertKeepsOrder
  <1> QED BY <1>2, <1>5, <1>6

LEMMA SendQueuedInv ==
  ASSUME IInv, WithinWindow, SendQueued, TypeOK'
  PROVE  IInv'
  <1> USE DEF IInv
  <1> DEFINE p == Head(queuedReliables)
             new == InsertPacket(outgoingReliablesSent, p, OldestSendable(SeqNumOf(Allocated)))
  <1>0. /\ Allocated \in Nat /\ RecvWindow \in Nat
        /\ queuedReliables \in Seq(Packets) /\ queuedReliables # <<>>
        /\ outgoingReliablesSent \in Seq(Packets)
    BY SeqNumAssumption DEF TypeOK, Allocated, SendQueued
  <1>1. /\ p \in Packets /\ p \in Range(queuedReliables) /\ p.id \in IdsOf(queuedReliables)
        /\ p = queuedReliables[1]
    BY <1>0, HeadAndTail, ElementOf
  <1>2. /\ queuedReliables' = Tail(queuedReliables)
        /\ nextOutgoing' = nextOutgoing /\ numbered' = numbered /\ Allocated' = Allocated
        /\ receiverVars' = receiverVars
    BY DEF SendQueued, Allocated
  <1>3. outgoingReliablesSent' = new /\ network' = Transmit(network, Data(p))
    BY <1>2 DEF SendQueued, SendAsPacketReliable, NumbersMatch
  <1> HIDE DEF p, new
  <1>4. \A id \in IdsOf(outgoingReliablesSent) : id \in Nat
    BY <1>0, ElementOf DEF IdsOf
  <1>5. /\ new \in Seq(Packets) /\ SeqsMatch(new) /\ Ascending(new)
        /\ IdsOf(new) = IdsOf(outgoingReliablesSent) \cup {p.id}
    <2>1. p.seq = SeqNumOf(p.id)
      BY <1>1 DEF NumbersMatch, SeqsMatch
    <2>2. /\ \A id \in IdsOf(outgoingReliablesSent) : Allocated - id <= RecvWindow /\ id < Allocated
          /\ Allocated - p.id < RecvWindow /\ p.id < Allocated
      BY <1>0, <1>1, <1>4 DEF WithinWindow, PositionsInRange
    <2>3. SeqsMatch(outgoingReliablesSent) /\ Ascending(outgoingReliablesSent)
      BY DEF NumbersMatch, BuffersAscending
    <2> QED BY <1>0, <1>1, <2>1, <2>2, <2>3, FileForResending DEF new
  <1>6. /\ Range(queuedReliables') \subseteq Range(queuedReliables)
        /\ Range(queuedReliables) \subseteq Range(queuedReliables') \cup {p}
    BY <1>0, <1>1, <1>2, TailRange
  <1>7. /\ IdsOf(queuedReliables') \subseteq IdsOf(queuedReliables)
        /\ IdsOf(queuedReliables) \subseteq IdsOf(queuedReliables') \cup {p.id}
    BY <1>6, IdsOfRange
  <1>8. \A m \in network' : m \in network \/ m = Data(p)
    BY <1>3, TransmitSubset
  <1>9. /\ Data(p).kind = "data" /\ Data(p).seq = p.seq /\ Data(p).id = p.id
    BY DEF Data
  <1>10. NumbersMatch'
    BY <1>1, <1>2, <1>3, <1>5, <1>6, <1>8, <1>9 DEF NumbersMatch, SeqsMatch, receiverVars
  <1>11. PositionsInRange'
    BY <1>0, <1>1, <1>2, <1>3, <1>5, <1>7, <1>8, <1>9
    DEF PositionsInRange, WithinWindow, receiverVars
  <1>12. AcksAreHonest'
    BY <1>2, <1>8, <1>9 DEF AcksAreHonest, receiverVars
  <1>13. InOrderExactlyOnce' /\ BuffersAscending' /\ NeverStallsOnBuffered'
    BY <1>2, <1>3, <1>5
    DEF InOrderExactlyOnce, BuffersAscending, NeverStallsOnBuffered, receiverVars
  <1>14. NothingLost'
    BY <1>2, <1>3, <1>5, <1>7 DEF NothingLost, receiverVars
  <1> QED BY <1>10, <1>11, <1>12, <1>13, <1>14

LEMMA PingInv ==
  ASSUME IInv, WithinWindow, Ping, TypeOK'
  PROVE  IInv'
  <1> USE DEF IInv
  <1> DEFINE p == NewPackets(1)[1]
             net == StillInFlight(network, Allocated')
             new == InsertPacket(outgoingReliablesSent, p, OldestSendable(SeqNumOf(Allocated + 1)))
  <1>0. /\ Allocated \in Nat /\ RecvWindow \in Nat /\ RecvWindow > 1
        /\ outgoingReliablesSent \in Seq(Packets) /\ Len(delivered) \in Nat
    BY SeqNumAssumption, ChannelAssumption DEF TypeOK, Allocated
  <1>1. Number(0, 1) /\ receiverVars' = receiverVars
    BY DEF Ping
  <1>2. Allocated' = Allocated + 1
    BY <1>1, NumberType
  <1>3. /\ NewPackets(1) \in Seq(Packets) /\ Len(NewPackets(1)) = 1
        /\ SeqsMatch(NewPackets(1)) /\ IdsOf(NewPackets(1)) = Allocated .. Allocated + 1 - 1
    BY NewPacketsType, NewPacketsMatch DEF TypeOK, NumbersMatch
  <1>4. 1 \in DOMAIN NewPackets(1)
    BY <1>3
  <1>5. p \in Packets /\ p \in Range(NewPackets(1)) /\ p.id \in IdsOf(NewPackets(1))
    BY <1>3, <1>4, ElementOf
  <1>6. p.id = Allocated /\ p.seq = SeqNumOf(p.id)
    BY <1>0, <1>3, <1>5 DEF SeqsMatch
  <1>7. nextOutgoing' = SeqNumOf(Allocated + 1)
    <2>1. nextOutgoing' = SeqAdd(SeqNumOf(Allocated), 1)
      BY <1>1 DEF Number, NumbersMatch
    <2>2. Allocated \in Int
      BY <1>0
    <2> QED BY <2>1, <2>2, SeqAddOf
  <1>8. CASE /\ queuedReliables' = Append(queuedReliables, p)
             /\ network' = net
             /\ UNCHANGED outgoingReliablesSent
    <2>1. NewPackets(1) = <<p>>
      BY <1>3
    <2>2. queuedReliables' = queuedReliables \o NewPackets(1)
      <3>1. queuedReliables \in Seq(Packets)
        BY DEF TypeOK
      <3> HIDE DEF p
      <3>2. Append(queuedReliables, p) = queuedReliables \o <<p>>
        BY <1>5, <3>1, AppendIsConcat
      <3> QED BY <1>8, <2>1, <3>2
    <2> QED BY <1>1, <1>8, <2>2, NumberAndQueue
  <1>9. CASE SendAsPacketReliable(p, net) /\ UNCHANGED queuedReliables
    <2>1. outgoingReliablesSent' = new /\ network' = Transmit(net, Data(p))
          /\ queuedReliables' = queuedReliables
      BY <1>7, <1>9 DEF SendAsPacketReliable
    <2> HIDE DEF p, net, new
    <2>2. \A id \in IdsOf(outgoingReliablesSent) : id \in Nat
      BY <1>0, ElementOf DEF IdsOf
    <2>q. \A id \in IdsOf(queuedReliables) : id \in Nat
      BY ElementOf DEF IdsOf, TypeOK
    <2>i. \A id \in IdsOf(incomingReliables) : id \in Nat
      BY ElementOf DEF IdsOf, TypeOK
    <2>3. /\ new \in Seq(Packets) /\ SeqsMatch(new) /\ Ascending(new)
          /\ IdsOf(new) = IdsOf(outgoingReliablesSent) \cup {p.id}
      <3>1. /\ \A id \in IdsOf(outgoingReliablesSent) :
                 (Allocated + 1) - id <= RecvWindow /\ id < Allocated + 1
            /\ (Allocated + 1) - p.id < RecvWindow /\ p.id < Allocated + 1
        BY <1>0, <1>6, <2>2 DEF WithinWindow, PositionsInRange
      <3>2. SeqsMatch(outgoingReliablesSent) /\ Ascending(outgoingReliablesSent)
        BY DEF NumbersMatch, BuffersAscending
      <3>3. Allocated + 1 \in Nat
        BY <1>0
      <3> QED BY <1>0, <1>5, <1>6, <3>1, <3>2, <3>3, FileForResending DEF new
    <2>4. \A m \in network' :
            m = Data(p) \/ (m \in network /\ Allocated' - m.id < RecvWindow)
      BY <2>1, TransmitSubset DEF net, StillInFlight
    <2>5. /\ Data(p).kind = "data" /\ Data(p).seq = p.seq /\ Data(p).id = p.id
      BY DEF Data
    <2>6. \A m \in network : m.id \in Nat
      BY DEF TypeOK
    <2>7. NumbersMatch'
      BY <1>1, <1>2, <1>6, <1>7, <2>1, <2>3, <2>4, <2>5
      DEF NumbersMatch, SeqsMatch, receiverVars
    <2>8. PositionsInRange'
      BY <1>0, <1>1, <1>2, <1>6, <2>1, <2>2, <2>q, <2>i, <2>3, <2>4, <2>5, <2>6
      DEF PositionsInRange, receiverVars
    <2>9. AcksAreHonest'
      BY <1>1, <2>4, <2>5 DEF AcksAreHonest, receiverVars
    <2>10. InOrderExactlyOnce' /\ BuffersAscending' /\ NeverStallsOnBuffered'
      BY <1>1, <2>1, <2>3
      DEF InOrderExactlyOnce, BuffersAscending, NeverStallsOnBuffered, receiverVars
    <2>11. NothingLost'
      BY <1>0, <1>1, <1>2, <1>6, <2>1, <2>3 DEF NothingLost, receiverVars
    <2> QED BY <2>7, <2>8, <2>9, <2>10, <2>11
  <1> QED BY <1>8, <1>9 DEF Ping

LEMMA ResendInv ==
  ASSUME IInv, WithinWindow, NEW i \in DOMAIN outgoingReliablesSent,
         Resend(outgoingReliablesSent[i]), TypeOK'
  PROVE  IInv'
  <1> USE DEF IInv
  <1> DEFINE p == outgoingReliablesSent[i]
  <1>1. p \in Range(outgoingReliablesSent) /\ p.id \in IdsOf(outgoingReliablesSent)
    BY ElementOf DEF TypeOK
  <1>2. senderVars' = senderVars /\ receiverVars' = receiverVars
        /\ network' = Transmit(network, Data(p))
    BY DEF Resend
  <1> HIDE DEF p
  <1>3. /\ Data(p).kind = "data" /\ Data(p).seq = p.seq /\ Data(p).id = p.id
    BY DEF Data
  <1>4. \A m \in network' : m \in network \/ m = Data(p)
    BY <1>2, TransmitSubset
  <1>5. p.seq = SeqNumOf(p.id)
    BY <1>1 DEF NumbersMatch, SeqsMatch
  <1>6. p.id < Allocated /\ Allocated - p.id < RecvWindow
    BY <1>1 DEF PositionsInRange, WithinWindow
  <1>7. NumbersMatch'
    BY <1>2, <1>3, <1>4, <1>5 DEF NumbersMatch, senderVars, receiverVars, Allocated
  <1>8. PositionsInRange'
    BY <1>2, <1>3, <1>4, <1>6 DEF PositionsInRange, senderVars, receiverVars, Allocated
  <1>9. AcksAreHonest'
    BY <1>2, <1>3, <1>4 DEF AcksAreHonest, receiverVars
  <1>10. InOrderExactlyOnce' /\ BuffersAscending' /\ NeverStallsOnBuffered' /\ NothingLost'
    BY <1>2 DEF InOrderExactlyOnce, BuffersAscending, NeverStallsOnBuffered, NothingLost,
                senderVars, receiverVars, Allocated
  <1> QED BY <1>7, <1>8, <1>9, <1>10

(***************************************************************************)
(* An ACK takes out the packet it is for and no other: the two would have  *)
(* to be a whole circle apart.                                             *)
(***************************************************************************)
LEMMA ReceiveAckInv ==
  ASSUME IInv, WithinWindow, NEW m \in network, ReceiveAck(m), TypeOK'
  PROVE  IInv'
  <1> USE DEF IInv
  <1> DEFINE new == PopSeqnum(outgoingReliablesSent, m.seq)
  <1>0. /\ Allocated \in Nat /\ RecvWindow \in Nat /\ SeqSpace = 2 * RecvWindow
        /\ outgoingReliablesSent \in Seq(Packets) /\ m.id \in Nat
    BY SeqNumAssumption DEF TypeOK, Allocated
  <1>1. /\ new \in Seq(Packets) /\ Range(new) \subseteq Range(outgoingReliablesSent)
        /\ \A q \in Range(outgoingReliablesSent) : q.seq # m.seq => q \in Range(new)
        /\ Ascending(new)
    BY <1>0, PopKeepsTheRest DEF BuffersAscending
  <1> HIDE DEF new
  <1>2. /\ outgoingReliablesSent' = new /\ queuedReliables' = queuedReliables
        /\ nextOutgoing' = nextOutgoing /\ numbered' = numbered /\ Allocated' = Allocated
        /\ receiverVars' = receiverVars /\ m.kind = "ack"
    BY DEF ReceiveAck, Allocated, new
  <1>3. network' \subseteq network
    BY DEF ReceiveAck, AfterArrival
  <1>4. IdsOf(new) \subseteq IdsOf(outgoingReliablesSent)
    BY <1>1, IdsOfRange
  <1>5. \A id \in IdsOf(outgoingReliablesSent) : id = m.id \/ id \in IdsOf(new)
    <2>1. SUFFICES ASSUME NEW q \in Range(outgoingReliablesSent), q \notin Range(new)
                   PROVE  q.id = m.id
      BY IdsOfRange
    <2>2. q.seq = m.seq /\ q.seq = SeqNumOf(q.id) /\ m.seq = SeqNumOf(m.id)
      BY <1>1, <2>1 DEF NumbersMatch, SeqsMatch
    <2>3. q.id \in IdsOf(outgoingReliablesSent) /\ q.id \in Nat
      BY <1>0, ElementOf DEF Range
    <2>4. /\ q.id < Allocated /\ Allocated - q.id < RecvWindow
          /\ m.id < Allocated /\ Allocated - m.id < RecvWindow
      BY <2>3 DEF PositionsInRange, WithinWindow
    <2>5. q.id - m.id < SeqSpace /\ m.id - q.id < SeqSpace
      BY <1>0, <2>3, <2>4
    <2>6. q.id \in Int /\ m.id \in Int
      BY <1>0, <2>3
    <2>7. SeqNumOf(q.id) = SeqNumOf(m.id)
      BY <2>2, Zenon
    <2> QED BY <2>5, <2>6, <2>7, SeqNumInjective
  <1>6. NumbersMatch'
    BY <1>1, <1>2, <1>3 DEF NumbersMatch, SeqsMatch, receiverVars
  <1>7. PositionsInRange'
    BY <1>2, <1>3, <1>4 DEF PositionsInRange, receiverVars
  <1>8. AcksAreHonest'
    BY <1>2, <1>3 DEF AcksAreHonest, receiverVars
  <1>9. InOrderExactlyOnce' /\ BuffersAscending' /\ NeverStallsOnBuffered'
    BY <1>1, <1>2 DEF InOrderExactlyOnce, BuffersAscending, NeverStallsOnBuffered, receiverVars
  <1>10. m.id < Len(delivered) \/ m.id \in IdsOf(incomingReliables)
    BY <1>2 DEF AcksAreHonest
  <1>11. NothingLost'
    BY <1>2, <1>5, <1>10 DEF NothingLost, receiverVars
  <1> QED BY <1>6, <1>7, <1>8, <1>9, <1>11

-----------------------------------------------------------------------------
(***************************************************************************)
(* Receiving.                                                              *)
(***************************************************************************)

\* How far back an older position lies on the circle.
LEMMA DistanceBack ==
  ASSUME NEW a \in Int, NEW b \in Int, a < b, b - a < SeqSpace
  PROVE  Distance(SeqNumOf(b), SeqNumOf(a)) = SeqSpace - (b - a)
  <1>1. SeqNumOf(a) \in SeqNums /\ SeqNumOf(b) \in SeqNums /\ SeqSpace \in Nat
    BY SeqNumOfType, SeqNumAssumption
  <1>2. Distance(SeqNumOf(a), SeqNumOf(b)) = b - a
    BY DistanceOf
  <1> QED BY <1>1, <1>2 DEF Distance, SeqNums

\* A buffered packet that has the next number is the next packet.
LEMMA BufferedNumbers ==
  ASSUME IInv, NEW i \in DOMAIN incomingReliables
  PROVE  /\ incomingReliables[i].id \in Nat
         /\ incomingReliables[i].id \in IdsOf(incomingReliables)
         /\ incomingReliables[i].seq = nextIncoming <=>
              incomingReliables[i].id = Len(delivered)
  <1> USE DEF IInv
  <1> DEFINE p == incomingReliables[i]
  <1>1. p \in Range(incomingReliables) /\ p.id \in IdsOf(incomingReliables) /\ p.id \in Nat
    BY ElementOf DEF TypeOK
  <1>2. p.seq = SeqNumOf(p.id) /\ nextIncoming = SeqNumOf(Len(delivered))
    BY <1>1 DEF NumbersMatch, SeqsMatch
  <1>3. Len(delivered) \in Nat /\ RecvWindow \in Nat /\ SeqSpace = 2 * RecvWindow
    BY SeqNumAssumption DEF TypeOK
  <1>4. Len(delivered) <= p.id /\ p.id < Len(delivered) + RecvWindow
    BY <1>1 DEF PositionsInRange
  <1> HIDE DEF p
  <1>5. p.id - Len(delivered) < SeqSpace /\ Len(delivered) - p.id < SeqSpace
    BY <1>1, <1>3, <1>4
  <1>6. SeqNumOf(p.id) = SeqNumOf(Len(delivered)) => p.id = Len(delivered)
    BY <1>1, <1>3, <1>5, SeqNumInjective
  <1> QED BY <1>1, <1>2, <1>6 DEF p

\* Looking at the front is enough: the receive thread reads a datagram only
\* when the packet whose turn it is is not buffered.
LEMMA NextNotBuffered ==
  ASSUME IInv, packetQueued => ~FrontIsNext
  PROVE  Len(delivered) \notin IdsOf(incomingReliables)
  <1> USE DEF IInv
  <1>1. SUFFICES ASSUME NEW i \in DOMAIN incomingReliables,
                        incomingReliables[i].id = Len(delivered)
                 PROVE  FALSE
    BY DEF IdsOf
  <1>2. incomingReliables[i].seq = nextIncoming
    BY <1>1, BufferedNumbers
  <1>3. packetQueued /\ ~FrontIsNext
    BY <1>2 DEF NeverStallsOnBuffered
  <1>4. incomingReliables \in Seq(Packets)
    BY DEF TypeOK
  <1>5. incomingReliables # <<>> /\ 1 \in DOMAIN incomingReliables /\ i >= 1
    BY <1>4
  <1>6. i # 1
    BY <1>2, <1>3, <1>5 DEF FrontIsNext, FirstSeqnum
  <1>7. incomingReliables[1].id < Len(delivered)
    BY <1>1, <1>4, <1>5, <1>6 DEF BuffersAscending, Ascending
  <1>8. Len(delivered) <= incomingReliables[1].id
    BY <1>5, BufferedNumbers DEF PositionsInRange
  <1>9. Len(delivered) \in Nat /\ incomingReliables[1].id \in Nat
    BY <1>5, BufferedNumbers DEF TypeOK
  <1> QED BY <1>7, <1>8, <1>9

(***************************************************************************)
(* The window test tells old from new: the packet whose turn it is is      *)
(* still with the sender, so nothing in flight is RecvWindow ahead of it,  *)
(* and nothing that old is in flight.                                      *)
(***************************************************************************)
LEMMA ArrivalPosition ==
  ASSUME IInv, WithinWindow, NEW m \in network,
         Len(delivered) \notin IdsOf(incomingReliables)
  PROVE  /\ m.id \in Nat /\ m.id < Allocated
         /\ m.seq = nextIncoming => m.id = Len(delivered)
         /\ m.id = Len(delivered) => m.seq = nextIncoming
         /\ InReceiveWindow(m.seq) =>
              Len(delivered) <= m.id /\ m.id < Len(delivered) + RecvWindow
         /\ ~InReceiveWindow(m.seq) => m.id < Len(delivered)
  <1> USE DEF IInv
  <1> DEFINE k == Len(delivered)
  <1>0. /\ k \in Nat /\ m.id \in Nat /\ Allocated \in Nat
        /\ RecvWindow \in Nat /\ RecvWindow > 0 /\ SeqSpace = 2 * RecvWindow
    BY SeqNumAssumption DEF TypeOK, Allocated
  <1>1. m.seq = SeqNumOf(m.id) /\ nextIncoming = SeqNumOf(k)
    BY DEF NumbersMatch
  <1>2. m.id < Allocated /\ Allocated - m.id < RecvWindow /\ k <= Allocated
    BY DEF PositionsInRange
  <1>3. k < Allocated => Allocated - k < RecvWindow
    <2>1. SUFFICES ASSUME k < Allocated PROVE Allocated - k < RecvWindow
      OBVIOUS
    <2>2. k \in 0 .. Allocated - 1 /\ ~(k < k)
      BY <1>0, <2>1
    <2>3. k \in IdsOf(queuedReliables) \cup IdsOf(outgoingReliablesSent)
      BY <2>2 DEF NothingLost
    <2> QED BY <2>3 DEF WithinWindow
  <1>4. SeqNumOf(m.id) \in SeqNums /\ SeqNumOf(k) \in SeqNums
    BY <1>0, SeqNumOfType
  <1> HIDE DEF k
  <1>5. SeqInWindow(m.seq, nextIncoming, RecvWindow) <=>
          Distance(SeqNumOf(k), SeqNumOf(m.id)) < RecvWindow
    BY <1>0, <1>1, <1>4, WindowIsDistance
  <1>6. CASE m.id >= k
    <2>1. m.id - k < RecvWindow /\ m.id - k < SeqSpace /\ k - m.id < SeqSpace
      BY <1>0, <1>2, <1>3, <1>6
    <2>2. Distance(SeqNumOf(k), SeqNumOf(m.id)) = m.id - k
      BY <1>0, <1>6, <2>1, DistanceOf
    <2>3. SeqNumOf(m.id) = SeqNumOf(k) => m.id = k
      BY <1>0, <2>1, SeqNumInjective
    <2> QED BY <1>0, <1>1, <1>2, <1>5, <1>6, <2>1, <2>2, <2>3 DEF InReceiveWindow, k
  <1>7. CASE m.id < k
    <2>1. k - m.id < RecvWindow /\ k - m.id < SeqSpace /\ m.id - k < SeqSpace
      BY <1>0, <1>2, <1>7
    <2>2. Distance(SeqNumOf(k), SeqNumOf(m.id)) = SeqSpace - (k - m.id)
      BY <1>0, <1>7, <2>1, DistanceBack
    <2>3. SeqNumOf(m.id) = SeqNumOf(k) => m.id = k
      BY <1>0, <2>1, SeqNumInjective
    <2>4. ~InReceiveWindow(m.seq)
      BY <1>0, <1>5, <2>1, <2>2 DEF InReceiveWindow
    <2> QED BY <1>0, <1>1, <1>2, <1>7, <2>3, <2>4 DEF k
  <1> QED BY <1>0, <1>6, <1>7

(***************************************************************************)
(* What a datagram does to the receiver keeps the invariant.               *)
(***************************************************************************)
LEMMA ReceiveInTurnInv ==
  ASSUME IInv, WithinWindow, NEW m \in network, ReceiveInTurn(m), TypeOK'
  PROVE  IInv'
  <1> USE DEF IInv
  <1> DEFINE k == Len(delivered)
  <1>0. /\ k \in Nat /\ Allocated \in Nat /\ RecvWindow \in Nat /\ RecvWindow > 0
        /\ incomingReliables \in Seq(Packets) /\ delivered \in Seq(Nat)
    BY SeqNumAssumption DEF TypeOK, Allocated
  <1>1. /\ packetQueued => ~FrontIsNext
        /\ packetQueued' = TRUE /\ m.seq = nextIncoming
        /\ incomingReliables' =
             IF incomingReliables # <<>> /\ FirstSeqnum(incomingReliables) = m.seq
             THEN Tail(incomingReliables) ELSE incomingReliables
        /\ nextIncoming' = SeqAdd(nextIncoming, 1)
        /\ delivered' = Append(delivered, m.id)
        /\ senderVars' = senderVars
    BY DEF ReceiveInTurn, ReadDatagram
  <1>2. k \notin IdsOf(incomingReliables)
    BY <1>1, NextNotBuffered
  <1>3. m.id = k /\ k < Allocated
    BY <1>1, <1>2, ArrivalPosition
  <1>4. incomingReliables' = incomingReliables
    <2>1. SUFFICES ASSUME incomingReliables # <<>>,
                          FirstSeqnum(incomingReliables) = m.seq
                   PROVE  FALSE
      BY <1>1
    <2>2. 1 \in DOMAIN incomingReliables
      BY <1>0, <2>1
    <2>3. incomingReliables[1].id = k
      BY <1>1, <2>1, <2>2, BufferedNumbers DEF FirstSeqnum
    <2> QED BY <1>2, <2>2, <2>3, BufferedNumbers
  <1>5. Len(delivered') = k + 1 /\ delivered'[k + 1] = k
        /\ \A i \in 1 .. k : delivered'[i] = delivered[i]
    BY <1>0, <1>1, <1>3
  <1>6. nextIncoming' = SeqNumOf(k + 1)
    BY <1>0, <1>1, SeqAddOf DEF NumbersMatch
  <1>7. \A x \in network' : x \in network \/ (x.seq = m.seq /\ x.id = m.id)
    BY ReceiveInFlight DEF ReceiveData, Ack
  <1>8. /\ queuedReliables' = queuedReliables /\ outgoingReliablesSent' = outgoingReliablesSent
        /\ nextOutgoing' = nextOutgoing /\ Allocated' = Allocated
    BY <1>1 DEF senderVars, Allocated
  <1>9. \A id \in IdsOf(incomingReliables) : id \in Nat
    BY <1>0, ElementOf DEF IdsOf
  <1>10. NumbersMatch'
    <2>1. \A x \in network' : x.seq = SeqNumOf(x.id)
      BY <1>7 DEF NumbersMatch
    <2> QED BY <1>4, <1>5, <1>6, <1>8, <2>1 DEF NumbersMatch, SeqsMatch
  <1>11. PositionsInRange'
    <2>1. \A x \in network' : x.id < Allocated /\ Allocated - x.id < RecvWindow
      BY <1>7 DEF PositionsInRange
    <2>2. k + 1 <= Allocated
      BY <1>0, <1>3
    <2>3. \A id \in IdsOf(incomingReliables) :
            k + 1 <= id /\ id < (k + 1) + RecvWindow /\ id < Allocated
      BY <1>0, <1>2, <1>9 DEF PositionsInRange
    <2> QED BY <1>4, <1>5, <1>8, <2>1, <2>2, <2>3 DEF PositionsInRange
  <1>12. AcksAreHonest'
    <2>1. \A x \in network' : x.kind = "ack" => x.id < k + 1 \/ x.id \in IdsOf(incomingReliables)
      <3> TAKE x \in network'
      <3>1. CASE x \in network
        <4>1. x.kind = "ack" => x.id < k \/ x.id \in IdsOf(incomingReliables)
          BY <3>1 DEF AcksAreHonest
        <4>2. x.id \in Nat
          BY <3>1 DEF TypeOK
        <4> QED BY <1>0, <4>1, <4>2
      <3>2. CASE x.id = m.id
        BY <1>0, <1>3, <3>2
      <3> QED BY <1>7, <3>1, <3>2
    <2> QED BY <1>4, <1>5, <2>1 DEF AcksAreHonest
  <1>13. InOrderExactlyOnce'
    <2>1. \A i \in 1 .. k : delivered'[i] = i - 1
      BY <1>5 DEF InOrderExactlyOnce
    <2>2. \A i \in 1 .. k + 1 : i \in 1 .. k \/ i = k + 1
      BY <1>0
    <2>3. delivered'[k + 1] = (k + 1) - 1
      BY <1>0, <1>5
    <2> QED BY <1>5, <2>1, <2>2, <2>3 DEF InOrderExactlyOnce
  <1>14. NothingLost'
    BY <1>0, <1>4, <1>5, <1>8 DEF NothingLost
  <1>15. BuffersAscending' /\ NeverStallsOnBuffered'
    BY <1>1, <1>4, <1>8 DEF BuffersAscending, NeverStallsOnBuffered
  <1> QED BY <1>10, <1>11, <1>12, <1>13, <1>14, <1>15

LEMMA ReceiveAheadInv ==
  ASSUME IInv, WithinWindow, NEW m \in network, ReceiveAhead(m), TypeOK'
  PROVE  IInv'
  <1> USE DEF IInv
  <1> DEFINE k == Len(delivered)
             p == [seq |-> m.seq, id |-> m.id]
             new == InsertPacket(incomingReliables, p, SeqNumOf(k))
  <1>0. /\ k \in Nat /\ Allocated \in Nat /\ RecvWindow \in Nat /\ SeqSpace = 2 * RecvWindow
        /\ incomingReliables \in Seq(Packets) /\ m.seq = SeqNumOf(m.id) /\ p \in Packets
    BY SeqNumAssumption DEF TypeOK, Allocated, NumbersMatch, Packets
  <1>1. /\ packetQueued => ~FrontIsNext
        /\ packetQueued' = TRUE /\ m.seq # nextIncoming /\ InReceiveWindow(m.seq)
        /\ incomingReliables' = new
        /\ nextIncoming' = nextIncoming /\ delivered' = delivered
        /\ senderVars' = senderVars
    BY DEF ReceiveAhead, ReadDatagram, NumbersMatch
  <1>2. k \notin IdsOf(incomingReliables)
    BY <1>1, NextNotBuffered
  <1>3. m.id \in Nat /\ m.id < Allocated /\ k < m.id /\ m.id < k + RecvWindow
    <2>1. /\ m.id \in Nat /\ m.id < Allocated /\ k <= m.id /\ m.id < k + RecvWindow
          /\ m.id # k
      BY <1>1, <1>2, ArrivalPosition
    <2> QED BY <1>0, <2>1
  <1>4. \A id \in IdsOf(incomingReliables) : id \in Nat
    BY <1>0, ElementOf DEF IdsOf
  <1>5. /\ new \in Seq(Packets) /\ SeqsMatch(new) /\ Ascending(new)
        /\ IdsOf(new) = IdsOf(incomingReliables) \cup {m.id}
    <2>1. From(incomingReliables, k)
      BY <1>0, <1>4 DEF From, PositionsInRange
    <2>2. p.seq = SeqNumOf(p.id) /\ k <= p.id /\ p.id < k + SeqSpace /\ p.id = m.id
      BY <1>0, <1>3
    <2>3. SeqsMatch(incomingReliables) /\ Ascending(incomingReliables)
      BY DEF NumbersMatch, BuffersAscending
    <2>4. k \in Int
      BY <1>0
    <2> HIDE DEF p, k
    <2>5. /\ new \in Seq(Packets) /\ SeqsMatch(new)
          /\ IdsOf(incomingReliables) \subseteq IdsOf(new)
          /\ IdsOf(new) \subseteq IdsOf(incomingReliables) \cup {p.id}
          /\ k < p.id /\ p.id < k + RecvWindow => p.id \in IdsOf(new)
          /\ Ascending(new)
      BY <1>0, <2>1, <2>2, <2>3, <2>4, InsertKeepsOrder
    <2> QED BY <1>3, <2>2, <2>5
  <1> HIDE DEF new, p
  <1>6. \A x \in network' : x \in network \/ (x.seq = m.seq /\ x.id = m.id)
    BY ReceiveInFlight DEF ReceiveData, Ack
  <1>7. /\ queuedReliables' = queuedReliables /\ outgoingReliablesSent' = outgoingReliablesSent
        /\ nextOutgoing' = nextOutgoing /\ Allocated' = Allocated
    BY <1>1 DEF senderVars, Allocated
  <1>8. NumbersMatch'
    <2>1. \A x \in network' : x.seq = SeqNumOf(x.id)
      BY <1>0, <1>6 DEF NumbersMatch
    <2> QED BY <1>1, <1>5, <1>7, <2>1 DEF NumbersMatch, SeqsMatch
  <1>9. PositionsInRange'
    <2>1. \A x \in network' : x.id < Allocated /\ Allocated - x.id < RecvWindow
      BY <1>6 DEF PositionsInRange
    <2>2. \A id \in IdsOf(new) : k <= id /\ id < k + RecvWindow /\ id < Allocated
      BY <1>0, <1>3, <1>5 DEF PositionsInRange
    <2> QED BY <1>1, <1>7, <2>1, <2>2 DEF PositionsInRange
  <1>10. AcksAreHonest'
    BY <1>1, <1>5, <1>6 DEF AcksAreHonest
  <1>11. InOrderExactlyOnce' /\ NeverStallsOnBuffered' /\ BuffersAscending' /\ NothingLost'
    BY <1>1, <1>5, <1>7
    DEF InOrderExactlyOnce, NeverStallsOnBuffered, BuffersAscending, NothingLost
  <1> QED BY <1>8, <1>9, <1>10, <1>11

LEMMA ReceiveOutsideInv ==
  ASSUME IInv, WithinWindow, NEW m \in network, ReceiveOutside(m), TypeOK'
  PROVE  IInv'
  <1> USE DEF IInv
  <1>1. /\ packetQueued => ~FrontIsNext
        /\ packetQueued' = TRUE /\ ~InReceiveWindow(m.seq)
        /\ incomingReliables' = incomingReliables
        /\ nextIncoming' = nextIncoming /\ delivered' = delivered
        /\ senderVars' = senderVars
    BY DEF ReceiveOutside, ReadDatagram
  <1>2. m.id < Len(delivered)
    BY <1>1, NextNotBuffered, ArrivalPosition
  <1>3. \A x \in network' : x \in network \/ (x.seq = m.seq /\ x.id = m.id)
    BY ReceiveInFlight DEF ReceiveData, Ack
  <1>4. Allocated' = Allocated
    BY <1>1 DEF senderVars, Allocated
  <1>5. NumbersMatch'
    BY <1>1, <1>3, <1>4 DEF NumbersMatch, SeqsMatch, senderVars
  <1>6. PositionsInRange'
    BY <1>1, <1>3, <1>4 DEF PositionsInRange, senderVars
  <1>7. AcksAreHonest'
    BY <1>1, <1>2, <1>3 DEF AcksAreHonest
  <1>8. InOrderExactlyOnce' /\ NeverStallsOnBuffered' /\ BuffersAscending' /\ NothingLost'
    BY <1>1, <1>4
    DEF InOrderExactlyOnce, NeverStallsOnBuffered, BuffersAscending, NothingLost, senderVars
  <1> QED BY <1>5, <1>6, <1>7, <1>8

LEMMA UnbufferInv ==
  ASSUME IInv, Unbuffer, TypeOK'
  PROVE  IInv'
  <1> USE DEF IInv
  <1> DEFINE k == Len(delivered)
             new == Tail(incomingReliables)
  <1>0. /\ k \in Nat /\ Allocated \in Nat /\ RecvWindow \in Nat
        /\ incomingReliables \in Seq(Packets) /\ incomingReliables # <<>>
        /\ delivered \in Seq(Nat)
    <2>1. RecvWindow \in Nat
      BY SeqNumAssumption
    <2>2. incomingReliables # <<>>
      BY DEF Unbuffer, FrontIsNext
    <2>3. k \in Nat /\ Allocated \in Nat
      BY DEF TypeOK, Allocated
    <2>4. incomingReliables \in Seq(Packets) /\ delivered \in Seq(Nat)
      BY DEF TypeOK
    <2> QED BY <2>1, <2>2, <2>3, <2>4
  <1>1. /\ FirstSeqnum(incomingReliables) = nextIncoming
        /\ packetQueued' /\ incomingReliables' = new
        /\ nextIncoming' = SeqAdd(nextIncoming, 1)
        /\ delivered' = Append(delivered, Head(incomingReliables).id)
        /\ senderVars' = senderVars /\ network' = network
    BY DEF Unbuffer, FrontIsNext
  <1>2. 1 \in DOMAIN incomingReliables /\ Head(incomingReliables) = incomingReliables[1]
    BY <1>0
  <1>3. incomingReliables[1].id = k /\ k \in IdsOf(incomingReliables)
    BY <1>1, <1>2, BufferedNumbers DEF FirstSeqnum
  <1>4. k < Allocated
    BY <1>3 DEF PositionsInRange
  <1>5. /\ new \in Seq(Packets) /\ Range(new) \subseteq Range(incomingReliables)
        /\ Range(incomingReliables) \subseteq Range(new) \cup {incomingReliables[1]}
        /\ Ascending(new)
    BY <1>0, TailKeepsOrder DEF BuffersAscending
  <1>6. IdsOf(new) \subseteq IdsOf(incomingReliables)
        /\ IdsOf(incomingReliables) \subseteq IdsOf(new) \cup {k}
    BY <1>3, <1>5, IdsOfRange
  <1>7. \A id \in IdsOf(new) : id \in Nat /\ k < id
    <2>1. SUFFICES ASSUME NEW j \in DOMAIN new
                   PROVE  new[j].id \in Nat /\ k < new[j].id
      BY DEF IdsOf
    <2>2. j + 1 \in DOMAIN incomingReliables /\ new[j] = incomingReliables[j + 1] /\ 1 < j + 1
      BY <1>0
    <2> QED BY <1>2, <1>3, <2>2, BufferedNumbers DEF BuffersAscending, Ascending
  <1> HIDE DEF new
  <1>8. Len(delivered') = k + 1 /\ delivered'[k + 1] = k
        /\ \A i \in 1 .. k : delivered'[i] = delivered[i]
    BY <1>0, <1>1, <1>2, <1>3
  <1>9. nextIncoming' = SeqNumOf(k + 1)
    BY <1>0, <1>1, SeqAddOf DEF NumbersMatch
  <1>10. /\ queuedReliables' = queuedReliables /\ outgoingReliablesSent' = outgoingReliablesSent
         /\ nextOutgoing' = nextOutgoing /\ Allocated' = Allocated
    BY <1>1 DEF senderVars, Allocated
  <1>11. NumbersMatch'
    BY <1>1, <1>5, <1>8, <1>9, <1>10 DEF NumbersMatch, SeqsMatch
  <1>12. PositionsInRange'
    <2>1. k + 1 <= Allocated
      BY <1>0, <1>4
    <2>2. \A id \in IdsOf(new) :
            k + 1 <= id /\ id < (k + 1) + RecvWindow /\ id < Allocated
      BY <1>0, <1>6, <1>7 DEF PositionsInRange
    <2> QED BY <1>1, <1>8, <1>10, <2>1, <2>2 DEF PositionsInRange
  <1>13. AcksAreHonest'
    <2>1. SUFFICES ASSUME NEW m \in network, m.kind = "ack"
                   PROVE  m.id < k + 1 \/ m.id \in IdsOf(new)
      BY <1>1, <1>8 DEF AcksAreHonest
    <2>2. m.id < k \/ m.id \in IdsOf(incomingReliables)
      BY <2>1 DEF AcksAreHonest
    <2>3. m.id \in Nat
      BY DEF TypeOK
    <2> QED BY <1>0, <1>6, <2>2, <2>3
  <1>14. InOrderExactlyOnce'
    BY <1>0, <1>8 DEF InOrderExactlyOnce
  <1>15. NothingLost'
    <2>1. SUFFICES ASSUME NEW id \in 0 .. Allocated - 1
                   PROVE  \/ id < k + 1
                          \/ id \in IdsOf(new)
                          \/ id \in IdsOf(queuedReliables)
                          \/ id \in IdsOf(outgoingReliablesSent)
      BY <1>1, <1>8, <1>10 DEF NothingLost
    <2> QED BY <1>0, <1>6 DEF NothingLost
  <1>16. BuffersAscending' /\ NeverStallsOnBuffered'
    BY <1>1, <1>5, <1>10 DEF BuffersAscending, NeverStallsOnBuffered
  <1> QED BY <1>11, <1>12, <1>13, <1>14, <1>15, <1>16

LEMMA DrainedInv ==
  ASSUME IInv, Drained, TypeOK'
  PROVE  IInv'
  <1> USE DEF IInv
  <1>1. /\ ~FrontIsNext /\ incomingReliables' = incomingReliables
        /\ nextIncoming' = nextIncoming /\ delivered' = delivered
        /\ senderVars' = senderVars /\ network' = network
    BY DEF Drained
  <1>2. Len(delivered) \notin IdsOf(incomingReliables)
    BY <1>1, NextNotBuffered
  <1>3. NeverStallsOnBuffered'
    BY <1>1, <1>2, BufferedNumbers DEF NeverStallsOnBuffered
  <1>4. Allocated' = Allocated
    BY <1>1 DEF senderVars, Allocated
  <1> QED BY <1>1, <1>3, <1>4
      DEF NumbersMatch, SeqsMatch, PositionsInRange, AcksAreHonest, InOrderExactlyOnce,
          NothingLost, BuffersAscending, senderVars

-----------------------------------------------------------------------------
(***************************************************************************)
(* The invariant.                                                          *)
(***************************************************************************)
LEMMA InitInv == Init => IInv
  <1> SUFFICES ASSUME Init PROVE IInv
    OBVIOUS
  <1>1. TypeOK
    BY InitType
  <1>2. /\ Len(delivered) = 0 /\ Allocated = 0
        /\ IdsOf(queuedReliables) = {} /\ IdsOf(outgoingReliablesSent) = {}
        /\ IdsOf(incomingReliables) = {}
        /\ Range(queuedReliables) = {} /\ Range(outgoingReliablesSent) = {}
        /\ Range(incomingReliables) = {}
    BY DEF Init, Allocated, IdsOf, Range
  <1>3. NumbersMatch
    BY <1>2, SeqNumOfZero DEF Init, NumbersMatch, SeqsMatch
  <1>4. PositionsInRange /\ AcksAreHonest
    BY <1>2 DEF Init, PositionsInRange, AcksAreHonest
  <1>5. InOrderExactlyOnce /\ NothingLost
    BY <1>2 DEF InOrderExactlyOnce, NothingLost
  <1>6. BuffersAscending /\ NeverStallsOnBuffered
    BY DEF Init, BuffersAscending, NeverStallsOnBuffered, Ascending
  <1> QED BY <1>1, <1>3, <1>4, <1>5, <1>6 DEF IInv

LEMMA SubmitInv ==
  ASSUME IInv, NEW n \in ChunkCounts, SubmitNumbered(n) \/ SubmitQueued(n), TypeOK'
  PROVE  IInv'
  <1>1. n \in Nat
    BY ChannelAssumption
  <1>2. CASE SubmitNumbered(n)
    <2>1. submitted' \in Nat
      BY DEF TypeOK
    <2>2. /\ Number(submitted', n)
          /\ queuedReliables' = queuedReliables \o NewPackets(n)
          /\ network' = StillInFlight(network, Allocated')
          /\ UNCHANGED <<outgoingReliablesSent, receiverVars>>
      BY <1>2 DEF SubmitNumbered
    <2> QED BY <1>1, <2>1, <2>2, NumberAndQueue
  <1>3. CASE SubmitQueued(n)
    <2>1. Allocated' = Allocated
      BY <1>3 DEF SubmitQueued, Allocated
    <2> QED BY <1>3, <2>1
        DEF IInv, SubmitQueued, NumbersMatch, SeqsMatch, PositionsInRange, AcksAreHonest,
            InOrderExactlyOnce, NothingLost, BuffersAscending, NeverStallsOnBuffered,
            receiverVars
  <1> QED BY <1>2, <1>3

LEMMA RunCommandQueuesInv ==
  ASSUME IInv, RunCommandQueues, TypeOK'
  PROVE  IInv'
  <1> DEFINE c == Head(queuedCommands)
  <1>0. queuedCommands \in Seq([cmd : Nat, chunks : Nat]) /\ queuedCommands # <<>>
    BY DEF IInv, TypeOK, RunCommandQueues
  <1>1. c \in [cmd : Nat, chunks : Nat]
    BY <1>0, HeadAndTail
  <1>2. /\ Number(c.cmd, c.chunks)
        /\ queuedReliables' = queuedReliables \o NewPackets(c.chunks)
        /\ network' = StillInFlight(network, Allocated')
        /\ UNCHANGED <<outgoingReliablesSent, receiverVars>>
    BY DEF RunCommandQueues
  <1> HIDE DEF c
  <1> QED BY <1>1, <1>2, NumberAndQueue

\* What changes neither the packets nor the datagrams, or only loses one.
LEMMA QuietInv ==
  ASSUME IInv, UpdateTimers \/ Lose \/ UNCHANGED vars, TypeOK'
  PROVE  IInv'
  <1>1. /\ network' \subseteq network
        /\ queuedReliables' = queuedReliables /\ outgoingReliablesSent' = outgoingReliablesSent
        /\ nextOutgoing' = nextOutgoing /\ numbered' = numbered
        /\ receiverVars' = receiverVars
    BY DEF UpdateTimers, Lose, vars, senderVars
  <1>2. Allocated' = Allocated
    BY <1>1 DEF Allocated
  <1> QED BY <1>1, <1>2
      DEF IInv, NumbersMatch, SeqsMatch, PositionsInRange, AcksAreHonest, InOrderExactlyOnce,
          NothingLost, BuffersAscending, NeverStallsOnBuffered, receiverVars

LEMMA NextInv == IInv /\ WithinWindow /\ [Next]_vars => IInv'
  <1> SUFFICES ASSUME IInv, WithinWindow, [Next]_vars PROVE IInv'
    OBVIOUS
  <1>0. TypeOK'
    BY NextType DEF IInv
  <1>1. CASE \E n \in ChunkCounts : SubmitNumbered(n) \/ SubmitQueued(n)
    BY <1>0, <1>1, SubmitInv
  <1>2. CASE RunCommandQueues
    BY <1>0, <1>2, RunCommandQueuesInv
  <1>3. CASE SendQueued
    BY <1>0, <1>3, SendQueuedInv
  <1>4. CASE Ping
    BY <1>0, <1>4, PingInv
  <1>5. CASE \E i \in DOMAIN outgoingReliablesSent : Resend(outgoingReliablesSent[i])
    BY <1>0, <1>5, ResendInv
  <1>6. CASE \E m \in network : ReceiveAck(m)
    BY <1>0, <1>6, ReceiveAckInv
  <1>7. CASE \E m \in network : ReceiveData(m)
    BY <1>0, <1>7, ReceiveInTurnInv, ReceiveAheadInv, ReceiveOutsideInv DEF ReceiveData
  <1>8. CASE Unbuffer
    BY <1>0, <1>8, UnbufferInv
  <1>9. CASE Drained
    BY <1>0, <1>9, DrainedInv
  <1>10. CASE UpdateTimers \/ Lose \/ UNCHANGED vars
    BY <1>0, <1>10, QuietInv
  <1> QED BY <1>1, <1>2, <1>3, <1>4, <1>5, <1>6, <1>7, <1>8, <1>9, <1>10 DEF Next

THEOREM Invariant == Spec /\ []WithinWindow => []IInv
  <1> QED BY InitInv, NextInv, PTL DEF Spec

-----------------------------------------------------------------------------
(***************************************************************************)
(* How far the sender's backlog grows.                                     *)
(***************************************************************************)

\* What the limits allow: a command numbered behind a short queue, a ping.
LEMMA Limits ==
  /\ QueueLimit \in Nat /\ BacklogLimit \in Int
  /\ MaxWindow + 2 <= BacklogLimit /\ QueueLimit + MaxPings <= BacklogLimit
  /\ \A n \in ChunkCounts, queued \in Nat, w \in MinWindow .. MaxWindow :
       queued + 1 < w \div 2 \/ queued < Requeue => queued + n <= QueueLimit
  <1> DEFINE most == MaxWindow \div 2 - 2
             short == Max({most, Requeue - 1})
  <1>1. MaxWindow \in Nat /\ MinWindow \in Nat /\ Requeue \in Nat /\ MaxPings \in Nat
    BY ChannelAssumption
  <1>2. most \in Int /\ Requeue - 1 \in Int
        /\ \A w \in MinWindow .. MaxWindow : w \div 2 - 2 <= most
    BY <1>1
  <1>3. short \in Int /\ most <= short /\ Requeue - 1 <= short
    <2> HIDE DEF most
    <2> QED BY <1>2, MaxOfTwo
  <1> HIDE DEF short
  <1>4. Max(ChunkCounts) \in Nat /\ Max(ChunkCounts) >= 1
        /\ \A n \in ChunkCounts : n \in Nat /\ n <= Max(ChunkCounts)
    <2>1. /\ ChunkCounts \subseteq Nat /\ ChunkCounts # {}
          /\ \A n \in ChunkCounts : n >= 1 /\ n <= RecvWindow
          /\ RecvWindow \in Nat
      BY SeqNumAssumption, ChannelAssumption
    <2>2. ChunkCounts \subseteq Int /\ RecvWindow \in Int
      BY <2>1
    <2>3. Max(ChunkCounts) \in ChunkCounts /\ \A n \in ChunkCounts : n <= Max(ChunkCounts)
      BY <2>1, <2>2, MaxIs
    <2> QED BY <2>1, <2>3
  <1>5. QueueLimit = short + Max(ChunkCounts)
    BY DEF QueueLimit, short
  <1>6. QueueLimit \in Nat
    BY <1>1, <1>3, <1>4, <1>5
  <1>7. BacklogLimit \in Int /\ MaxWindow + 2 <= BacklogLimit
        /\ QueueLimit + MaxPings <= BacklogLimit
    BY <1>1, <1>6, MaxOfTwo DEF BacklogLimit
  <1>8. ASSUME NEW n \in ChunkCounts, NEW queued \in Nat, NEW w \in MinWindow .. MaxWindow,
               queued + 1 < w \div 2 \/ queued < Requeue
        PROVE  queued + n <= QueueLimit
    <2>1. queued <= short
      <3>1. CASE queued + 1 < w \div 2
        <4>1. w \div 2 \in Int /\ w \div 2 - 2 <= most
          BY <1>1, <1>2
        <4> HIDE DEF most
        <4> QED BY <1>2, <1>3, <3>1, <4>1
      <3>2. CASE queued < Requeue
        BY <1>1, <1>3, <3>2
      <3> QED BY <1>8, <3>1, <3>2
    <2> QED BY <1>3, <1>4, <1>5, <2>1
  <1> QED BY <1>6, <1>7, <1>8

\* The packets of a list are no fewer than their positions in the stream.
LEMMA IdsAreFinite ==
  ASSUME NEW list \in Seq(Packets)
  PROVE  /\ IsFiniteSet(IdsOf(list)) /\ Cardinality(IdsOf(list)) \in Nat
         /\ Cardinality(IdsOf(list)) <= Len(list)
  <1> DEFINE f == [i \in 1 .. Len(list) |-> list[i].id]
  <1>1. f \in Surjection(1 .. Len(list), IdsOf(list))
    BY DEF Surjection, IdsOf
  <1> HIDE DEF f
  <1>2. Len(list) \in Nat
    OBVIOUS
  <1>3. IsFiniteSet(1 .. Len(list)) /\ Cardinality(1 .. Len(list)) = Len(list)
    BY <1>2, FS_Interval
  <1>4. IsFiniteSet(IdsOf(list)) /\ Cardinality(IdsOf(list)) <= Len(list)
    BY <1>1, <1>3, FS_Surjection
  <1> QED BY <1>4, FS_CardinalityType

\* In an ascending list the front has the lowest position.
LEMMA FrontIsOldest ==
  ASSUME NEW list \in Seq(Packets), Ascending(list), NEW id \in IdsOf(list)
  PROVE  /\ list # <<>> /\ 1 \in DOMAIN list /\ list[1].id \in IdsOf(list)
         /\ list[1].id \in Nat /\ id \in Nat /\ list[1].id <= id
  <1>1. PICK i \in DOMAIN list : id = list[i].id
    BY DEF IdsOf
  <1>2. 1 \in DOMAIN list /\ list # <<>> /\ i \in Nat /\ i >= 1
    BY <1>1
  <1>3. list[1].id \in Nat /\ list[i].id \in Nat /\ list[1].id \in IdsOf(list)
    BY <1>1, <1>2, ElementOf
  <1>4. i > 1 => list[1].id < list[i].id
    BY <1>1, <1>2 DEF Ascending
  <1> QED BY <1>1, <1>2, <1>3, <1>4

\* The packets of a program that wait are some of the queue.
LEMMA OfProgramFinite ==
  TypeOK =>
    /\ IsFiniteSet(OfProgramQueued) /\ Cardinality(OfProgramQueued) \in Nat
    /\ Cardinality(OfProgramQueued) <= Len(queuedReliables)
  <1> SUFFICES ASSUME TypeOK
               PROVE  /\ IsFiniteSet(OfProgramQueued) /\ Cardinality(OfProgramQueued) \in Nat
                      /\ Cardinality(OfProgramQueued) <= Len(queuedReliables)
    OBVIOUS
  <1>1. queuedReliables \in Seq(Packets) /\ Len(queuedReliables) \in Nat
    BY DEF TypeOK
  <1>2. IsFiniteSet(IdsOf(queuedReliables)) /\ Cardinality(IdsOf(queuedReliables)) \in Nat
        /\ Cardinality(IdsOf(queuedReliables)) <= Len(queuedReliables)
    BY <1>1, IdsAreFinite
  <1>3. OfProgramQueued \in SUBSET IdsOf(queuedReliables)
    BY DEF OfProgramQueued
  <1>4. IsFiniteSet(OfProgramQueued)
        /\ Cardinality(OfProgramQueued) <= Cardinality(IdsOf(queuedReliables))
    BY <1>2, <1>3, FS_Subset
  <1>5. Cardinality(OfProgramQueued) \in Nat
    BY <1>4, FS_CardinalityType
  <1> QED BY <1>1, <1>2, <1>4, <1>5

\* There are only so many pings in a stream.
LEMMA PingsFinite ==
  TypeOK =>
    IsFiniteSet(PingPositions) /\ Cardinality(PingPositions) \in Nat
  <1> SUFFICES ASSUME TypeOK
               PROVE  IsFiniteSet(PingPositions) /\ Cardinality(PingPositions) \in Nat
    OBVIOUS
  <1>1. Len(numbered) \in Nat /\ PingPositions \in SUBSET (1 .. Len(numbered))
    BY DEF TypeOK, PingPositions
  <1>2. IsFiniteSet(1 .. Len(numbered))
    BY <1>1, FS_Interval
  <1>3. IsFiniteSet(PingPositions)
    BY <1>1, <1>2, FS_Subset
  <1> QED BY <1>3, FS_CardinalityType

(***************************************************************************)
(* Counting: what was numbered since the front of the send queue is of a   *)
(* program and waits in it, or is a ping.                                  *)
(***************************************************************************)
QueueIsARun ==
  /\ TypeOK /\ Ascending(queuedReliables) /\ OnlyPingsOvertake
  /\ \A id \in IdsOf(queuedReliables) : id < Allocated

LEMMA QueueSpan ==
  QueueIsARun => \A id \in IdsOf(queuedReliables) :
    Allocated - id <= Cardinality(OfProgramQueued) + Cardinality(PingPositions)
  <1> SUFFICES ASSUME QueueIsARun, NEW id \in IdsOf(queuedReliables)
               PROVE  Allocated - id <= Cardinality(OfProgramQueued) + Cardinality(PingPositions)
    OBVIOUS
  <1> USE DEF QueueIsARun
  <1> DEFINE first == queuedReliables[1].id
             span == first .. Allocated - 1
             pings == {i - 1 : i \in PingPositions}
  <1>1. /\ queuedReliables # <<>> /\ first \in Nat /\ id \in Nat /\ first <= id
        /\ Allocated \in Nat
    BY FrontIsOldest DEF TypeOK, Allocated
  <1>2. IsFiniteSet(span) /\ Cardinality(span) = Allocated - first
    <2>1. first \in Int /\ Allocated - 1 \in Int /\ ~(first > Allocated - 1)
      BY <1>1
    <2>2. IsFiniteSet(span) /\ Cardinality(span) = (Allocated - 1) - first + 1
      BY <2>1, FS_Interval
    <2> QED BY <1>1, <2>2
  <1>3. /\ IsFiniteSet(OfProgramQueued) /\ IsFiniteSet(PingPositions)
        /\ Cardinality(OfProgramQueued) \in Nat /\ Cardinality(PingPositions) \in Nat
    BY OfProgramFinite, PingsFinite
  <1>4. IsFiniteSet(pings) /\ Cardinality(pings) <= Cardinality(PingPositions)
    <2> DEFINE f == [i \in PingPositions |-> i - 1]
    <2>1. f \in Surjection(PingPositions, pings)
      BY DEF Surjection
    <2> HIDE DEF f, pings
    <2> QED BY <1>3, <2>1, FS_Surjection
  <1>5. span \subseteq OfProgramQueued \cup pings
    <2>1. SUFFICES ASSUME NEW k \in span, numbered[k + 1] = 0 PROVE k \in pings
      BY <1>1 DEF OnlyPingsOvertake, OfProgramQueued
    <2>2. k + 1 \in DOMAIN numbered /\ k = (k + 1) - 1
      BY <1>1, <2>1 DEF Allocated, TypeOK
    <2> QED BY <2>1, <2>2 DEF PingPositions
  <1> HIDE DEF span, pings
  <1>6. /\ IsFiniteSet(OfProgramQueued \cup pings)
        /\ Cardinality(OfProgramQueued \cup pings) =
             Cardinality(OfProgramQueued) + Cardinality(pings)
               - Cardinality(OfProgramQueued \cap pings)
    BY <1>3, <1>4, FS_Union
  <1>7. Cardinality(span) <= Cardinality(OfProgramQueued \cup pings)
    BY <1>5, <1>6, FS_Subset
  <1>8. Cardinality(OfProgramQueued \cap pings) \in Nat /\ Cardinality(pings) \in Nat
    BY <1>3, <1>4, FS_Intersection, FS_CardinalityType
  <1> QED BY <1>1, <1>2, <1>3, <1>4, <1>6, <1>7, <1>8

\* The same of the next state.
LEMMA QueueSpanNext ==
  QueueIsARun' => (\A id \in IdsOf(queuedReliables) :
    Allocated - id <= Cardinality(OfProgramQueued) + Cardinality(PingPositions))'
  BY QueueSpan, PTL

LEMMA OfProgramFiniteNext == TypeOK' => (Cardinality(OfProgramQueued) \in Nat)'
  <1>1. TypeOK => Cardinality(OfProgramQueued) \in Nat
    BY OfProgramFinite
  <1> QED BY <1>1, PTL

LEMMA PingsFiniteNext == TypeOK' => (Cardinality(PingPositions) \in Nat)'
  <1>1. TypeOK => Cardinality(PingPositions) \in Nat
    BY PingsFinite
  <1> QED BY <1>1, PTL

(***************************************************************************)
(* getOutgoingSequenceNumber keeps a new packet within MaxWindow + 2 of    *)
(* the oldest packet on the wire; across the wrap it is the second branch  *)
(* that allows one packet more than the first.                             *)
(***************************************************************************)
LEMMA NumberLimit ==
  ASSUME IInv, BacklogBounded, BacklogLimit < RecvWindow,
         NEW n \in 1 .. RecvWindow, CanNumber(n), NEW id \in IdsOf(outgoingReliablesSent)
  PROVE  (Allocated + n) - id <= MaxWindow + 2
  <1> USE DEF IInv
  <1> DEFINE low == outgoingReliablesSent[1].id
             lowest == outgoingReliablesSent[1].seq
             next == SeqNumOf(Allocated + n - 1)
             d == (Allocated + n - 1) - low
  <1>1. /\ outgoingReliablesSent # <<>> /\ 1 \in DOMAIN outgoingReliablesSent
        /\ low \in IdsOf(outgoingReliablesSent) /\ low \in Nat /\ id \in Nat /\ low <= id
    BY FrontIsOldest DEF TypeOK, BuffersAscending
  <1>2. /\ Allocated \in Nat /\ RecvWindow \in Nat /\ SeqSpace = 2 * RecvWindow
        /\ n \in Nat /\ n >= 1 /\ n <= RecvWindow
        /\ MaxWindow \in Nat /\ windowSize \in Nat /\ windowSize <= MaxWindow
        /\ BacklogLimit \in Int
    BY SeqNumAssumption, ChannelAssumption, Limits DEF TypeOK, Allocated
  <1>3. low < Allocated /\ Allocated - low < RecvWindow
    BY <1>1, <1>2 DEF PositionsInRange, BacklogBounded
  <1>4. lowest = SeqNumOf(low)
    <2>1. outgoingReliablesSent[1] \in Range(outgoingReliablesSent)
      BY <1>1 DEF Range
    <2> QED BY <2>1 DEF NumbersMatch, SeqsMatch
  <1>5. SeqAdd(nextOutgoing, n - 1) = next
    <2>1. Allocated \in Int /\ n - 1 \in Int /\ Allocated + (n - 1) = Allocated + n - 1
      BY <1>2
    <2> QED BY <2>1, SeqAddOf DEF NumbersMatch
  <1>6. NumberAvailable(next)
    <2>1. n - 1 \in 0 .. n - 1
      BY <1>2
    <2> QED BY <1>5, <2>1 DEF CanNumber
  <1>7. /\ lowest \in SeqNums /\ next \in SeqNums
        /\ Distance(lowest, next) = d /\ d >= 1 /\ d \in Int
    <2>1. /\ low \in Int /\ Allocated + n - 1 \in Int /\ low <= Allocated + n - 1
          /\ (Allocated + n - 1) - low < SeqSpace
      BY <1>1, <1>2, <1>3
    <2>2. Distance(SeqNumOf(low), next) = d
      BY <2>1, DistanceOf
    <2> QED BY <1>1, <1>2, <1>3, <1>4, <2>1, <2>2, SeqNumOfType
  <1> HIDE DEF next, lowest, d
  <1>8. IF lowest < next THEN next - lowest <= windowSize
        ELSE next + (SeqNumMax - lowest) <= windowSize
    BY <1>1, <1>6 DEF NumberAvailable, FirstSeqnum, lowest
  <1>9. d <= windowSize + 1
    BY <1>2, <1>7, <1>8 DEF Distance, SeqNumMax, SeqNums
  <1> QED BY <1>1, <1>2, <1>9 DEF d

(***************************************************************************)
(* Packets of a command, or one ping, are numbered and queued.             *)
(***************************************************************************)
LEMMA QueueGrows ==
  ASSUME IInv, IInv', BacklogInv, BacklogLimit < RecvWindow,
         NEW n \in 1 .. RecvWindow, NEW cmd \in Nat, Number(cmd, n),
         queuedReliables' = queuedReliables \o NewPackets(n),
         outgoingReliablesSent' = outgoingReliablesSent,
         IF cmd # 0 THEN Len(queuedReliables) + n <= QueueLimit ELSE n = 1 /\ PingRoom,
         \A i \in DOMAIN queuedCommands' :
           queuedCommands'[i].cmd > 0 /\ queuedCommands'[i].chunks \in ChunkCounts
  PROVE  BacklogInv'
  <1> USE DEF IInv
  <1> DEFINE new == NewPackets(n)
  <1>1. /\ Allocated \in Nat /\ Allocated' = Allocated + n /\ n \in Nat /\ n >= 1
        /\ TypeOK /\ TypeOK'
        /\ queuedReliables \in Seq(Packets) /\ Len(queuedReliables) \in Nat
        /\ queuedReliables' \in Seq(Packets)
    <2>1. n \in Nat /\ n >= 1
      BY SeqNumAssumption
    <2>2. TypeOK /\ TypeOK'
      OBVIOUS
    <2>3. Allocated' = Allocated + n
      BY <2>1, <2>2, NumberType
    <2> HIDE DEF IInv
    <2>4. Allocated \in Nat /\ queuedReliables \in Seq(Packets) /\ queuedReliables' \in Seq(Packets)
      BY <2>2 DEF TypeOK, Allocated
    <2> QED BY <2>1, <2>2, <2>3, <2>4
  <1>2. /\ new \in Seq(Packets) /\ Len(new) = n
        /\ IdsOf(new) = Allocated .. Allocated + n - 1
        /\ \A k \in 1 .. n : new[k].id = Allocated + k - 1
    <2>1. nextOutgoing = SeqNumOf(Allocated) /\ nextOutgoing \in SeqNums /\ numbered \in Seq(Nat)
      BY DEF TypeOK, NumbersMatch
    <2>2. /\ new \in Seq(Packets) /\ Len(new) = n
          /\ \A k \in 1 .. n :
               new[k] = [seq |-> SeqAdd(nextOutgoing, k - 1), id |-> Allocated + k - 1]
      BY <1>1, <2>1, NewPacketsType
    <2>3. IdsOf(new) = Allocated .. Allocated + n - 1
      BY <1>1, <2>1, NewPacketsMatch
    <2> QED BY <2>2, <2>3
  <1> HIDE DEF new, IInv
  <1>3. IdsOf(queuedReliables') = IdsOf(queuedReliables) \cup (Allocated .. Allocated + n - 1)
    <2>1. Range(queuedReliables') = Range(queuedReliables) \cup Range(new)
      BY <1>1, <1>2, ConcatIds DEF new
    <2> QED BY <1>2, <2>1, IdsOfRange
  <1>4. \A id \in IdsOf(queuedReliables) : id \in Nat /\ id < Allocated
    BY <1>1, ElementOf DEF IInv, IdsOf, PositionsInRange
  <1>5. /\ Len(queuedReliables') = Len(queuedReliables) + n
        /\ \A j \in 1 .. Len(queuedReliables) + n :
             queuedReliables'[j] = IF j <= Len(queuedReliables) THEN queuedReliables[j]
                                   ELSE new[j - Len(queuedReliables)]
    <2>1. queuedReliables' = queuedReliables \o new
      BY DEF new
    <2>2. /\ Len(queuedReliables \o new) = Len(queuedReliables) + n
          /\ \A j \in 1 .. Len(queuedReliables) + n :
               (queuedReliables \o new)[j] = IF j <= Len(queuedReliables) THEN queuedReliables[j]
                                             ELSE new[j - Len(queuedReliables)]
      BY <1>1, <1>2, ConcatProperties
    <2> QED BY <2>1, <2>2
  <1>6. Ascending(queuedReliables')
    <2>1. SUFFICES ASSUME NEW i \in 1 .. Len(queuedReliables) + n,
                          NEW j \in 1 .. Len(queuedReliables) + n, i < j
                   PROVE  queuedReliables'[i].id < queuedReliables'[j].id
      BY <1>1, <1>5 DEF Ascending
    <2>2. CASE j <= Len(queuedReliables)
      <3>1. /\ i \in DOMAIN queuedReliables /\ j \in DOMAIN queuedReliables
            /\ queuedReliables'[i] = queuedReliables[i] /\ queuedReliables'[j] = queuedReliables[j]
        BY <1>1, <1>5, <2>1, <2>2
      <3> QED BY <2>1, <3>1 DEF BacklogInv, Ascending
    <2>3. CASE i <= Len(queuedReliables) /\ j > Len(queuedReliables)
      <3>1. i \in DOMAIN queuedReliables /\ j - Len(queuedReliables) \in 1 .. n
        BY <1>1, <2>3
      <3>2. queuedReliables[i].id \in IdsOf(queuedReliables)
        BY <3>1 DEF IdsOf
      <3>3. new[j - Len(queuedReliables)].id >= Allocated
        BY <1>1, <1>2, <3>1
      <3>4. queuedReliables'[i] = queuedReliables[i]
            /\ queuedReliables'[j] = new[j - Len(queuedReliables)]
        BY <1>1, <1>5, <2>1, <2>3
      <3>5. new[j - Len(queuedReliables)].id \in Nat /\ queuedReliables[i].id < Allocated
            /\ queuedReliables[i].id \in Nat
        BY <1>1, <1>2, <1>4, <3>1, <3>2
      <3> QED BY <1>1, <3>3, <3>4, <3>5
    <2>4. CASE i > Len(queuedReliables)
      <3>1. i - Len(queuedReliables) \in 1 .. n /\ j - Len(queuedReliables) \in 1 .. n
        BY <1>1, <2>1, <2>4
      <3>2. /\ queuedReliables'[i].id = Allocated + (i - Len(queuedReliables)) - 1
            /\ queuedReliables'[j].id = Allocated + (j - Len(queuedReliables)) - 1
        <4>1. /\ queuedReliables'[i] = new[i - Len(queuedReliables)]
              /\ queuedReliables'[j] = new[j - Len(queuedReliables)]
          BY <1>1, <1>5, <2>1, <2>4
        <4> QED BY <1>2, <3>1, <4>1
      <3> QED BY <1>1, <2>1, <3>2
    <2>5. j <= Len(queuedReliables) \/ i > Len(queuedReliables)
          \/ (i <= Len(queuedReliables) /\ j > Len(queuedReliables))
      BY <1>1, <2>1
    <2> QED BY <2>2, <2>3, <2>4, <2>5
  <1>7. /\ numbered \in Seq(Nat) /\ numbered' \in Seq(Nat)
        /\ \A i \in 1 .. Allocated : numbered'[i] = numbered[i]
        /\ \A i \in Allocated + 1 .. Allocated + n : numbered'[i] = cmd
        /\ DOMAIN numbered = 1 .. Allocated /\ DOMAIN numbered' = 1 .. Allocated + n
    <2>1. numbered' = numbered \o [k \in 1 .. n |-> cmd]
      BY DEF Number
    <2>2. [k \in 1 .. n |-> cmd] \in Seq(Nat) /\ Len([k \in 1 .. n |-> cmd]) = n
      BY <1>1
    <2>3. numbered \in Seq(Nat) /\ numbered' \in Seq(Nat) /\ Allocated = Len(numbered)
      BY <1>1 DEF TypeOK, Allocated
    <2> QED BY <1>1, <2>1, <2>2, <2>3, ConcatProperties
  <1>8. OnlyPingsOvertake'
    <2>1. SUFFICES ASSUME NEW id \in queuedReliables'[1].id .. Allocated + n - 1
                   PROVE  id \in IdsOf(queuedReliables') \/ numbered'[id + 1] = 0
      <3>1. Allocated' - 1 = Allocated + n - 1
        BY <1>1
      <3> QED BY <3>1 DEF OnlyPingsOvertake
    <2>2. /\ 1 \in DOMAIN queuedReliables' /\ queuedReliables'[1].id \in Nat
          /\ 1 \in 1 .. Len(queuedReliables) + n
      <3>1. Len(queuedReliables') \in Nat /\ Len(queuedReliables') >= 1
        BY <1>1, <1>5
      <3>2. 1 \in DOMAIN queuedReliables' /\ 1 \in 1 .. Len(queuedReliables) + n
        BY <1>1, <1>5, <3>1
      <3> QED BY <1>1, <3>2, ElementOf
    <2>3. id \in Nat /\ id <= Allocated + n - 1
      <3>1. Allocated + n - 1 \in Int
        BY <1>1
      <3> QED BY <2>1, <2>2, <3>1
    <2>4. CASE id >= Allocated
      BY <1>1, <1>3, <2>3, <2>4
    <2>5. CASE id < Allocated /\ queuedReliables = <<>>
      <3>1. queuedReliables'[1] = new[1] /\ 1 \in 1 .. n
        BY <1>1, <1>5, <2>2, <2>5
      <3> QED BY <1>1, <1>2, <2>3, <2>5, <3>1
    <2>6. CASE id < Allocated /\ queuedReliables # <<>>
      <3>1. queuedReliables'[1] = queuedReliables[1]
        BY <1>1, <1>5, <2>2, <2>6
      <3>2. id \in queuedReliables[1].id .. Allocated - 1 /\ id + 1 \in 1 .. Allocated
        BY <1>1, <2>1, <2>3, <2>6, <3>1
      <3> QED BY <1>3, <1>7, <2>6, <3>2 DEF BacklogInv, OnlyPingsOvertake
    <2> QED BY <1>1, <2>3, <2>4, <2>5, <2>6
  <1>9. Cardinality(OfProgramQueued') <= QueueLimit
    <2>1. CASE cmd # 0
      <3>1. OfProgramQueued' \in SUBSET IdsOf(queuedReliables')
        BY DEF OfProgramQueued
      <3>2. /\ IsFiniteSet(IdsOf(queuedReliables'))
            /\ Cardinality(IdsOf(queuedReliables')) \in Nat
            /\ Cardinality(IdsOf(queuedReliables')) <= Len(queuedReliables) + n
        BY <1>1, <1>5, IdsAreFinite
      <3>3. /\ IsFiniteSet(OfProgramQueued')
            /\ Cardinality(OfProgramQueued') <= Cardinality(IdsOf(queuedReliables'))
        BY <3>1, <3>2, FS_Subset
      <3>4. Cardinality(OfProgramQueued') \in Nat
        BY <3>3, FS_CardinalityType
      <3> QED BY <1>1, <2>1, <3>2, <3>3, <3>4, Limits
    <2>2. CASE cmd = 0
      <3>1. n = 1 /\ (Allocated .. Allocated + n - 1) = {Allocated}
        BY <1>1, <2>2
      <3>2. numbered'[Allocated + 1] = 0
        BY <1>1, <1>7, <2>2, <3>1
      <3>3. \A id \in IdsOf(queuedReliables) : numbered'[id + 1] = numbered[id + 1]
        BY <1>1, <1>4, <1>7
      <3>4. OfProgramQueued' = OfProgramQueued
        BY <1>3, <3>1, <3>2, <3>3 DEF OfProgramQueued
      <3> QED BY <3>4 DEF BacklogInv
    <2> QED BY <2>1, <2>2
  <1>10. Cardinality(PingPositions') <= MaxPings
    <2>1. CASE cmd # 0
      <3>1. PingPositions' = PingPositions
        BY <1>1, <1>7, <2>1 DEF PingPositions
      <3> QED BY <3>1 DEF BacklogInv
    <2>2. CASE cmd = 0
      <3>1. PingPositions' = PingPositions \cup {Allocated + 1}
        BY <1>1, <1>7, <2>2 DEF PingPositions
      <3>2. IsFiniteSet(PingPositions) /\ Cardinality(PingPositions) \in Nat
            /\ Cardinality(PingPositions) < MaxPings /\ MaxPings \in Nat
        BY <1>1, <2>2, PingsFinite, ChannelAssumption DEF PingRoom, PingPositions
      <3>3. \/ Cardinality(PingPositions') = Cardinality(PingPositions)
            \/ Cardinality(PingPositions') = Cardinality(PingPositions) + 1
        BY <3>1, <3>2, FS_AddElement
      <3> QED BY <3>2, <3>3
    <2> QED BY <2>1, <2>2
  <1>11. BacklogBounded'
    <2>1. QueueIsARun'
      BY <1>1, <1>6, <1>8 DEF IInv, QueueIsARun, PositionsInRange
    <2>2. \A id \in IdsOf(queuedReliables') :
            Allocated' - id <= Cardinality(OfProgramQueued') + Cardinality(PingPositions')
      BY <2>1, QueueSpanNext
    <2>3. Cardinality(OfProgramQueued') \in Nat /\ Cardinality(PingPositions') \in Nat
      BY <1>1, OfProgramFiniteNext, PingsFiniteNext
    <2>4. \A id \in IdsOf(queuedReliables') : id \in Nat
      BY <1>1, ElementOf DEF IdsOf
    <2>5. \A id \in IdsOf(queuedReliables') : Allocated' - id <= BacklogLimit
      <3>1. Cardinality(OfProgramQueued') + Cardinality(PingPositions') <= BacklogLimit
        <4>1. QueueLimit \in Nat /\ MaxPings \in Nat /\ BacklogLimit \in Int
          BY Limits, ChannelAssumption
        <4>2. QueueLimit + MaxPings <= BacklogLimit
          BY Limits
        <4> QED BY <1>9, <1>10, <2>3, <4>1, <4>2
      <3>2. TAKE id \in IdsOf(queuedReliables')
      <3>3. Allocated' \in Nat /\ id \in Nat /\ BacklogLimit \in Int
        BY <1>1, <2>4, Limits
      <3>4. Allocated' - id <= Cardinality(OfProgramQueued') + Cardinality(PingPositions')
        BY <2>2
      <3> QED BY <2>3, <3>1, <3>3, <3>4
    <2>6. \A id \in IdsOf(outgoingReliablesSent) : Allocated + n - id <= BacklogLimit
      <3>1. TAKE id \in IdsOf(outgoingReliablesSent)
      <3>2. (Allocated + n) - id <= MaxWindow + 2
        BY NumberLimit DEF BacklogInv, Number
      <3>3. id \in Nat /\ MaxWindow \in Nat
        BY ElementOf, ChannelAssumption DEF IInv, TypeOK, IdsOf
      <3>4. MaxWindow + 2 <= BacklogLimit /\ BacklogLimit \in Int
        BY Limits
      <3> HIDE DEF IInv
      <3> QED BY <1>1, <3>2, <3>3, <3>4
    <2>7. \A id \in IdsOf(outgoingReliablesSent') : Allocated' - id <= BacklogLimit
      <3>1. IdsOf(outgoingReliablesSent') = IdsOf(outgoingReliablesSent)
        OBVIOUS
      <3>2. Allocated' = Allocated + n
        BY <1>1
      <3>3. \A id \in IdsOf(outgoingReliablesSent) : Allocated' - id <= BacklogLimit
        <4>1. \A id \in IdsOf(outgoingReliablesSent) : id \in Int
          BY ElementOf DEF IInv, TypeOK, IdsOf
        <4>2. n \in Int /\ Allocated \in Int /\ BacklogLimit \in Int
          BY <1>1, Limits
        <4> QED BY <2>6, <3>2, <4>1, <4>2
      <3> QED BY <3>1, <3>3
    <2> QED BY <2>5, <2>7 DEF BacklogBounded
  <1> QED BY <1>6, <1>8, <1>9, <1>10, <1>11 DEF BacklogInv

(***************************************************************************)
(* Steps that number nothing, and let no packet onto the wire that did not *)
(* wait before.                                                            *)
(***************************************************************************)
LEMMA NothingNumbered ==
  ASSUME TypeOK, TypeOK', BacklogInv, numbered' = numbered,
         queuedReliables' = queuedReliables,
         \A id \in IdsOf(outgoingReliablesSent') :
           id \in IdsOf(queuedReliables) \cup IdsOf(outgoingReliablesSent),
         \A i \in DOMAIN queuedCommands' :
           queuedCommands'[i].cmd > 0 /\ queuedCommands'[i].chunks \in ChunkCounts
  PROVE  BacklogInv'
  <1>1. Allocated' = Allocated /\ OfProgramQueued' = OfProgramQueued
        /\ PingPositions' = PingPositions
    BY DEF Allocated, OfProgramQueued, PingPositions
  <1>2. Ascending(queuedReliables') /\ OnlyPingsOvertake'
    BY <1>1 DEF BacklogInv, OnlyPingsOvertake
  <1>3. BacklogBounded'
    BY <1>1 DEF BacklogInv, BacklogBounded
  <1> QED BY <1>1, <1>2, <1>3 DEF BacklogInv

\* The front of the send queue is put on the wire.
LEMMA SendQueuedBacklog ==
  ASSUME IInv, BacklogInv, SendQueued, TypeOK'
  PROVE  BacklogInv'
  <1> DEFINE p == Head(queuedReliables)
  <1>0. /\ TypeOK /\ queuedReliables \in Seq(Packets) /\ queuedReliables # <<>>
        /\ outgoingReliablesSent \in Seq(Packets) /\ Allocated \in Nat
    BY DEF IInv, TypeOK, SendQueued, Allocated
  <1>1. /\ queuedReliables' = Tail(queuedReliables) /\ numbered' = numbered
        /\ queuedCommands' = queuedCommands
        /\ outgoingReliablesSent' = InsertPacket(outgoingReliablesSent, p, OldestSendable(nextOutgoing'))
    BY DEF SendQueued, SendAsPacketReliable
  <1>2. /\ p \in Packets /\ p = queuedReliables[1]
        /\ p.id \in IdsOf(queuedReliables) /\ p.id \in Nat
    BY <1>0, HeadAndTail, ElementOf
  <1> HIDE DEF p
  <1>3. /\ Range(queuedReliables') \subseteq Range(queuedReliables)
        /\ Range(queuedReliables) \subseteq Range(queuedReliables') \cup {p}
        /\ Ascending(queuedReliables') /\ queuedReliables' \in Seq(Packets)
    BY <1>0, <1>1, <1>2, TailKeepsOrder DEF BacklogInv
  <1>4. /\ IdsOf(queuedReliables') \subseteq IdsOf(queuedReliables)
        /\ IdsOf(queuedReliables) \subseteq IdsOf(queuedReliables') \cup {p.id}
    BY <1>3, IdsOfRange
  <1>5. IdsOf(outgoingReliablesSent') \subseteq IdsOf(outgoingReliablesSent) \cup {p.id}
    <2>1. Range(outgoingReliablesSent') \subseteq Range(outgoingReliablesSent) \cup {p}
      BY <1>0, <1>1, <1>2, InsertPacketSet
    <2> QED BY <2>1, IdsOfRange
  <1>6. Allocated' = Allocated /\ PingPositions' = PingPositions
    BY <1>1 DEF Allocated, PingPositions
  <1>7. BacklogBounded'
    BY <1>2, <1>4, <1>5, <1>6 DEF BacklogInv, BacklogBounded
  <1>8. Cardinality(OfProgramQueued') <= QueueLimit
    <2>1. OfProgramQueued' \in SUBSET OfProgramQueued
      BY <1>1, <1>4 DEF OfProgramQueued
    <2>2. IsFiniteSet(OfProgramQueued) /\ Cardinality(OfProgramQueued) \in Nat
      BY <1>0, OfProgramFinite
    <2>3. IsFiniteSet(OfProgramQueued') /\ Cardinality(OfProgramQueued') <= Cardinality(OfProgramQueued)
      BY <2>1, <2>2, FS_Subset
    <2>4. Cardinality(OfProgramQueued') \in Nat
      BY <2>3, FS_CardinalityType
    <2> QED BY <2>2, <2>3, <2>4, Limits DEF BacklogInv
  <1>9. OnlyPingsOvertake'
    <2>1. SUFFICES ASSUME queuedReliables' # <<>>,
                          NEW id \in queuedReliables'[1].id .. Allocated - 1
                   PROVE  id \in IdsOf(queuedReliables') \/ numbered[id + 1] = 0
      BY <1>1, <1>6 DEF OnlyPingsOvertake
    <2>2. queuedReliables'[1] = queuedReliables[2] /\ 1 \in DOMAIN queuedReliables
          /\ 2 \in DOMAIN queuedReliables
      BY <1>0, <1>1, <2>1
    <2>3. p.id < queuedReliables'[1].id /\ queuedReliables'[1].id \in Nat
      <3>1. queuedReliables[2].id \in Nat
        BY <1>0, <2>2, ElementOf
      <3> QED BY <1>2, <2>2, <3>1 DEF BacklogInv, Ascending
    <2>4. id \in p.id .. Allocated - 1 /\ id # p.id
      BY <1>0, <1>2, <2>1, <2>3
    <2>5. id \in IdsOf(queuedReliables) \/ numbered[id + 1] = 0
      BY <1>0, <1>2, <2>4 DEF BacklogInv, OnlyPingsOvertake
    <2> QED BY <1>4, <2>4, <2>5
  <1> QED BY <1>1, <1>3, <1>6, <1>7, <1>8, <1>9 DEF BacklogInv

\* A ping that finds room on the wire: the queue stands still.
LEMMA PingSentBacklog ==
  ASSUME IInv, BacklogInv, BacklogLimit < RecvWindow, TypeOK',
         Number(0, 1), PingRoom, queuedReliables' = queuedReliables,
         queuedCommands' = queuedCommands,
         \A id \in IdsOf(outgoingReliablesSent') :
           id \in IdsOf(outgoingReliablesSent) \/ id = Allocated
  PROVE  BacklogInv'
  <1>1. /\ TypeOK /\ Allocated \in Nat /\ queuedReliables \in Seq(Packets)
        /\ MaxPings \in Nat /\ MaxWindow \in Nat /\ numbered \in Seq(Nat)
        /\ RecvWindow \in Nat /\ Allocated = Len(numbered)
    BY SeqNumAssumption, ChannelAssumption DEF IInv, TypeOK, Allocated
  <1>2. Allocated' = Allocated + 1
    BY <1>1, NumberType
  <1>3. /\ \A i \in 1 .. Allocated : numbered'[i] = numbered[i]
        /\ numbered'[Allocated + 1] = 0
        /\ DOMAIN numbered = 1 .. Allocated /\ DOMAIN numbered' = 1 .. Allocated + 1
    <2>1. numbered' = numbered \o <<0>>
      <3>1. [k \in 1 .. 1 |-> 0] = <<0>>
        OBVIOUS
      <3> QED BY <3>1 DEF Number
    <2> QED BY <1>1, <2>1
  <1>4. \A id \in IdsOf(queuedReliables) : id \in Nat /\ id < Allocated
    BY <1>1, ElementOf DEF IdsOf, IInv, PositionsInRange
  <1>5. OfProgramQueued' = OfProgramQueued
    BY <1>1, <1>3, <1>4 DEF OfProgramQueued
  <1>6. OnlyPingsOvertake'
    <2>1. SUFFICES ASSUME queuedReliables # <<>>,
                          NEW id \in queuedReliables[1].id .. Allocated
                   PROVE  id \in IdsOf(queuedReliables) \/ numbered'[id + 1] = 0
      BY <1>1, <1>2 DEF OnlyPingsOvertake
    <2>2. queuedReliables[1].id \in Nat
      BY <1>1, <2>1, ElementOf
    <2>3. CASE id = Allocated
      BY <1>3, <2>3
    <2>4. CASE id # Allocated
      <3>1. id \in queuedReliables[1].id .. Allocated - 1 /\ id + 1 \in 1 .. Allocated
        BY <1>1, <2>1, <2>2, <2>4
      <3> QED BY <1>3, <2>1, <3>1 DEF BacklogInv, OnlyPingsOvertake
    <2> QED BY <2>3, <2>4
  <1>7. Cardinality(PingPositions') <= MaxPings
    <2>1. PingPositions' = PingPositions \cup {Allocated + 1}
      BY <1>1, <1>3 DEF PingPositions
    <2>2. IsFiniteSet(PingPositions) /\ Cardinality(PingPositions) \in Nat
          /\ Cardinality(PingPositions) < MaxPings
      BY <1>1, PingsFinite DEF PingRoom, PingPositions
    <2>3. \/ Cardinality(PingPositions') = Cardinality(PingPositions)
          \/ Cardinality(PingPositions') = Cardinality(PingPositions) + 1
      BY <2>1, <2>2, FS_AddElement
    <2> QED BY <1>1, <2>2, <2>3
  <1>8. BacklogBounded'
    <2>1. QueueIsARun'
      BY <1>1, <1>2, <1>4, <1>6 DEF QueueIsARun, BacklogInv
    <2>2. \A id \in IdsOf(queuedReliables) :
            Allocated' - id <= Cardinality(OfProgramQueued) + Cardinality(PingPositions')
      BY <1>5, <2>1, QueueSpanNext
    <2>3. Cardinality(OfProgramQueued) \in Nat /\ Cardinality(PingPositions') \in Nat
      BY <1>1, OfProgramFinite, PingsFiniteNext
    <2>4. Cardinality(OfProgramQueued) <= QueueLimit
      BY DEF BacklogInv
    <2>5. \A id \in IdsOf(queuedReliables) : Allocated' - id <= BacklogLimit
      BY <1>1, <1>2, <1>4, <1>7, <2>2, <2>3, <2>4, Limits
    <2>6. \A id \in IdsOf(outgoingReliablesSent) : Allocated + 1 - id <= BacklogLimit
      <3>1. TAKE id \in IdsOf(outgoingReliablesSent)
      <3>2. 1 \in 1 .. RecvWindow
        BY SeqNumAssumption
      <3>3. (Allocated + 1) - id <= MaxWindow + 2
        BY <3>2, NumberLimit DEF BacklogInv, Number
      <3>4. id \in Nat
        BY ElementOf DEF IInv, TypeOK, IdsOf
      <3> QED BY <1>1, <3>3, <3>4, Limits
    <2>7. Allocated' - Allocated <= BacklogLimit
      BY <1>1, <1>2, Limits
    <2>8. \A id \in IdsOf(outgoingReliablesSent') : Allocated' - id <= BacklogLimit
      <3>1. \A id \in IdsOf(outgoingReliablesSent) : Allocated' - id <= BacklogLimit
        <4>1. \A id \in IdsOf(outgoingReliablesSent) : id \in Int
          BY ElementOf DEF IInv, TypeOK, IdsOf
        <4> QED BY <1>1, <1>2, <2>6, <4>1, Limits
      <3> QED BY <2>7, <3>1
    <2>9. IdsOf(queuedReliables') = IdsOf(queuedReliables)
      OBVIOUS
    <2> QED BY <2>5, <2>8, <2>9 DEF BacklogBounded
  <1> QED BY <1>5, <1>6, <1>7, <1>8 DEF BacklogInv

LEMMA InitBacklog == Init => BacklogInv
  <1> SUFFICES ASSUME Init PROVE BacklogInv
    OBVIOUS
  <1>1. IdsOf(queuedReliables) = {} /\ IdsOf(outgoingReliablesSent) = {}
    BY DEF Init, IdsOf
  <1>2. OfProgramQueued = {} /\ PingPositions = {}
    BY <1>1 DEF Init, OfProgramQueued, PingPositions
  <1>3. Cardinality(OfProgramQueued) <= QueueLimit /\ Cardinality(PingPositions) <= MaxPings
    BY <1>2, FS_EmptySet, Limits, ChannelAssumption
  <1> QED BY <1>1, <1>3 DEF Init, BacklogInv, Ascending, OnlyPingsOvertake, BacklogBounded

\* Commands are numbered at once, queued, or numbered later.
LEMMA CommandsBacklog ==
  ASSUME IInv, IInv', BacklogInv, BacklogLimit < RecvWindow,
         (\E n \in ChunkCounts : SubmitNumbered(n) \/ SubmitQueued(n)) \/ RunCommandQueues
  PROVE  BacklogInv'
  <1>0. /\ TypeOK /\ TypeOK' /\ submitted \in Nat
        /\ queuedCommands \in Seq([cmd : Nat, chunks : Nat])
        /\ Len(queuedReliables) \in Nat /\ windowSize \in MinWindow .. MaxWindow
        /\ \A n \in ChunkCounts : n \in 1 .. RecvWindow
    BY SeqNumAssumption, ChannelAssumption DEF IInv, TypeOK
  <1>1. ASSUME NEW n \in ChunkCounts, SubmitNumbered(n) PROVE BacklogInv'
    <2>1. /\ submitted + 1 \in Nat /\ submitted + 1 # 0 /\ Number(submitted + 1, n)
          /\ queuedReliables' = queuedReliables \o NewPackets(n)
          /\ outgoingReliablesSent' = outgoingReliablesSent
          /\ queuedCommands' = queuedCommands
          /\ Len(queuedReliables) + 1 < windowSize \div 2
      BY <1>0, <1>1 DEF SubmitNumbered, MayNumberAtOnce
    <2>2. Len(queuedReliables) + n <= QueueLimit
      BY <1>0, <2>1, Limits
    <2>3. \A i \in DOMAIN queuedCommands' :
            queuedCommands'[i].cmd > 0 /\ queuedCommands'[i].chunks \in ChunkCounts
      BY <2>1 DEF BacklogInv
    <2> QED BY <1>0, <2>1, <2>2, <2>3, QueueGrows
  <1>2. ASSUME NEW n \in ChunkCounts, SubmitQueued(n) PROVE BacklogInv'
    <2> DEFINE c == [cmd |-> submitted + 1, chunks |-> n]
    <2>1. /\ queuedCommands' = Append(queuedCommands, c)
          /\ numbered' = numbered /\ queuedReliables' = queuedReliables
          /\ outgoingReliablesSent' = outgoingReliablesSent
      BY <1>2 DEF SubmitQueued
    <2>2. c.cmd > 0 /\ c.chunks \in ChunkCounts /\ c \in [cmd : Nat, chunks : Nat]
      BY <1>0
    <2> HIDE DEF c
    <2>3. \A i \in DOMAIN queuedCommands' :
            queuedCommands'[i].cmd > 0 /\ queuedCommands'[i].chunks \in ChunkCounts
      <3>1. \A i \in DOMAIN queuedCommands' :
              \/ i \in DOMAIN queuedCommands /\ queuedCommands'[i] = queuedCommands[i]
              \/ queuedCommands'[i] = c
        BY <1>0, <2>1, <2>2
      <3> QED BY <2>2, <3>1 DEF BacklogInv
    <2> QED BY <1>0, <2>1, <2>3, NothingNumbered
  <1>3. ASSUME RunCommandQueues PROVE BacklogInv'
    <2> DEFINE c == Head(queuedCommands)
    <2>1. /\ queuedCommands # <<>> /\ Len(queuedReliables) < Requeue
          /\ Number(c.cmd, c.chunks)
          /\ queuedReliables' = queuedReliables \o NewPackets(c.chunks)
          /\ outgoingReliablesSent' = outgoingReliablesSent
          /\ queuedCommands' = Tail(queuedCommands)
      BY <1>3 DEF RunCommandQueues
    <2>2. 1 \in DOMAIN queuedCommands /\ c = queuedCommands[1]
      BY <1>0, <2>1
    <2>3. /\ c.cmd > 0 /\ c.cmd \in Nat /\ c.cmd # 0
          /\ c.chunks \in ChunkCounts /\ c.chunks \in 1 .. RecvWindow
      <3>1. c \in [cmd : Nat, chunks : Nat]
        BY <1>0, <2>1, HeadAndTail
      <3> HIDE DEF c
      <3>2. c.cmd > 0 /\ c.chunks \in ChunkCounts
        BY <2>2 DEF BacklogInv
      <3>3. c.cmd \in Nat
        BY <3>1
      <3> QED BY <1>0, <3>2, <3>3
    <2> HIDE DEF c
    <2>4. Len(queuedReliables) + c.chunks <= QueueLimit
      BY <1>0, <2>1, <2>3, Limits
    <2>5. \A i \in DOMAIN queuedCommands' :
            queuedCommands'[i].cmd > 0 /\ queuedCommands'[i].chunks \in ChunkCounts
      <3>1. \A i \in DOMAIN queuedCommands' :
              i + 1 \in DOMAIN queuedCommands /\ queuedCommands'[i] = queuedCommands[i + 1]
        BY <1>0, <2>1
      <3> QED BY <3>1 DEF BacklogInv
    <2> QED BY <1>0, <2>1, <2>3, <2>4, <2>5, QueueGrows
  <1> QED BY <1>1, <1>2, <1>3

LEMMA PingBacklog ==
  ASSUME IInv, IInv', BacklogInv, BacklogLimit < RecvWindow, Ping
  PROVE  BacklogInv'
  <1> DEFINE p == NewPackets(1)[1]
  <1>0. /\ TypeOK /\ TypeOK' /\ queuedReliables \in Seq(Packets)
        /\ outgoingReliablesSent \in Seq(Packets)
        /\ nextOutgoing \in SeqNums /\ numbered \in Seq(Nat) /\ Allocated \in Nat
    BY DEF IInv, TypeOK, Allocated
  <1>1. Number(0, 1) /\ PingRoom /\ queuedCommands' = queuedCommands
    BY DEF Ping
  <1>2. /\ NewPackets(1) \in Seq(Packets) /\ Len(NewPackets(1)) = 1
        /\ \A k \in 1 .. 1 : NewPackets(1)[k] =
             [seq |-> SeqAdd(nextOutgoing, k - 1), id |-> Allocated + k - 1]
    BY <1>0, NewPacketsType
  <1>3. NewPackets(1) = <<p>> /\ p \in Packets /\ p.id = Allocated
    BY <1>0, <1>2
  <1>4. CASE queuedReliables' = Append(queuedReliables, p) /\ UNCHANGED outgoingReliablesSent
    <2>1. queuedReliables' = queuedReliables \o NewPackets(1)
      <3> HIDE DEF p
      <3> QED BY <1>0, <1>3, <1>4, AppendIsConcat
    <2>2. 1 \in 1 .. RecvWindow
      BY SeqNumAssumption
    <2>3. \A i \in DOMAIN queuedCommands' :
            queuedCommands'[i].cmd > 0 /\ queuedCommands'[i].chunks \in ChunkCounts
      BY <1>1 DEF BacklogInv
    <2> QED BY <1>1, <1>4, <2>1, <2>2, <2>3, QueueGrows
  <1>5. CASE /\ outgoingReliablesSent' =
                  InsertPacket(outgoingReliablesSent, p, OldestSendable(nextOutgoing'))
             /\ UNCHANGED queuedReliables
    <2> HIDE DEF p
    <2>1. Range(outgoingReliablesSent') \subseteq Range(outgoingReliablesSent) \cup {p}
      BY <1>0, <1>3, <1>5, InsertPacketSet
    <2>2. \A id \in IdsOf(outgoingReliablesSent') :
            id \in IdsOf(outgoingReliablesSent) \/ id = Allocated
      BY <1>3, <2>1, IdsOfRange
    <2> QED BY <1>0, <1>1, <1>5, <2>2, PingSentBacklog
  <1> QED BY <1>4, <1>5 DEF Ping, SendAsPacketReliable

LEMMA NextBacklog ==
  ASSUME IInv, IInv', BacklogInv, BacklogLimit < RecvWindow, [Next]_vars
  PROVE  BacklogInv'
  <1>0. TypeOK /\ TypeOK' /\ outgoingReliablesSent \in Seq(Packets)
    BY DEF IInv, TypeOK
  <1>c. \A i \in DOMAIN queuedCommands :
          queuedCommands[i].cmd > 0 /\ queuedCommands[i].chunks \in ChunkCounts
    BY DEF BacklogInv
  <1>1. CASE (\E n \in ChunkCounts : SubmitNumbered(n) \/ SubmitQueued(n)) \/ RunCommandQueues
    BY <1>1, CommandsBacklog
  <1>2. CASE SendQueued
    BY <1>0, <1>2, SendQueuedBacklog
  <1>3. CASE Ping
    BY <1>3, PingBacklog
  <1>4. CASE \E m \in network : ReceiveAck(m)
    <2>1. PICK m \in network : ReceiveAck(m)
      BY <1>4
    <2>2. /\ outgoingReliablesSent' = PopSeqnum(outgoingReliablesSent, m.seq)
          /\ numbered' = numbered /\ queuedReliables' = queuedReliables
          /\ queuedCommands' = queuedCommands
      BY <2>1 DEF ReceiveAck
    <2>3. Range(outgoingReliablesSent') \subseteq Range(outgoingReliablesSent)
      BY <1>0, <2>2, PopKeepsTheRest DEF IInv, BuffersAscending
    <2>4. \A id \in IdsOf(outgoingReliablesSent') : id \in IdsOf(outgoingReliablesSent)
      BY <2>3, IdsOfRange
    <2> QED BY <1>0, <1>c, <2>2, <2>4, NothingNumbered
  <1>5. CASE \/ UpdateTimers \/ Unbuffer \/ Drained \/ Lose \/ UNCHANGED vars
             \/ \E i \in DOMAIN outgoingReliablesSent : Resend(outgoingReliablesSent[i])
             \/ \E m \in network : ReceiveData(m)
    <2>1. /\ numbered' = numbered /\ queuedReliables' = queuedReliables
          /\ queuedCommands' = queuedCommands
          /\ outgoingReliablesSent' = outgoingReliablesSent
      BY <1>5 DEF UpdateTimers, Unbuffer, Drained, Lose, Resend, ReceiveData, ReceiveInTurn,
         ReceiveAhead, ReceiveOutside, senderVars, vars
    <2> QED BY <1>0, <1>c, <2>1, NothingNumbered
  <1> QED BY <1>1, <1>2, <1>3, <1>4, <1>5 DEF Next

(***************************************************************************)
(* The sender's backlog is bounded by BacklogLimit for ever, if that is    *)
(* less than RecvWindow: the numbering never outruns what the sequence     *)
(* numbers can tell apart (getOutgoingSequenceNumber, RunCommandQueues).   *)
(***************************************************************************)
THEOREM BacklogIsBounded ==
  ASSUME BacklogLimit < RecvWindow
  PROVE  Spec => [](IInv /\ BacklogInv)
  <1>1. Init => IInv /\ BacklogInv
    BY InitInv, InitBacklog
  <1>2. IInv /\ BacklogInv /\ [Next]_vars => (IInv /\ BacklogInv)'
    <2>1. SUFFICES ASSUME IInv, BacklogInv, [Next]_vars PROVE IInv' /\ BacklogInv'
      OBVIOUS
    <2>2. WithinWindow
      <3>1. \A id \in IdsOf(queuedReliables) \cup IdsOf(outgoingReliablesSent) :
              id \in Nat /\ Allocated - id <= BacklogLimit
        BY <2>1, ElementOf DEF IInv, TypeOK, IdsOf, BacklogInv, BacklogBounded
      <3>2. Allocated \in Nat /\ BacklogLimit \in Int /\ RecvWindow \in Nat
        BY <2>1, Limits, SeqNumAssumption DEF IInv, TypeOK, Allocated
      <3> QED BY <3>1, <3>2 DEF WithinWindow
    <2>3. IInv'
      BY <2>1, <2>2, NextInv
    <2> QED BY <2>1, <2>3, NextBacklog
  <1> QED BY <1>1, <1>2, PTL DEF Spec

(***************************************************************************)
(* Nothing the sender keeps is further than BacklogLimit behind the next   *)
(* number, under the same premise (getOutgoingSequenceNumber).             *)
(***************************************************************************)
THEOREM BacklogStaysBounded ==
  ASSUME BacklogLimit < RecvWindow
  PROVE  Spec => []BacklogBounded
  <1>1. IInv /\ BacklogInv => BacklogBounded
    BY DEF BacklogInv
  <1> QED BY BacklogIsBounded, <1>1, PTL

(***************************************************************************)
(* The packets of a channel are processed in the order in which they were  *)
(* numbered, each exactly once, if the windows, the commands and the pings *)
(* are such that BacklogLimit is less than RecvWindow                      *)
(* (handlePacketType_Reliable, checkIncomingBuffers).                      *)
(***************************************************************************)
THEOREM DeliveredInOrder ==
  ASSUME BacklogLimit < RecvWindow
  PROVE  Spec => []InOrderExactlyOnce
  <1>1. IInv => InOrderExactlyOnce
    BY DEF IInv
  <1> QED BY BacklogIsBounded, <1>1, PTL

(***************************************************************************)
(* No packet disappears: until the receiver has it the sender keeps it,    *)
(* under the same premise (sendAsPacketReliable, CONTROLTYPE_ACK).         *)
(***************************************************************************)
THEOREM KeptUntilReceived ==
  ASSUME BacklogLimit < RecvWindow
  PROVE  Spec => []NothingLost
  <1>1. IInv => NothingLost
    BY DEF IInv
  <1> QED BY BacklogIsBounded, <1>1, PTL

(***************************************************************************)
(* An ACK in flight is for a packet that was received, under the same      *)
(* premise (handlePacketType_Reliable's re-ACK of old packets).            *)
(***************************************************************************)
THEOREM OnlyReceivedIsAcked ==
  ASSUME BacklogLimit < RecvWindow
  PROVE  Spec => []AcksAreHonest
  <1>1. IInv => AcksAreHonest
    BY DEF IInv
  <1> QED BY BacklogIsBounded, <1>1, PTL

(***************************************************************************)
(* Both lists stay sorted by age across the wrap, under the same premise   *)
(* (ReliablePacketBuffer::insert).                                         *)
(***************************************************************************)
THEOREM ListsStaySorted ==
  ASSUME BacklogLimit < RecvWindow
  PROVE  Spec => []BuffersAscending
  <1>1. IInv => BuffersAscending
    BY DEF IInv
  <1> QED BY BacklogIsBounded, <1>1, PTL

(***************************************************************************)
(* The receive thread never waits on the socket while the next packet is   *)
(* in its buffer, under the same premise (receive, packet_queued).         *)
(***************************************************************************)
THEOREM NoStall ==
  ASSUME BacklogLimit < RecvWindow
  PROVE  Spec => []NeverStallsOnBuffered
  <1>1. IInv => NeverStallsOnBuffered
    BY DEF IInv
  <1> QED BY BacklogIsBounded, <1>1, PTL

-----------------------------------------------------------------------------
(***************************************************************************)
(* FlattenSeq.  g joins the first i of ss at i, for every i up to n.       *)
(***************************************************************************)
Joins(ss, n, g) ==
  g = [i \in 1 .. n |-> IF i = 1 THEN ss[i] ELSE g[i - 1] \o ss[i]]

\* There is such a function: of the lengths without one none can be the least.
LEMMA JoinsExists ==
  ASSUME NEW ss, NEW n \in Nat
  PROVE  \E g : Joins(ss, n, g)
  <1> DEFINE T == {m \in Nat : ~\E g : Joins(ss, m, g)}
  <1>1. SUFFICES ASSUME T # {} PROVE FALSE
    OBVIOUS
  <1>0. T \subseteq Nat
    OBVIOUS
  <1>2. PICK m \in T : \A y \in T : m <= y
    <2> HIDE DEF T
    <2> QED BY <1>0, <1>1, LeastNat
  <1>3. CASE m = 0
    <2> DEFINE g == [i \in 1 .. 0 |-> <<>>]
    <2>1. Joins(ss, 0, g)
      BY DEF Joins
    <2> QED BY <1>2, <1>3, <2>1
  <1>4. CASE m # 0
    <2>1. m \in Nat /\ m - 1 \in Nat /\ m - 1 \notin T
      BY <1>2, <1>4
    <2>2. PICK g : Joins(ss, m - 1, g)
      BY <2>1
    <2> DEFINE h == [i \in 1 .. m |-> IF i = m THEN IF m = 1 THEN ss[m] ELSE g[m - 1] \o ss[m]
                                      ELSE g[i]]
    <2>3. \A i \in 1 .. m - 1 : g[i] = IF i = 1 THEN ss[i] ELSE g[i - 1] \o ss[i]
      BY <2>2 DEF Joins
    <2>4. \A i \in 1 .. m : h[i] = IF i = 1 THEN ss[i] ELSE h[i - 1] \o ss[i]
      <3>1. TAKE i \in 1 .. m
      <3>2. CASE i = m
        BY <2>1, <3>2
      <3>3. CASE i # m
        <4>1. i \in 1 .. m - 1 /\ h[i] = g[i] /\ (i # 1 => i - 1 \in 1 .. m /\ i - 1 # m)
          BY <2>1, <3>3
        <4>2. i # 1 => h[i - 1] = g[i - 1]
          BY <4>1
        <4> HIDE DEF h
        <4> QED BY <2>3, <4>1, <4>2
      <3> QED BY <3>2, <3>3
    <2>5. h = [i \in 1 .. m |-> h[i]]
      OBVIOUS
    <2> HIDE DEF h
    <2>6. Joins(ss, m, h)
      BY <2>4, <2>5 DEF Joins
    <2> QED BY <1>2, <2>6
  <1> QED BY <1>3, <1>4

\* FlattenSeq is its last value.
LEMMA FlattenIsLast ==
  ASSUME NEW S, NEW ss \in Seq(S), ss # <<>>
  PROVE  \E g : Joins(ss, Len(ss), g) /\ FlattenSeq(ss) = g[Len(ss)]
  <1> DEFINE g == CHOOSE g : Joins(ss, Len(ss), g)
  <1>1. Len(ss) \in Nat /\ Len(ss) # 0
    OBVIOUS
  <1>2. Joins(ss, Len(ss), g)
    BY <1>1, JoinsExists
  <1>3. FlattenSeq(ss) = g[Len(ss)]
    BY <1>1 DEF FlattenSeq, Joins
  <1> QED BY <1>2, <1>3

\* It depends on what is joined alone.
LEMMA JoinsAgree ==
  \A ss, tt, g, h : \A k \in Nat :
     /\ Joins(ss, k, g)
     /\ Joins(tt, k + 1, h)
     /\ \A i \in 1 .. k : ss[i] = tt[i]
     => \A i \in 1 .. k : g[i] = h[i]
  <1>s. SUFFICES ASSUME NEW ss, NEW tt, NEW g, NEW h, NEW k \in Nat, Joins(ss, k, g),
                        Joins(tt, k + 1, h), \A i \in 1 .. k : ss[i] = tt[i]
                 PROVE  \A i \in 1 .. k : g[i] = h[i]
    OBVIOUS
  <1> DEFINE T == {i \in 1 .. k : g[i] # h[i]}
  <1>1. SUFFICES ASSUME T # {} PROVE FALSE
    OBVIOUS
  <1>0. T \subseteq Nat
    OBVIOUS
  <1>2. PICK i \in T : \A y \in T : i <= y
    <2> HIDE DEF T
    <2> QED BY <1>0, <1>1, LeastNat
  <1>3. /\ g[i] = IF i = 1 THEN ss[i] ELSE g[i - 1] \o ss[i]
        /\ h[i] = IF i = 1 THEN tt[i] ELSE h[i - 1] \o tt[i]
    <2>1. i \in 1 .. k /\ i \in 1 .. k + 1
      BY <1>2
    <2> QED BY <1>s, <2>1 DEF Joins
  <1>4. i # 1 => i - 1 \in 1 .. k /\ i - 1 \notin T
    BY <1>2
  <1> QED BY <1>s, <1>2, <1>3, <1>4

\* What is joined is a sequence.
LEMMA JoinsType ==
  ASSUME NEW S, NEW ss \in Seq(Seq(S)), NEW g, Joins(ss, Len(ss), g)
  PROVE  \A i \in 1 .. Len(ss) : g[i] \in Seq(S)
  <1> DEFINE T == {i \in 1 .. Len(ss) : g[i] \notin Seq(S)}
  <1>1. SUFFICES ASSUME T # {} PROVE FALSE
    OBVIOUS
  <1>0. T \subseteq Nat
    OBVIOUS
  <1>2. PICK i \in T : \A y \in T : i <= y
    <2> HIDE DEF T
    <2> QED BY <1>0, <1>1, LeastNat
  <1>3. g[i] = IF i = 1 THEN ss[i] ELSE g[i - 1] \o ss[i]
    BY <1>2 DEF Joins
  <1>4. i # 1 => i - 1 \in 1 .. Len(ss) /\ i - 1 \notin T
    BY <1>2
  <1>5. ss[i] \in Seq(S)
    BY <1>2
  <1>6. i # 1 => g[i - 1] \in Seq(S)
    BY <1>4
  <1>7. g[i] \notin Seq(S)
    BY <1>2
  <1> HIDE DEF T
  <1>8. i # 1 => g[i - 1] \o ss[i] \in Seq(S)
    BY <1>5, <1>6, ConcatProperties
  <1> QED BY <1>3, <1>5, <1>7, <1>8

LEMMA ConcatIsAssociative ==
  \A S : \A s, t, u \in Seq(S) : (s \o t) \o u = s \o (t \o u)
  BY ConcatAssociative, Zenon

LEMMA FlattenOne ==
  ASSUME NEW S, NEW t \in Seq(S)
  PROVE  FlattenSeq(<<t>>) = t
  <1>1. <<t>> \in Seq(Seq(S)) /\ <<t>> # <<>> /\ Len(<<t>>) = 1 /\ <<t>>[1] = t
    OBVIOUS
  <1>2. PICK g : Joins(<<t>>, 1, g) /\ FlattenSeq(<<t>>) = g[1]
    BY <1>1, FlattenIsLast
  <1>3. g[1] = <<t>>[1]
    BY <1>2 DEF Joins
  <1> QED BY <1>1, <1>2, <1>3

LEMMA FlattenNone == FlattenSeq(<<>>) = <<>>
  BY DEF FlattenSeq

LEMMA FlattenAppend ==
  ASSUME NEW S, NEW ss \in Seq(Seq(S)), NEW t \in Seq(S)
  PROVE  /\ FlattenSeq(ss) \in Seq(S)
         /\ FlattenSeq(Append(ss, t)) = FlattenSeq(ss) \o t
  <1> DEFINE tt == Append(ss, t)
  <1>1. /\ tt \in Seq(Seq(S)) /\ tt # <<>> /\ Len(tt) = Len(ss) + 1 /\ Len(ss) \in Nat
        /\ tt[Len(ss) + 1] = t /\ \A i \in 1 .. Len(ss) : tt[i] = ss[i]
    BY AppendProperties
  <1>2. PICK h : Joins(tt, Len(ss) + 1, h) /\ FlattenSeq(tt) = h[Len(ss) + 1]
    BY <1>1, FlattenIsLast
  <1> HIDE DEF tt
  <1>3. CASE ss = <<>>
    <2>1. Len(ss) + 1 = 1
      BY <1>3
    <2>2. h[1] = tt[1] /\ tt[1] = t
      BY <1>1, <1>2, <2>1 DEF Joins
    <2>3. FlattenSeq(ss) = <<>> /\ <<>> \in Seq(S) /\ <<>> \o t = t
      BY <1>3, FlattenNone, ConcatEmptySeq
    <2> QED BY <1>2, <2>1, <2>2, <2>3 DEF tt
  <1>4. CASE ss # <<>>
    <2>1. PICK g : Joins(ss, Len(ss), g) /\ FlattenSeq(ss) = g[Len(ss)]
      BY <1>4, FlattenIsLast
    <2>2. Len(ss) \in 1 .. Len(ss) /\ Len(ss) + 1 \in 1 .. Len(ss) + 1
          /\ Len(ss) + 1 # 1 /\ (Len(ss) + 1) - 1 = Len(ss)
      BY <1>1, <1>4
    <2>3. g[Len(ss)] = h[Len(ss)]
      <3>1. Joins(ss, Len(ss), g) /\ Joins(tt, Len(ss) + 1, h)
        BY <1>2, <2>1
      <3>2. \A i \in 1 .. Len(ss) : g[i] = h[i]
        <4>1. Len(ss) \in Nat /\ \A i \in 1 .. Len(ss) : ss[i] = tt[i]
          BY <1>1
        <4> QED BY <3>1, <4>1, JoinsAgree
      <3> QED BY <2>2, <3>2
    <2>4. h[Len(ss) + 1] = h[Len(ss)] \o tt[Len(ss) + 1]
      <3>1. h = [i \in 1 .. Len(ss) + 1 |-> IF i = 1 THEN tt[i] ELSE h[i - 1] \o tt[i]]
        BY <1>2 DEF Joins
      <3> QED BY <2>2, <3>1
    <2>5. g[Len(ss)] \in Seq(S)
      BY <2>1, <2>2, JoinsType
    <2> QED BY <1>1, <1>2, <2>1, <2>3, <2>4, <2>5 DEF tt
  <1> QED BY <1>3, <1>4

LEMMA FlattenConcat ==
  ASSUME NEW S, NEW ss \in Seq(Seq(S)), NEW tt \in Seq(Seq(S))
  PROVE  FlattenSeq(ss \o tt) = FlattenSeq(ss) \o FlattenSeq(tt)
  <1>b. \A s, t, u \in Seq(S) : (s \o t) \o u = s \o (t \o u)
    BY ConcatIsAssociative
  <1>c. \A s, t, u \in Seq(Seq(S)) : (s \o t) \o u = s \o (t \o u)
    BY ConcatIsAssociative
  <1> DEFINE first(k) == SubSeq(tt, 1, k)
             T == {k \in 0 .. Len(tt) : FlattenSeq(ss \o first(k)) # FlattenSeq(ss) \o FlattenSeq(first(k))}
  <1>0. Len(tt) \in Nat /\ FlattenSeq(ss) \in Seq(S)
    <2>1. <<>> \in Seq(S)
      OBVIOUS
    <2> QED BY <2>1, FlattenAppend
  <1>1. SUFFICES ASSUME T # {} PROVE FALSE
    <2>1. Len(tt) \in 0 .. Len(tt) /\ first(Len(tt)) = tt
      BY <1>0, SubSeqFull
    <2> QED BY <2>1
  <1>a. T \subseteq Nat
    BY <1>0
  <1>2. PICK k \in T : \A y \in T : k <= y
    <2> HIDE DEF T
    <2> QED BY <1>a, <1>1, LeastNat
  <1>3. CASE k = 0
    <2>1. first(0) = <<>>
      BY SubSeqEmpty
    <2>2. ss \o <<>> = ss /\ FlattenSeq(ss) \o <<>> = FlattenSeq(ss)
      BY <1>0, ConcatEmptySeq
    <2> QED BY <1>2, <1>3, <2>1, <2>2, FlattenNone
  <1>4. CASE k # 0
    <2>1. k \in 1 .. Len(tt) /\ k - 1 \in 0 .. Len(tt) /\ k - 1 \notin T
      BY <1>0, <1>2, <1>4
    <2>2. first(k - 1) \in Seq(Seq(S)) /\ first(k) \in Seq(Seq(S)) /\ tt[k] \in Seq(S)
      BY <1>0, <2>1
    <2>3. first(k) = Append(first(k - 1), tt[k])
      <3>1. first(k) = first(k - 1) \o <<tt[k]>>
        <4>1. 1 \in 1 .. Len(tt) /\ k \in 1 .. Len(tt)
          BY <1>0, <2>1
        <4> QED BY <4>1, SubSeqRecursiveSecond
      <3> HIDE DEF first
      <3> QED BY <2>2, <3>1, AppendIsConcat
    <2> HIDE DEF first
    <2>4. ss \o first(k) = Append(ss \o first(k - 1), tt[k])
      <3>1. first(k) = first(k - 1) \o <<tt[k]>> /\ <<tt[k]>> \in Seq(Seq(S))
        BY <2>2, <2>3, AppendIsConcat
      <3>2. ss \o first(k) = (ss \o first(k - 1)) \o <<tt[k]>>
        <4>1. /\ ss \in Seq(Seq(S)) /\ first(k - 1) \in Seq(Seq(S))
              /\ <<tt[k]>> \in Seq(Seq(S))
          BY <2>2, <3>1
        <4>2. (ss \o first(k - 1)) \o <<tt[k]>> = ss \o (first(k - 1) \o <<tt[k]>>)
          BY <1>c, <4>1, Zenon
        <4> QED BY <3>1, <4>2
      <3>3. ss \o first(k - 1) \in Seq(Seq(S))
        BY <2>2, ConcatProperties
      <3> QED BY <2>2, <3>2, <3>3, AppendIsConcat
    <2>5. ss \o first(k - 1) \in Seq(Seq(S))
      BY <2>2, ConcatProperties
    <2>6. FlattenSeq(ss \o first(k)) = FlattenSeq(ss \o first(k - 1)) \o tt[k]
      BY <2>2, <2>4, <2>5, FlattenAppend
    <2>7. FlattenSeq(first(k)) = FlattenSeq(first(k - 1)) \o tt[k]
          /\ FlattenSeq(first(k - 1)) \in Seq(S)
      BY <2>2, <2>3, FlattenAppend
    <2>8. FlattenSeq(ss \o first(k - 1)) = FlattenSeq(ss) \o FlattenSeq(first(k - 1))
      BY <2>1
    <2>9. (FlattenSeq(ss) \o FlattenSeq(first(k - 1))) \o tt[k]
            = FlattenSeq(ss) \o (FlattenSeq(first(k - 1)) \o tt[k])
      <3>2. /\ FlattenSeq(ss) \in Seq(S) /\ FlattenSeq(first(k - 1)) \in Seq(S)
            /\ tt[k] \in Seq(S)
        BY <1>0, <2>2, <2>7
      <3> QED BY <1>b, <3>2, Zenon
    <2>10. FlattenSeq(ss \o first(k)) = FlattenSeq(ss) \o FlattenSeq(first(k))
      BY <2>6, <2>7, <2>8, <2>9
    <2> QED BY <1>2, <2>10
  <1> QED BY <1>3, <1>4

-----------------------------------------------------------------------------
(***************************************************************************)
(* The chunks of the program in the stream.                                *)
(***************************************************************************)
Singles(cmds) == [i \in DOMAIN cmds |-> IF cmds[i] = 0 THEN <<>> ELSE <<cmds[i]>>]

LEMMA SinglesType ==
  ASSUME NEW a \in Seq(Nat)
  PROVE  /\ Singles(a) \in Seq(Seq(Nat)) /\ Len(Singles(a)) = Len(a)
         /\ \A i \in 1 .. Len(a) : Singles(a)[i] = IF a[i] = 0 THEN <<>> ELSE <<a[i]>>
  <1>1. \A i \in 1 .. Len(a) : (IF a[i] = 0 THEN <<>> ELSE <<a[i]>>) \in Seq(Nat)
    OBVIOUS
  <1>2. Len(a) \in Nat /\ DOMAIN a = 1 .. Len(a)
    OBVIOUS
  <1> QED BY <1>1, <1>2 DEF Singles

LEMMA SinglesConcat ==
  ASSUME NEW a \in Seq(Nat), NEW b \in Seq(Nat)
  PROVE  Singles(a \o b) = Singles(a) \o Singles(b)
  <1> DEFINE c == a \o b
             d == Singles(a) \o Singles(b)
  <1>1. /\ c \in Seq(Nat) /\ Len(c) = Len(a) + Len(b) /\ Len(a) \in Nat /\ Len(b) \in Nat
        /\ \A j \in 1 .. Len(a) + Len(b) : c[j] = IF j <= Len(a) THEN a[j] ELSE b[j - Len(a)]
    BY ConcatProperties
  <1>2. /\ Singles(a) \in Seq(Seq(Nat)) /\ Len(Singles(a)) = Len(a)
        /\ \A i \in 1 .. Len(a) : Singles(a)[i] = IF a[i] = 0 THEN <<>> ELSE <<a[i]>>
    BY SinglesType
  <1>3. /\ Singles(b) \in Seq(Seq(Nat)) /\ Len(Singles(b)) = Len(b)
        /\ \A i \in 1 .. Len(b) : Singles(b)[i] = IF b[i] = 0 THEN <<>> ELSE <<b[i]>>
    BY SinglesType
  <1>4. /\ d \in Seq(Seq(Nat)) /\ Len(d) = Len(a) + Len(b)
        /\ \A j \in 1 .. Len(a) + Len(b) :
             d[j] = IF j <= Len(a) THEN Singles(a)[j] ELSE Singles(b)[j - Len(a)]
    BY <1>2, <1>3, ConcatProperties
  <1>5. /\ Singles(c) \in Seq(Seq(Nat)) /\ Len(Singles(c)) = Len(a) + Len(b)
        /\ \A i \in 1 .. Len(a) + Len(b) : Singles(c)[i] = IF c[i] = 0 THEN <<>> ELSE <<c[i]>>
    <2> HIDE DEF c
    <2> QED BY <1>1, SinglesType
  <1> HIDE DEF c, d
  <1>6. \A j \in 1 .. Len(a) + Len(b) : Singles(c)[j] = d[j]
    <2> TAKE j \in 1 .. Len(a) + Len(b)
    <2>1. CASE j <= Len(a)
      <3>1. j \in 1 .. Len(a) /\ c[j] = a[j] /\ d[j] = Singles(a)[j]
        BY <1>1, <1>4, <2>1
      <3>2. Singles(a)[j] = IF a[j] = 0 THEN <<>> ELSE <<a[j]>>
        BY <1>2, <3>1
      <3>3. Singles(c)[j] = IF c[j] = 0 THEN <<>> ELSE <<c[j]>>
        BY <1>5
      <3> QED BY <3>1, <3>2, <3>3
    <2>2. CASE ~(j <= Len(a))
      <3> DEFINE k == j - Len(a)
      <3>1. k \in 1 .. Len(b) /\ c[j] = b[k] /\ d[j] = Singles(b)[k]
        BY <1>1, <1>4, <2>2
      <3> HIDE DEF k
      <3>2. Singles(b)[k] = IF b[k] = 0 THEN <<>> ELSE <<b[k]>>
        BY <1>3, <3>1
      <3>3. Singles(c)[j] = IF c[j] = 0 THEN <<>> ELSE <<c[j]>>
        BY <1>5
      <3> QED BY <3>1, <3>2, <3>3, Zenon
    <2> QED BY <2>1, <2>2
  <1>7. Singles(c) = d
    <2>1. /\ Singles(c) \in Seq(Seq(Nat)) /\ d \in Seq(Seq(Nat)) /\ Len(Singles(c)) = Len(d)
          /\ \A j \in 1 .. Len(Singles(c)) : Singles(c)[j] = d[j]
      BY <1>1, <1>4, <1>5, <1>6
    <2> QED BY <2>1, SeqEqual
  <1> QED BY <1>7 DEF c, d

LEMMA ProgramType ==
  ASSUME NEW a \in Seq(Nat)
  PROVE  ProgramChunks(a) \in Seq(Nat)
  <1>1. Singles(a) \in Seq(Seq(Nat)) /\ <<>> \in Seq(Nat)
    BY SinglesType
  <1> QED BY <1>1, FlattenAppend DEF ProgramChunks, Singles

LEMMA ProgramConcat ==
  ASSUME NEW a \in Seq(Nat), NEW b \in Seq(Nat)
  PROVE  ProgramChunks(a \o b) = ProgramChunks(a) \o ProgramChunks(b)
  <1>1. \A x : ProgramChunks(x) = FlattenSeq(Singles(x))
    BY DEF ProgramChunks, Singles
  <1>2. Singles(a) \in Seq(Seq(Nat)) /\ Singles(b) \in Seq(Seq(Nat))
    BY SinglesType
  <1>3. Singles(a \o b) = Singles(a) \o Singles(b)
    BY SinglesConcat
  <1>4. FlattenSeq(Singles(a) \o Singles(b)) = FlattenSeq(Singles(a)) \o FlattenSeq(Singles(b))
    BY <1>2, FlattenConcat
  <1> QED BY <1>1, <1>3, <1>4

LEMMA ProgramOne ==
  ASSUME NEW c \in Nat
  PROVE  ProgramChunks(<<c>>) = IF c = 0 THEN <<>> ELSE <<c>>
  <1> DEFINE t == IF c = 0 THEN <<>> ELSE <<c>>
  <1>1. t \in Seq(Nat)
    OBVIOUS
  <1>2. Singles(<<c>>) = <<t>>
    BY DEF Singles
  <1> HIDE DEF t
  <1>3. FlattenSeq(<<t>>) = t
    BY <1>1, FlattenOne
  <1>4. ProgramChunks(<<c>>) = FlattenSeq(Singles(<<c>>))
    BY DEF ProgramChunks, Singles
  <1> QED BY <1>2, <1>3, <1>4 DEF t

LEMMA ProgramNone == ProgramChunks(<<>>) = <<>>
  <1>1. [i \in DOMAIN <<>> |-> IF <<>>[i] = 0 THEN <<>> ELSE <<(<<>>)[i]>>] = <<>>
    OBVIOUS
  <1> QED BY <1>1, FlattenNone DEF ProgramChunks

\* The chunks of one command are all the program's.
LEMMA ProgramCommand ==
  ASSUME NEW c \in Nat, c # 0, NEW n \in Nat
  PROVE  ProgramChunks([k \in 1 .. n |-> c]) = [k \in 1 .. n |-> c]
  <1> DEFINE Rep(m) == [k \in 1 .. m |-> c]
             T == {m \in Nat : ProgramChunks(Rep(m)) # Rep(m)}
  <1>1. SUFFICES ASSUME T # {} PROVE FALSE
    OBVIOUS
  <1>0. T \subseteq Nat
    OBVIOUS
  <1>2. PICK m \in T : \A y \in T : m <= y
    <2> HIDE DEF T
    <2> QED BY <1>0, <1>1, LeastNat
  <1>3. CASE m = 0
    <2>1. Rep(0) = <<>>
      OBVIOUS
    <2> QED BY <1>2, <1>3, <2>1, ProgramNone
  <1>4. CASE m # 0
    <2>1. m \in Nat /\ m - 1 \in Nat /\ m - 1 \notin T
      BY <1>2, <1>4
    <2>2. ProgramChunks(Rep(m - 1)) = Rep(m - 1)
      BY <2>1
    <2>3. Rep(m - 1) \in Seq(Nat) /\ <<c>> \in Seq(Nat)
      BY <2>1
    <2>4. Rep(m) = Rep(m - 1) \o <<c>>
      BY <2>1
    <2>5. ProgramChunks(Rep(m)) # Rep(m)
      BY <1>2
    <2> HIDE DEF Rep, T
    <2>6. ProgramChunks(Rep(m - 1) \o <<c>>) = ProgramChunks(Rep(m - 1)) \o ProgramChunks(<<c>>)
      BY <2>3, ProgramConcat
    <2>7. ProgramChunks(<<c>>) = <<c>>
      BY ProgramOne
    <2> QED BY <2>2, <2>4, <2>5, <2>6, <2>7
  <1> QED BY <1>3, <1>4

(***************************************************************************)
(* The chunks of the commands that wait.                                   *)
(***************************************************************************)
Waiting == [cmd : Nat, chunks : Nat]

ChunksOf(c) == [k \in 1 .. c.chunks |-> c.cmd]

Blocks(q) == [i \in DOMAIN q |-> ChunksOf(q[i])]

LEMMA QueuedIsBlocks == QueuedChunks = FlattenSeq(Blocks(queuedCommands))
  BY DEF QueuedChunks, Blocks, ChunksOf

LEMMA ChunksOfType ==
  ASSUME NEW c \in Waiting
  PROVE  ChunksOf(c) \in Seq(Nat) /\ Len(ChunksOf(c)) = c.chunks
  <1>1. c.cmd \in Nat /\ c.chunks \in Nat
    BY DEF Waiting
  <1> QED BY <1>1 DEF ChunksOf

LEMMA BlocksType ==
  ASSUME NEW q \in Seq(Waiting)
  PROVE  /\ Blocks(q) \in Seq(Seq(Nat)) /\ Len(Blocks(q)) = Len(q)
         /\ \A i \in 1 .. Len(q) : Blocks(q)[i] = ChunksOf(q[i])
  <1>1. \A i \in 1 .. Len(q) : ChunksOf(q[i]) \in Seq(Nat)
    <2> TAKE i \in 1 .. Len(q)
    <2>1. q[i] \in Waiting
      OBVIOUS
    <2> QED BY <2>1, ChunksOfType
  <1>2. Len(q) \in Nat /\ DOMAIN q = 1 .. Len(q)
    OBVIOUS
  <1> QED BY <1>1, <1>2 DEF Blocks

LEMMA BlocksChunks ==
  ASSUME NEW q \in Seq(Waiting)
  PROVE  FlattenSeq(Blocks(q)) \in Seq(Nat)
  <1>1. Blocks(q) \in Seq(Seq(Nat)) /\ <<>> \in Seq(Nat)
    BY BlocksType
  <1> QED BY <1>1, FlattenAppend

LEMMA BlocksAppend ==
  ASSUME NEW q \in Seq(Waiting), NEW c \in Waiting
  PROVE  FlattenSeq(Blocks(Append(q, c))) = FlattenSeq(Blocks(q)) \o ChunksOf(c)
  <1> DEFINE r == Append(q, c)
  <1>1. /\ r \in Seq(Waiting) /\ Len(r) = Len(q) + 1 /\ Len(q) \in Nat
        /\ \A i \in 1 .. Len(q) : r[i] = q[i]
        /\ r[Len(q) + 1] = c
    OBVIOUS
  <1>2. /\ Blocks(q) \in Seq(Seq(Nat)) /\ Len(Blocks(q)) = Len(q)
        /\ \A i \in 1 .. Len(q) : Blocks(q)[i] = ChunksOf(q[i])
    BY BlocksType
  <1>3. /\ Blocks(r) \in Seq(Seq(Nat)) /\ Len(Blocks(r)) = Len(q) + 1
        /\ \A i \in 1 .. Len(q) + 1 : Blocks(r)[i] = ChunksOf(r[i])
    <2> HIDE DEF r
    <2> QED BY <1>1, BlocksType
  <1>4. ChunksOf(c) \in Seq(Nat)
    BY ChunksOfType
  <1> DEFINE b == Append(Blocks(q), ChunksOf(c))
  <1>5. /\ b \in Seq(Seq(Nat)) /\ Len(b) = Len(q) + 1
        /\ \A i \in 1 .. Len(q) : b[i] = Blocks(q)[i]
        /\ b[Len(q) + 1] = ChunksOf(c)
    BY <1>2, <1>4, AppendProperties
  <1> HIDE DEF r, b
  <1>6. \A i \in 1 .. Len(q) + 1 : Blocks(r)[i] = b[i]
    <2> TAKE i \in 1 .. Len(q) + 1
    <2>1. i \in 1 .. Len(q) \/ i = Len(q) + 1
      BY <1>1
    <2> QED BY <1>1, <1>2, <1>3, <1>5, <2>1
  <1>7. Blocks(r) = b
    <2>1. Len(Blocks(r)) = Len(b) /\ \A i \in 1 .. Len(Blocks(r)) : Blocks(r)[i] = b[i]
      BY <1>3, <1>5, <1>6
    <2> QED BY <1>3, <1>5, <2>1, SeqEqual
  <1>8. FlattenSeq(b) = FlattenSeq(Blocks(q)) \o ChunksOf(c)
    BY <1>2, <1>4, FlattenAppend DEF b
  <1> QED BY <1>7, <1>8 DEF r

LEMMA BlocksHead ==
  ASSUME NEW q \in Seq(Waiting), q # <<>>
  PROVE  FlattenSeq(Blocks(q)) = ChunksOf(Head(q)) \o FlattenSeq(Blocks(Tail(q)))
  <1> DEFINE r == Tail(q)
             c == Head(q)
  <1>1. /\ r \in Seq(Waiting) /\ Len(q) = Len(r) + 1 /\ Len(r) \in Nat /\ c \in Waiting
        /\ \A i \in 1 .. Len(r) : r[i] = q[i + 1]
        /\ q[1] = c
    OBVIOUS
  <1>2. /\ Blocks(q) \in Seq(Seq(Nat)) /\ Len(Blocks(q)) = Len(q)
        /\ \A i \in 1 .. Len(q) : Blocks(q)[i] = ChunksOf(q[i])
    BY BlocksType
  <1> HIDE DEF r, c
  <1>3. /\ Blocks(r) \in Seq(Seq(Nat)) /\ Len(Blocks(r)) = Len(r)
        /\ \A i \in 1 .. Len(r) : Blocks(r)[i] = ChunksOf(r[i])
    BY <1>1, BlocksType
  <1>4. ChunksOf(c) \in Seq(Nat) /\ <<ChunksOf(c)>> \in Seq(Seq(Nat))
        /\ Len(<<ChunksOf(c)>>) = 1 /\ <<ChunksOf(c)>>[1] = ChunksOf(c)
    BY <1>1, ChunksOfType
  <1> DEFINE one == <<ChunksOf(c)>>
             b == one \o Blocks(r)
  <1>o. one \in Seq(Seq(Nat)) /\ Len(one) = 1 /\ one[1] = ChunksOf(c)
    BY <1>4
  <1> HIDE DEF one
  <1>5. /\ b \in Seq(Seq(Nat)) /\ Len(b) = 1 + Len(r)
        /\ \A i \in 1 .. 1 + Len(r) : b[i] = IF i <= 1 THEN one[i] ELSE Blocks(r)[i - 1]
    <2>1. /\ b \in Seq(Seq(Nat)) /\ Len(b) = Len(one) + Len(Blocks(r))
          /\ \A i \in 1 .. Len(one) + Len(Blocks(r)) :
               b[i] = IF i <= Len(one) THEN one[i] ELSE Blocks(r)[i - Len(one)]
      <3>1. Blocks(r) \in Seq(Seq(Nat))
        BY <1>3
      <3> QED BY <3>1, <1>o, ConcatProperties
    <2> HIDE DEF b
    <2>2. Len(one) = 1 /\ Len(Blocks(r)) = Len(r)
      BY <1>3, <1>o
    <2> QED BY <2>1, <2>2
  <1> HIDE DEF b
  <1>6. \A i \in 1 .. Len(r) + 1 : Blocks(q)[i] = b[i]
    <2> TAKE i \in 1 .. Len(r) + 1
    <2>1. CASE i = 1
      BY <1>1, <1>2, <1>5, <1>o, <2>1
    <2>2. CASE i # 1
      <3>1. i - 1 \in 1 .. Len(r) /\ (i - 1) + 1 = i
        BY <1>1, <2>2
      <3>2. r[i - 1] = q[i]
        BY <1>1, <3>1
      <3>3. b[i] = Blocks(r)[i - 1]
        BY <1>1, <1>5, <2>2
      <3> QED BY <1>1, <1>2, <1>3, <3>1, <3>2, <3>3
    <2> QED BY <2>1, <2>2
  <1>7. Blocks(q) = b
    <2>1. Len(Blocks(q)) = Len(b) /\ \A i \in 1 .. Len(Blocks(q)) : Blocks(q)[i] = b[i]
      BY <1>1, <1>2, <1>5, <1>6
    <2> QED BY <1>2, <1>5, <2>1, SeqEqual
  <1>8. FlattenSeq(b) = FlattenSeq(one) \o FlattenSeq(Blocks(r))
    BY <1>3, <1>o, FlattenConcat DEF b
  <1>9. FlattenSeq(one) = ChunksOf(c)
    BY <1>4, FlattenOne DEF one
  <1> QED BY <1>7, <1>8, <1>9 DEF r, c

LEMMA NatConcat == \A s, t, u \in Seq(Nat) : (s \o t) \o u = s \o (t \o u)
  BY ConcatIsAssociative

(***************************************************************************)
(* What was handed in and what was handed out, step by step.               *)
(***************************************************************************)

\* The inductive invariant: the commands counted are no more than the chunks.
FifoInv == IInv /\ BacklogInv /\ submitted <= HandedIn

First(nums, d) == [i \in 1 .. d |-> nums[i]]

LEMMA FirstOf ==
  ASSUME NEW a \in Seq(Nat), NEW b \in Seq(Nat), NEW d \in 0 .. Len(a)
  PROVE  First(a, d) \in Seq(Nat) /\ First(a \o b, d) = First(a, d)
  <1>1. \A i \in 1 .. Len(a) : (a \o b)[i] = a[i]
    OBVIOUS
  <1>2. Len(a) \in Nat
    OBVIOUS
  <1>3. \A i \in 1 .. d : i \in 1 .. Len(a) /\ a[i] \in Nat
    BY <1>2
  <1> QED BY <1>1, <1>2, <1>3 DEF First

LEMMA FirstNext ==
  ASSUME NEW a \in Seq(Nat), NEW d \in Nat, d < Len(a)
  PROVE  /\ First(a, d) \in Seq(Nat) /\ a[d + 1] \in Nat
         /\ First(a, d + 1) = First(a, d) \o <<a[d + 1]>> /\ First(a, d + 1) \in Seq(Nat)
         /\ \E b \in Seq(Nat) : a = First(a, d + 1) \o b
  <1>1. Len(a) \in Nat /\ \A i \in 1 .. Len(a) : a[i] \in Nat
    OBVIOUS
  <1>2. \A i \in 1 .. d + 1 : i \in 1 .. Len(a)
    BY <1>1
  <1>3. First(a, d) \in Seq(Nat) /\ a[d + 1] \in Nat /\ First(a, d + 1) \in Seq(Nat)
        /\ Len(First(a, d)) = d /\ Len(First(a, d + 1)) = d + 1
    BY <1>1, <1>2 DEF First
  <1>4. First(a, d + 1) = First(a, d) \o <<a[d + 1]>>
    BY <1>1, <1>2 DEF First
  <1> DEFINE b == [i \in 1 .. Len(a) - (d + 1) |-> a[i + (d + 1)]]
  <1>5. b \in Seq(Nat) /\ Len(b) = Len(a) - (d + 1)
    BY <1>1
  <1>6. \A i \in 1 .. Len(a) :
          a[i] = IF i <= d + 1 THEN First(a, d + 1)[i] ELSE b[i - (d + 1)]
    <2> TAKE i \in 1 .. Len(a)
    <2>1. CASE i <= d + 1
      BY <1>1, <2>1 DEF First
    <2>2. CASE ~(i <= d + 1)
      <3>1. i - (d + 1) \in 1 .. Len(a) - (d + 1) /\ (i - (d + 1)) + (d + 1) = i
        BY <1>1, <2>2
      <3> QED BY <2>2, <3>1
    <2> QED BY <2>1, <2>2
  <1> HIDE DEF b
  <1> DEFINE f == First(a, d + 1)
             c == f \o b
  <1>7. f \in Seq(Nat) /\ Len(f) = d + 1
    BY <1>3
  <1> HIDE DEF f
  <1>8. /\ c \in Seq(Nat) /\ Len(c) = Len(f) + Len(b)
        /\ \A i \in 1 .. Len(f) + Len(b) : c[i] = IF i <= Len(f) THEN f[i] ELSE b[i - Len(f)]
    BY <1>5, <1>7, ConcatProperties
  <1> HIDE DEF c
  <1>9. a = c
    <2>1. Len(f) + Len(b) = Len(a)
      BY <1>1, <1>5, <1>7
    <2>2. Len(c) = Len(a) /\ \A i \in 1 .. Len(a) : c[i] = a[i]
      BY <1>6, <1>7, <1>8, <2>1 DEF f
    <2> QED BY <1>8, <2>2, SeqEqual
  <1> QED BY <1>3, <1>4, <1>5, <1>9 DEF c, f

LEMMA ReceivedIs ==
  TypeOK /\ InOrderExactlyOnce
    => /\ ReceivedChunks = ProgramChunks(First(numbered, Len(delivered)))
       /\ Len(delivered) \in Nat /\ numbered \in Seq(Nat) /\ QueuedChunks \in Seq(Nat)
  <1> SUFFICES ASSUME TypeOK, InOrderExactlyOnce
               PROVE  /\ ReceivedChunks = ProgramChunks(First(numbered, Len(delivered)))
                      /\ Len(delivered) \in Nat /\ numbered \in Seq(Nat)
                      /\ QueuedChunks \in Seq(Nat)
    OBVIOUS
  <1>1. delivered \in Seq(Nat) /\ Len(delivered) \in Nat /\ numbered \in Seq(Nat)
        /\ DOMAIN delivered = 1 .. Len(delivered) /\ queuedCommands \in Seq(Waiting)
    BY DEF TypeOK, Waiting
  <1>2. [i \in DOMAIN delivered |-> numbered[delivered[i] + 1]]
          = First(numbered, Len(delivered))
    <2>1. \A i \in 1 .. Len(delivered) : delivered[i] + 1 = i
      BY <1>1 DEF InOrderExactlyOnce
    <2> QED BY <1>1, <2>1 DEF First
  <1>3. QueuedChunks \in Seq(Nat)
    BY <1>1, BlocksChunks, QueuedIsBlocks
  <1> QED BY <1>1, <1>2, <1>3 DEF ReceivedChunks

LEMMA ReceivedIsNext ==
  (TypeOK /\ InOrderExactlyOnce)'
    => (/\ ReceivedChunks = ProgramChunks(First(numbered, Len(delivered)))
        /\ Len(delivered) \in Nat /\ numbered \in Seq(Nat) /\ QueuedChunks \in Seq(Nat))'
  BY ReceivedIs, PTL

LEMMA QueuedIsBlocksNext == QueuedChunks' = FlattenSeq(Blocks(queuedCommands'))
  <1>1. (QueuedChunks = FlattenSeq(Blocks(queuedCommands)))'
    BY QueuedIsBlocks, PTL
  <1> QED BY <1>1

\* Numbers are given behind those that were: what was handed out stays.
LEMMA NumberingKeepsReceived ==
  ASSUME IInv, IInv', NEW x \in Seq(Nat), numbered' = numbered \o x, delivered' = delivered
  PROVE  /\ ReceivedChunks' = ReceivedChunks
         /\ ProgramChunks(numbered') = ProgramChunks(numbered) \o ProgramChunks(x)
         /\ Allocated' = Allocated + Len(x)
  <1>1. /\ ReceivedChunks = ProgramChunks(First(numbered, Len(delivered)))
        /\ Len(delivered) \in Nat /\ numbered \in Seq(Nat)
    BY ReceivedIs DEF IInv
  <1>2. ReceivedChunks' = ProgramChunks(First(numbered', Len(delivered')))
    BY ReceivedIsNext DEF IInv
  <1>3. Len(delivered) \in 0 .. Len(numbered)
    BY <1>1 DEF IInv, PositionsInRange, Allocated
  <1>4. First(numbered', Len(delivered')) = First(numbered, Len(delivered))
    BY <1>1, <1>3, FirstOf
  <1>5. ProgramChunks(numbered \o x) = ProgramChunks(numbered) \o ProgramChunks(x)
    BY <1>1, ProgramConcat
  <1>6. Allocated' = Allocated + Len(x)
    BY <1>1 DEF Allocated
  <1> QED BY <1>1, <1>2, <1>4, <1>5, <1>6

LEMMA SubmitIsSubmit ==
  ASSUME FifoInv, IInv', NEW n \in ChunkCounts, SubmitNumbered(n) \/ SubmitQueued(n)
  PROVE  Fifo!Submit /\ submitted' <= HandedIn'
  <1>a. \A s, t, u \in Seq(Nat) : (s \o t) \o u = s \o (t \o u)
    BY NatConcat
  <1> DEFINE c == submitted + 1
             rep == [k \in 1 .. n |-> c]
  <1>1. /\ ReceivedChunks = ProgramChunks(First(numbered, Len(delivered)))
        /\ numbered \in Seq(Nat) /\ QueuedChunks \in Seq(Nat)
        /\ ProgramChunks(numbered) \in Seq(Nat)
    BY ReceivedIs, ProgramType DEF IInv, FifoInv
  <1>2. /\ n \in Nat /\ n >= 1 /\ submitted \in Nat /\ Allocated \in Nat /\ MaxStream \in Nat
        /\ Len(QueuedChunks) \in Nat /\ submitted <= Allocated + Len(QueuedChunks)
    <2>1. submitted \in Nat /\ submitted <= HandedIn
      BY DEF FifoInv, IInv, TypeOK
    <2>2. n \in Nat /\ n >= 1 /\ MaxStream \in Nat
      BY ChannelAssumption
    <2>3. Allocated \in Nat /\ Len(QueuedChunks) \in Nat
      BY <1>1 DEF Allocated
    <2> QED BY <2>1, <2>2, <2>3 DEF HandedIn
  <1>3. submitted' = c /\ StreamRoom(n)
    BY DEF SubmitNumbered, SubmitQueued
  <1>4. c \in 1 .. MaxStream /\ c \in Nat /\ c # 0
    BY <1>2, <1>3 DEF StreamRoom
  <1>5. rep \in Seq(Nat) /\ Len(rep) = n
    BY <1>2, <1>4
  <1>6. SentChunks' = SentChunks \o rep /\ ReceivedChunks' = ReceivedChunks
        /\ submitted' <= HandedIn'
    <2>1. CASE SubmitNumbered(n)
      <3>1. /\ queuedCommands = <<>> /\ queuedCommands' = queuedCommands
            /\ numbered' = numbered \o rep /\ delivered' = delivered
        BY <1>3, <2>1 DEF SubmitNumbered, MayNumberAtOnce, Number, receiverVars
      <3>2. QueuedChunks = <<>> /\ QueuedChunks' = <<>>
        <4>1. Blocks(<<>>) = <<>>
          BY DEF Blocks
        <4> QED BY <3>1, <4>1, FlattenNone, QueuedIsBlocks, QueuedIsBlocksNext
      <3>3. ProgramChunks(rep) = rep
        BY <1>2, <1>4, ProgramCommand
      <3> HIDE DEF rep, c
      <3>4. /\ ReceivedChunks' = ReceivedChunks /\ Allocated' = Allocated + Len(rep)
            /\ ProgramChunks(numbered') = ProgramChunks(numbered) \o rep
        BY <1>5, <3>1, <3>3, NumberingKeepsReceived DEF FifoInv
      <3>5. /\ SentChunks = ProgramChunks(numbered)
            /\ SentChunks' = ProgramChunks(numbered) \o rep
        <4>1. ProgramChunks(numbered) \o rep \in Seq(Nat)
          BY <1>1, <1>5, ConcatProperties
        <4>2. /\ ProgramChunks(numbered) \o <<>> = ProgramChunks(numbered)
              /\ (ProgramChunks(numbered) \o rep) \o <<>> = ProgramChunks(numbered) \o rep
          BY <1>1, <4>1, ConcatEmptySeq
        <4>3. SentChunks' = ProgramChunks(numbered') \o QueuedChunks'
          BY DEF SentChunks
        <4> QED BY <3>2, <3>4, <4>2, <4>3 DEF SentChunks
      <3>6. submitted' <= HandedIn'
        <4>1. HandedIn' = Allocated' + Len(QueuedChunks')
          BY DEF HandedIn
        <4>2. Len(QueuedChunks) = 0 /\ Len(QueuedChunks') = 0
          BY <3>2
        <4> QED BY <1>2, <1>3, <1>5, <3>4, <4>1, <4>2 DEF c
      <3> QED BY <3>4, <3>5, <3>6
    <2>2. CASE SubmitQueued(n)
      <3> DEFINE w == [cmd |-> c, chunks |-> n]
      <3>1. /\ queuedCommands' = Append(queuedCommands, w)
            /\ numbered' = numbered /\ delivered' = delivered
        BY <1>3, <2>2 DEF SubmitQueued, receiverVars
      <3>2. w \in Waiting /\ ChunksOf(w) = rep /\ queuedCommands \in Seq(Waiting)
        BY <1>2, <1>4 DEF Waiting, ChunksOf, FifoInv, IInv, TypeOK
      <3> HIDE DEF w, rep, c
      <3>3. QueuedChunks' = QueuedChunks \o rep
        BY <3>1, <3>2, BlocksAppend, QueuedIsBlocks, QueuedIsBlocksNext
      <3>4. SentChunks' = SentChunks \o rep
        <4>1. SentChunks' = ProgramChunks(numbered) \o (QueuedChunks \o rep)
          BY <3>1, <3>3 DEF SentChunks
        <4>2. (ProgramChunks(numbered) \o QueuedChunks) \o rep
                = ProgramChunks(numbered) \o (QueuedChunks \o rep)
          BY <1>1, <1>5, <1>a
        <4> QED BY <4>1, <4>2 DEF SentChunks
      <3>5. ReceivedChunks' = ReceivedChunks
        BY <3>1 DEF ReceivedChunks
      <3>6. submitted' <= HandedIn'
        <4>1. HandedIn' = Allocated + Len(QueuedChunks')
          BY <3>1 DEF HandedIn, Allocated
        <4>2. Len(QueuedChunks') = Len(QueuedChunks) + Len(rep)
          BY <1>1, <1>5, <3>3, ConcatProperties
        <4> QED BY <1>2, <1>3, <1>5, <4>1, <4>2 DEF c
      <3> QED BY <3>4, <3>5, <3>6
    <2> QED BY <2>1, <2>2
  <1> QED BY <1>4, <1>6 DEF Fifo!Submit

LEMMA RunningIsQuiet ==
  ASSUME FifoInv, IInv', RunCommandQueues
  PROVE  UNCHANGED <<SentChunks, ReceivedChunks>> /\ submitted' <= HandedIn'
  <1>a. \A s, t, u \in Seq(Nat) : (s \o t) \o u = s \o (t \o u)
    BY NatConcat
  <1> DEFINE c == Head(queuedCommands)
             q == Tail(queuedCommands)
  <1>1. /\ numbered \in Seq(Nat) /\ ProgramChunks(numbered) \in Seq(Nat)
        /\ Allocated \in Nat /\ submitted \in Nat /\ queuedCommands \in Seq(Waiting)
    BY ReceivedIs, ProgramType DEF IInv, FifoInv, TypeOK, Allocated, Waiting
  <1>2. /\ queuedCommands # <<>> /\ queuedCommands' = q /\ delivered' = delivered
        /\ numbered' = numbered \o ChunksOf(c) /\ submitted' = submitted
    BY DEF RunCommandQueues, Number, ChunksOf, receiverVars
  <1>3. c \in Waiting /\ q \in Seq(Waiting) /\ c = queuedCommands[1] /\ 1 \in DOMAIN queuedCommands
    BY <1>1, <1>2
  <1>4. FlattenSeq(Blocks(queuedCommands)) = ChunksOf(c) \o FlattenSeq(Blocks(q))
    BY <1>1, <1>2, BlocksHead
  <1> DEFINE x == ChunksOf(c)
             y == FlattenSeq(Blocks(q))
  <1>5. c.cmd > 0 /\ c.cmd \in Nat /\ c.chunks \in Nat
    BY <1>3 DEF FifoInv, BacklogInv, Waiting
  <1> HIDE DEF c, q
  <1>6. x \in Seq(Nat) /\ y \in Seq(Nat)
    BY <1>3, ChunksOfType, BlocksChunks
  <1>7. ProgramChunks(x) = x
    BY <1>5, ProgramCommand DEF ChunksOf
  <1>8. QueuedChunks = x \o y /\ QueuedChunks' = y
    BY <1>2, <1>4, QueuedIsBlocks, QueuedIsBlocksNext
  <1>9. numbered' = numbered \o x
    BY <1>2
  <1> HIDE DEF x, y
  <1>10. /\ ReceivedChunks' = ReceivedChunks /\ Allocated' = Allocated + Len(x)
         /\ ProgramChunks(numbered') = ProgramChunks(numbered) \o x
    BY <1>2, <1>6, <1>7, <1>9, NumberingKeepsReceived DEF FifoInv
  <1>11. SentChunks' = SentChunks
    <2>1. SentChunks' = (ProgramChunks(numbered) \o x) \o y
      BY <1>8, <1>10 DEF SentChunks
    <2>2. (ProgramChunks(numbered) \o x) \o y = ProgramChunks(numbered) \o (x \o y)
      BY <1>1, <1>6, <1>a
    <2> QED BY <1>8, <2>1, <2>2 DEF SentChunks
  <1>12. submitted' <= HandedIn'
    <2>1. HandedIn' = Allocated' + Len(QueuedChunks')
      BY DEF HandedIn
    <2>2. Len(QueuedChunks) = Len(x) + Len(y) /\ Len(x) \in Nat /\ Len(y) \in Nat
      BY <1>6, <1>8, ConcatProperties
    <2> QED BY <1>1, <1>2, <1>8, <1>10, <2>1, <2>2 DEF FifoInv, HandedIn
  <1> QED BY <1>10, <1>11, <1>12

LEMMA PingIsQuiet ==
  ASSUME FifoInv, IInv', Ping
  PROVE  UNCHANGED <<SentChunks, ReceivedChunks>> /\ submitted' <= HandedIn'
  <1>1. /\ numbered \in Seq(Nat) /\ ProgramChunks(numbered) \in Seq(Nat)
        /\ Allocated \in Nat /\ submitted \in Nat
        /\ QueuedChunks \in Seq(Nat) /\ Len(QueuedChunks) \in Nat
    BY ReceivedIs, ProgramType DEF IInv, FifoInv, TypeOK, Allocated
  <1>2. [k \in 1 .. 1 |-> 0] = <<0>>
    OBVIOUS
  <1>3. /\ queuedCommands' = queuedCommands /\ delivered' = delivered
        /\ numbered' = numbered \o <<0>> /\ submitted' = submitted
    BY <1>2 DEF Ping, Number, receiverVars
  <1>4. <<0>> \in Seq(Nat) /\ Len(<<0>>) = 1
    OBVIOUS
  <1>5. ProgramChunks(<<0>>) = <<>>
    BY ProgramOne
  <1>6. /\ ReceivedChunks' = ReceivedChunks /\ Allocated' = Allocated + 1
        /\ ProgramChunks(numbered') = ProgramChunks(numbered) \o <<>>
    BY <1>3, <1>4, <1>5, NumberingKeepsReceived DEF FifoInv
  <1>7. ProgramChunks(numbered') = ProgramChunks(numbered)
    BY <1>1, <1>6, ConcatEmptySeq
  <1>8. QueuedChunks' = QueuedChunks
    BY <1>3 DEF QueuedChunks
  <1>9. HandedIn' = Allocated' + Len(QueuedChunks')
    BY DEF HandedIn
  <1>10. submitted' <= HandedIn'
    BY <1>1, <1>3, <1>6, <1>8, <1>9 DEF FifoInv, HandedIn
  <1> QED BY <1>6, <1>7, <1>8, <1>10 DEF SentChunks

\* The next packet is processed: a chunk of the program comes out, or a ping.
LEMMA ProcessingIsDeliver ==
  ASSUME IInv, IInv', numbered' = numbered, queuedCommands' = queuedCommands,
         NEW id, delivered' = Append(delivered, id)
  PROVE  Fifo!Deliver \/ UNCHANGED <<SentChunks, ReceivedChunks>>
  <1>a. \A s, t, u \in Seq(Nat) : (s \o t) \o u = s \o (t \o u)
    BY NatConcat
  <1> DEFINE d == Len(delivered)
             x == numbered[d + 1]
             got == ProgramChunks(First(numbered, d))
  <1>1. /\ ReceivedChunks = got /\ d \in Nat /\ numbered \in Seq(Nat)
        /\ QueuedChunks \in Seq(Nat)
    BY ReceivedIs DEF IInv
  <1>2. Len(delivered') = d + 1
    BY DEF IInv, TypeOK
  <1>3. ReceivedChunks' = ProgramChunks(First(numbered, d + 1))
    <2>1. ReceivedChunks' = ProgramChunks(First(numbered', Len(delivered')))
      BY ReceivedIsNext DEF IInv
    <2> HIDE DEF d
    <2> QED BY <1>2, <2>1
  <1>4. d < Len(numbered)
    <2>1. Len(delivered') <= Len(numbered')
      BY DEF IInv, PositionsInRange, Allocated
    <2>2. Len(numbered) \in Nat
      BY <1>1
    <2> HIDE DEF d
    <2> QED BY <1>1, <1>2, <2>1, <2>2
  <1> HIDE DEF d
  <1>5. /\ First(numbered, d) \in Seq(Nat) /\ x \in Nat
        /\ First(numbered, d + 1) \in Seq(Nat)
        /\ First(numbered, d + 1) = First(numbered, d) \o <<x>>
        /\ \E b \in Seq(Nat) : numbered = First(numbered, d + 1) \o b
    BY <1>1, <1>4, FirstNext
  <1>6. PICK b \in Seq(Nat) : numbered = First(numbered, d + 1) \o b
    BY <1>5
  <1> DEFINE one == IF x = 0 THEN <<>> ELSE <<x>>
             rest == ProgramChunks(b) \o QueuedChunks
  <1>7. /\ got \in Seq(Nat) /\ <<x>> \in Seq(Nat) /\ one \in Seq(Nat)
        /\ ProgramChunks(b) \in Seq(Nat)
    <2>1. <<x>> \in Seq(Nat) /\ one \in Seq(Nat)
      BY <1>5
    <2> QED BY <1>5, <2>1, ProgramType
  <1>8. ProgramChunks(First(numbered, d + 1)) = got \o one
    <2>1. ProgramChunks(<<x>>) = one
      BY <1>5, ProgramOne
    <2>2. ProgramChunks(First(numbered, d) \o <<x>>) = got \o ProgramChunks(<<x>>)
      BY <1>5, <1>7, ProgramConcat
    <2> QED BY <1>5, <2>1, <2>2
  <1>9. SentChunks = (got \o one) \o rest
    <2>1. First(numbered, d + 1) \in Seq(Nat)
      BY <1>5
    <2>2. ProgramChunks(numbered) = ProgramChunks(First(numbered, d + 1)) \o ProgramChunks(b)
      BY <1>6, <2>1, ProgramConcat
    <2>3. got \o one \in Seq(Nat)
      <3>1. got \in Seq(Nat) /\ one \in Seq(Nat)
        BY <1>7
      <3> HIDE DEF got, one
      <3> QED BY <3>1, ConcatProperties
    <2> DEFINE f == got \o one
               p == ProgramChunks(b)
    <2>4. SentChunks = (f \o p) \o QueuedChunks
      BY <1>8, <2>2 DEF SentChunks
    <2>5. f \in Seq(Nat) /\ p \in Seq(Nat)
      BY <1>7, <2>3
    <2> HIDE DEF f, p
    <2>6. SentChunks = f \o (p \o QueuedChunks)
      <3>1. (f \o p) \o QueuedChunks = f \o (p \o QueuedChunks)
        BY <1>1, <1>a, <2>5
      <3> QED BY <2>4, <3>1
    <2> QED BY <2>6 DEF f, p
  <1>10. SentChunks' = SentChunks
    <2>1. QueuedChunks' = QueuedChunks
      BY DEF QueuedChunks
    <2> QED BY <2>1 DEF SentChunks
  <1>11. rest \in Seq(Nat)
    BY <1>1, <1>7, ConcatProperties
  <1> HIDE DEF x, got, rest
  <1>12. CASE x = 0
    BY <1>1, <1>3, <1>7, <1>8, <1>10, <1>12, ConcatEmptySeq
  <1>13. CASE x # 0
    <2>1. SentChunks = (got \o <<x>>) \o rest /\ ReceivedChunks' = got \o <<x>>
      BY <1>3, <1>8, <1>9, <1>13
    <2>2. got \o <<x>> = Append(got, x)
      BY <1>5, <1>7, AppendIsConcat
    <2>3. Append(got, x) \in Seq(Nat) /\ Len(Append(got, x)) = Len(got) + 1
          /\ Append(got, x)[Len(got) + 1] = x /\ Len(got) \in Nat
      BY <1>5, <1>7
    <2> DEFINE g == Append(got, x)
    <2>4. g \in Seq(Nat) /\ Len(g) = Len(got) + 1 /\ g[Len(got) + 1] = x
      BY <2>3
    <2> HIDE DEF g
    <2>5. SentChunks = g \o rest
      BY <2>1, <2>2 DEF g
    <2>6. Len(got) < Len(SentChunks) /\ SentChunks[Len(got) + 1] = x
      <3>1. /\ Len(g \o rest) = Len(g) + Len(rest) /\ Len(rest) \in Nat
            /\ \A i \in 1 .. Len(g) + Len(rest) :
                 (g \o rest)[i] = IF i <= Len(g) THEN g[i] ELSE rest[i - Len(g)]
        <4>1. g \in Seq(Nat) /\ rest \in Seq(Nat) /\ Len(rest) \in Nat
          BY <1>11, <2>4
        <4> QED BY <4>1, ConcatProperties
      <3>2. Len(got) + 1 \in 1 .. Len(g) + Len(rest) /\ Len(got) + 1 <= Len(g)
        BY <2>3, <2>4, <3>1
      <3> QED BY <2>3, <2>4, <2>5, <3>1, <3>2
    <2>7. ReceivedChunks' = Append(ReceivedChunks, SentChunks[Len(ReceivedChunks) + 1])
      BY <1>1, <2>1, <2>2, <2>6
    <2>8. Len(ReceivedChunks) < Len(SentChunks)
      BY <1>1, <2>6
    <2> QED BY <1>10, <2>7, <2>8 DEF Fifo!Deliver
  <1> QED BY <1>12, <1>13

LEMMA NextIsFifo ==
  ASSUME FifoInv, IInv', [Next]_vars
  PROVE  (Fifo!Next \/ UNCHANGED <<SentChunks, ReceivedChunks>>) /\ submitted' <= HandedIn'
  <1>1. ASSUME NEW n \in ChunkCounts, SubmitNumbered(n) \/ SubmitQueued(n)
        PROVE  Fifo!Submit /\ submitted' <= HandedIn'
    BY <1>1, SubmitIsSubmit
  <1>2. CASE RunCommandQueues
    BY <1>2, RunningIsQuiet
  <1>3. CASE Ping
    BY <1>3, PingIsQuiet
  <1>4. ASSUME numbered' = numbered, queuedCommands' = queuedCommands, submitted' = submitted
        PROVE  submitted' <= HandedIn'
    <2>1. HandedIn' = HandedIn
      BY <1>4 DEF HandedIn, Allocated, QueuedChunks
    <2> QED BY <1>4, <2>1 DEF FifoInv
  <1>5. CASE Unbuffer \/ \E m \in network : ReceiveInTurn(m)
    <2>1. /\ numbered' = numbered /\ queuedCommands' = queuedCommands
          /\ submitted' = submitted /\ \E id : delivered' = Append(delivered, id)
      BY <1>5 DEF Unbuffer, ReceiveInTurn, senderVars
    <2>2. Fifo!Deliver \/ UNCHANGED <<SentChunks, ReceivedChunks>>
      BY <2>1, ProcessingIsDeliver DEF FifoInv
    <2> QED BY <1>4, <2>1, <2>2 DEF Fifo!Next
  <1>6. CASE \/ SendQueued \/ UpdateTimers \/ Drained \/ Lose \/ UNCHANGED vars
             \/ \E i \in DOMAIN outgoingReliablesSent : Resend(outgoingReliablesSent[i])
             \/ \E m \in network : ReceiveAck(m) \/ ReceiveAhead(m) \/ ReceiveOutside(m)
    <2>1. /\ numbered' = numbered /\ queuedCommands' = queuedCommands
          /\ submitted' = submitted /\ delivered' = delivered
      BY <1>6 DEF SendQueued, UpdateTimers, Drained, Lose, Resend, ReceiveAck,
         ReceiveAhead, ReceiveOutside, senderVars, receiverVars, vars
    <2>2. UNCHANGED <<SentChunks, ReceivedChunks>>
      BY <2>1 DEF SentChunks, ReceivedChunks, QueuedChunks
    <2> QED BY <1>4, <2>1, <2>2
  <1> QED BY <1>1, <1>2, <1>3, <1>5, <1>6 DEF Next, ReceiveData, Fifo!Next

(***************************************************************************)
(* The channel is a FIFO: what the peer's program gets out of it, chunk by *)
(* chunk, is what this side's program handed in, in that order and each    *)
(* chunk once, if BacklogLimit is less than RecvWindow (the comment on     *)
(* PACKET_TYPE_RELIABLE in network/mtp/internal.h).  Pings use numbers of  *)
(* the stream and never come out.                                          *)
(***************************************************************************)
THEOREM ChannelIsFifo ==
  ASSUME BacklogLimit < RecvWindow
  PROVE  Spec => ImplementsFifo
  <1>1. Init => Fifo!Init /\ submitted <= HandedIn
    <2> SUFFICES ASSUME Init PROVE Fifo!Init /\ submitted <= HandedIn
      OBVIOUS
    <2>1. queuedCommands = <<>> /\ numbered = <<>> /\ delivered = <<>> /\ submitted = 0
      BY DEF Init
    <2>2. Blocks(<<>>) = <<>>
      BY DEF Blocks
    <2>3. QueuedChunks = <<>>
      BY <2>1, <2>2, FlattenNone, QueuedIsBlocks
    <2>4. [i \in DOMAIN delivered |-> numbered[delivered[i] + 1]] = <<>>
      BY <2>1
    <2>5. SentChunks = <<>> /\ ReceivedChunks = <<>>
      <3>1. <<>> \o <<>> = <<>>
        OBVIOUS
      <3> QED BY <2>1, <2>3, <2>4, <3>1, ProgramNone DEF SentChunks, ReceivedChunks
    <2>6. submitted <= HandedIn
      BY <2>1, <2>3 DEF HandedIn, Allocated
    <2> QED BY <2>5, <2>6 DEF Fifo!Init
  <1>2. IInv /\ BacklogInv /\ submitted <= HandedIn /\ [Next]_vars /\ IInv'
          => submitted' <= HandedIn' /\ [Fifo!Next]_(Fifo!fifoVars)
    <2>1. ASSUME FifoInv, IInv', [Next]_vars
          PROVE  submitted' <= HandedIn' /\ [Fifo!Next]_(Fifo!fifoVars)
      BY <2>1, NextIsFifo DEF Fifo!fifoVars
    <2> QED BY <2>1 DEF FifoInv
  <1>3. (submitted <= HandedIn)' <=> submitted' <= HandedIn'
    OBVIOUS
  <1> QED BY BacklogIsBounded, <1>1, <1>2, <1>3, PTL DEF Spec, ImplementsFifo

=============================================================================
