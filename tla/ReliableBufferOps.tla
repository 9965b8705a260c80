------------------------- MODULE ReliableBufferOps --------------------------
(***************************************************************************)
(* The operations of class ReliablePacketBuffer on its list of packets.    *)
(* A packet is a record with at least a field "seq"; the list is a         *)
(* sequence, front first.                                                  *)
(***************************************************************************)
EXTENDS SeqNum, SequencesExt

\* A packet of a stream: its number, and the ghost position behind the number.
Packets == [seq : SeqNums, id : Nat]

IdsOf(list) == {list[i].id : i \in DOMAIN list}

\* Every packet carries the number of its position.
SeqsMatch(list) == \A q \in Range(list) : q.seq = SeqNumOf(q.id)

\* Oldest first, no packet twice.
Ascending(list) == \A i, j \in DOMAIN list : i < j => list[i].id < list[j].id

\* Positions of the packets that carry sequence number s.
PositionsOf(list, s) == {i \in DOMAIN list : list[i].seq = s}

\* getFirstSeqnum: the front's number; only meaningful when the list is not empty.
FirstSeqnum(list) == list[1].seq

\* Seeded fault: insert() sorts by the bare number.
PrecedesUnwrapped(s, seqnum, nextExpected) == s < seqnum

(***************************************************************************)
(* insert() walks over the packets that come before the new one.  The loop *)
(* test differs by whether the new number lies below next_expected (it has *)
(* wrapped past zero) or not.                                              *)
(***************************************************************************)
Precedes(s, seqnum, nextExpected) ==
  IF seqnum < nextExpected
  THEN s < seqnum \/ s >= nextExpected
  ELSE s < seqnum /\ s >= nextExpected

\* Where the loop stops: the first packet not passed over, or one past the end.
InsertPosition(list, seqnum, nextExpected) ==
  CHOOSE i \in 1 .. Len(list) + 1 :
    /\ \A j \in 1 .. i - 1 : Precedes(list[j].seq, seqnum, nextExpected)
    /\ i <= Len(list) => ~Precedes(list[i].seq, seqnum, nextExpected)

\* Seeded fault: the number that is expected next is let in as well.
InsertableNext(seqnum, nextExpected) == SeqInWindow(seqnum, nextExpected, RecvWindow)

\* insert() refuses, with nothing but a log line, what is out of the window.
Insertable(seqnum, nextExpected) ==
  /\ SeqInWindow(seqnum, nextExpected, RecvWindow)
  /\ seqnum # nextExpected

(***************************************************************************)
(* insert(p, next_expected): a refused packet and a number that is already *)
(* in its place leave the list alone.                                      *)
(***************************************************************************)
InsertPacket(list, p, nextExpected) ==
  LET i == InsertPosition(list, p.seq, nextExpected)
      present == i <= Len(list) /\ list[i].seq = p.seq
  IN  IF ~Insertable(p.seq, nextExpected) \/ present
      THEN list
      ELSE InsertAt(list, i, p)

\* popSeqnum(seqnum): erase the first packet with that number, if there is one.
PopSeqnum(list, s) ==
  IF PositionsOf(list, s) = {} THEN list
  ELSE RemoveAt(list, CHOOSE i \in PositionsOf(list, s) :
                        \A j \in PositionsOf(list, s) : i <= j)

=============================================================================
