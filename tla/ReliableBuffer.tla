--------------------------- MODULE ReliableBuffer ----------------------------
(***************************************************************************)
(* A ReliablePacketBuffer in use.  The receiver inserts with its next      *)
(* incoming number as the base and takes the front when it is that number; *)
(* the sender inserts with the number RecvWindow before its next outgoing  *)
(* one and pops whatever was acknowledged.  Any number may be offered.     *)
(***************************************************************************)
EXTENDS ReliableBufferOps

VARIABLES m_list,
          next_expected   \* what its user would pass

bufferVars == <<m_list, next_expected>>

BufferInit == m_list = <<>> /\ next_expected = SeqInitial

Insert(s) ==
  /\ m_list' = InsertPacket(m_list, [seq |-> s], next_expected)
  /\ UNCHANGED next_expected

Pop(s) ==
  /\ PositionsOf(m_list, s) # {}
  /\ m_list' = PopSeqnum(m_list, s)
  /\ UNCHANGED next_expected

\* The user moves on; what it waited for leaves the buffer if it is the front
\* (popFirst in checkIncomingBuffers and in handlePacketType_Reliable).
Advance ==
  /\ m_list' = IF m_list # <<>> /\ FirstSeqnum(m_list) = next_expected
               THEN Tail(m_list) ELSE m_list
  /\ next_expected' = SeqAdd(next_expected, 1)

BufferNext == (\E s \in SeqNums : Insert(s) \/ Pop(s)) \/ Advance

BufferSpec == BufferInit /\ [][BufferNext]_bufferVars

-----------------------------------------------------------------------------
(***************************************************************************)
(* The list is sorted by distance from the base and free of duplicates,    *)
(* with the wrap anywhere in it: the front, which getFirstSeqnum returns,  *)
(* is the number whose turn comes first (ReliablePacketBuffer::insert).    *)
(***************************************************************************)
SortedFromBase == \A i, j \in DOMAIN m_list :
  i < j => Distance(next_expected, m_list[i].seq) <
             Distance(next_expected, m_list[j].seq)

(***************************************************************************)
(* As a set it does what OrderedWindow says: no insertion or removal loses *)
(* or keeps another packet, and exactly the numbers of the open window are *)
(* let in.                                                                 *)
(***************************************************************************)
Window == INSTANCE OrderedWindow WITH
  held <- {m_list[i].seq : i \in DOMAIN m_list}, base <- next_expected

ImplementsWindow == Window!Spec

==============================================================================
