------------------------------- MODULE SeqNum -------------------------------
(***************************************************************************)
(* Sequence numbers of the reliable transport (src/network/mtp): unsigned  *)
(* numbers that wrap at SEQNUM_MAX + 1, the half-space comparison          *)
(* seqnum_higher, and the window test seqnum_in_window, each with the      *)
(* case split of the C++ code.                                             *)
(*                                                                         *)
(* The code has SeqSpace = 65536 and SeqInitial = 65500; both are          *)
(* constants so that TLC can walk round a small circle.                    *)
(***************************************************************************)
EXTENDS Integers

CONSTANTS SeqSpace,      \* SEQNUM_MAX + 1
          SeqInitial,    \* SEQNUM_INITIAL
          RecvWindow     \* MAX_RELIABLE_WINDOW_SIZE, what a receiver accepts

\* 65536 = 2 * 0x8000: the window is exactly half of the number space.
ASSUME SeqNumAssumption ==
  /\ RecvWindow \in Nat \ {0}
  /\ SeqSpace = 2 * RecvWindow
  /\ SeqInitial \in 0 .. SeqSpace - 1

SeqNums == 0 .. SeqSpace - 1

SeqNumMax == SeqSpace - 1

\* u16 arithmetic on a sequence number.
SeqAdd(s, k) == (s + k) % SeqSpace

\* The sequence number carried by the n-th packet (from 0) of a channel.
SeqNumOf(n) == (SeqInitial + n) % SeqSpace

(***************************************************************************)
(* seqnum_higher(totest, base): "totest" is after "base" on the circle.    *)
(***************************************************************************)
SeqHigher(totest, base) ==
  IF totest > base
  THEN ~(totest - base > SeqNumMax \div 2)
  ELSE base - totest > SeqNumMax \div 2

(***************************************************************************)
(* seqnum_in_window(seqnum, next, window_size): [next, next + size) with   *)
(* the wrapped window as a union of two intervals.                         *)
(***************************************************************************)
SeqInWindow(seqnum, next, size) ==
  LET windowEnd == SeqAdd(next, size)
  IN  IF next < windowEnd
      THEN seqnum >= next /\ seqnum < windowEnd
      ELSE seqnum < windowEnd \/ seqnum >= next

-----------------------------------------------------------------------------
\* Reference definition: how far "to" lies after "from" on the circle.
Distance(from, to) == IF to >= from THEN to - from ELSE to - from + SeqSpace

=============================================================================
