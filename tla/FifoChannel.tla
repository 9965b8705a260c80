----------------------------- MODULE FifoChannel -----------------------------
(***************************************************************************)
(* What one reliable channel promises to the two programs it connects:     *)
(* every chunk handed to Connection::Send(.., reliable = true) comes out   *)
(* of ReceiveTimeoutMs at the other end, exactly once and in the order in  *)
(* which it was handed in.  That it does come out needs fairness and is    *)
(* stated with it, in ReliableChannel.                                     *)
(*                                                                         *)
(* Contract: the comment on PACKET_TYPE_RELIABLE in network/mtp/internal.h.*)
(***************************************************************************)
EXTENDS Naturals, Sequences

CONSTANTS Commands,    \* identities of the commands a program may submit
          ChunkCounts  \* how many chunks a command may have

VARIABLES sent,        \* the chunks handed in, each named by its command
          received     \* the chunks handed out

fifoVars == <<sent, received>>

Init == sent = <<>> /\ received = <<>>

\* A command of n chunks is handed in as a whole.
Submit == \E c \in Commands, n \in ChunkCounts :
  /\ sent' = sent \o [i \in 1 .. n |-> c]
  /\ UNCHANGED received

Deliver ==
  /\ Len(received) < Len(sent)
  /\ received' = Append(received, sent[Len(received) + 1])
  /\ UNCHANGED sent

Next == Submit \/ Deliver

Spec == Init /\ [][Next]_fifoVars

==============================================================================
