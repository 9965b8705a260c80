---------------------------- MODULE OrderedWindow ----------------------------
(***************************************************************************)
(* What a ReliablePacketBuffer promises: it is a set of sequence numbers,  *)
(* all of them within one window of a moving base.                         *)
(***************************************************************************)
EXTENDS SeqNum

VARIABLES held, base

Init == held = {} /\ base = SeqInitial

Insert == \E s \in SeqNums \cap held' :
  /\ held' = held \cup {s}
  /\ Distance(base, s) \in 1 .. RecvWindow - 1
  /\ UNCHANGED base

Pop == \E s \in held : held' = held \ {s} /\ UNCHANGED base

Advance == base' = SeqAdd(base, 1) /\ held' = held \ {base}

Next == Insert \/ Pop \/ Advance

Spec == Init /\ [][Next]_<<held, base>>

==============================================================================
