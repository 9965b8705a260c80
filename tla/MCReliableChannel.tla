-------------------------- MODULE MCReliableChannel -------------------------
(***************************************************************************)
(* ReliableChannel on a circle of a few sequence numbers.                  *)
(***************************************************************************)
EXTENDS ReliableChannel

MCWindowSteps == {-2, 2}

=============================================================================
