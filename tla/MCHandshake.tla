---------------------------- MODULE MCHandshake -----------------------------
(***************************************************************************)
(* Handshake with numbers small enough for TLC.                            *)
(***************************************************************************)
EXTENDS Handshake

=============================================================================
