---------------------------- MODULE MCPeerParts -----------------------------
(***************************************************************************)
(* The peers of a connection, and the handshake that opens one, which      *)
(* share no state here: a behaviour picks one part, which runs while the   *)
(* other stands still.  Theorems are proved about both modules, which are  *)
(* therefore extended.                                                     *)
(***************************************************************************)
EXTENDS MCPeerLifecycle, Handshake

VARIABLE running   \* the part that runs

InitParts == running \in {"peers", "handshake"} /\ Init /\ ShakeInit

PeersRun == running = "peers" /\ Next
HandshakeRuns == running = "handshake" /\ ShakeNext

NextParts ==
  /\ UNCHANGED running
  /\ \/ PeersRun /\ UNCHANGED shakeVars
     \/ HandshakeRuns /\ UNCHANGED vars

PartsSpec == InitParts /\ [][NextParts]_<<running, vars, shakeVars>>

=============================================================================
