--------------------------- MODULE MCPeerLifecycle --------------------------
(***************************************************************************)
(* PeerLifecycle with two ids and two peers.                               *)
(***************************************************************************)
EXTENDS PeerLifecycle

CONSTANTS a, b   \* model values: peer ids

MCIds == {a, b}

=============================================================================
