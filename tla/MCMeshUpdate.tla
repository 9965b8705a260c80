---------------------------- MODULE MCMeshUpdate -----------------------------
(***************************************************************************)
(* Two blocks next to each other, one of them of air, and two workers.     *)
(***************************************************************************)
EXTENDS MeshUpdate

CONSTANTS a, b   \* model values: blocks

MCBlocks == {a, b}
MCAround == [block \in MCBlocks |-> MCBlocks \ {block}]
MCAiry == {b}

=============================================================================
