-------------------------- MODULE MCActiveObjects ---------------------------
(***************************************************************************)
(* ActiveObjects with two blocks that are not far from each other.         *)
(***************************************************************************)
EXTENDS ActiveObjects, TLC

CONSTANTS a, b, x, y   \* model values: blocks, entities

MCPositions == {a, b}
MCEntities == {x, y}
MCFarFrom == [block \in {a, b} |-> {}]

\* Blocks are all alike, and so are entities.
MCSymmetry == Permutations(MCPositions) \cup Permutations(MCEntities)

=============================================================================
