---------------------------- MODULE MCBlockSend -----------------------------
(***************************************************************************)
(* BlockSend with two blocks: what its exceptions and its assumptions are  *)
(* about.                                                                  *)
(***************************************************************************)
EXTENDS BlockSend

Undisturbed == [drops |-> 0, disturbed |-> 0, mods |-> 0, building |-> FALSE]

\* One block, two edits: enough for a node change to overtake.
StaleBlocks == {3}
MCStale == { Undisturbed @@ [blocks |-> {3}, start |-> 0, edits |-> 2] }

\* Two blocks that touch, and one edit.
BorderBlocks == {0, 1}
MCBorder == { Undisturbed @@ [blocks |-> {0, 1}, start |-> 0, edits |-> 1] }

\* A block that is not generated before one that is on disk.
StuckBlocks == {1, 4}
MCStuck == { Undisturbed @@ [blocks |-> {1, 4}, start |-> 0, edits |-> 0] }

=============================================================================
