------------------------------ MODULE MCEmerge ------------------------------
(***************************************************************************)
(* Emerge with two threads and four blocks, two of them of one chunk, one  *)
(* over the limit of the map and one over that of the map generator.       *)
(***************************************************************************)
EXTENDS Emerge

CONSTANTS a, b, c, d, p   \* model values: blocks, a peer

MCBlocks == {a, b, c, d}
\* Either the mods ask for further blocks in their callbacks or the server is
\* shut down; with both it may hang.
MCScenarios ==
  {[asks |-> TRUE, stops |-> FALSE, requests |-> 3, blocks |-> {a, b, c}],
   [asks |-> TRUE, stops |-> FALSE, requests |-> 2, blocks |-> MCBlocks],
   [asks |-> FALSE, stops |-> TRUE, requests |-> 2, blocks |-> MCBlocks]}
MCBoth == {[asks |-> TRUE, stops |-> TRUE, requests |-> 2, blocks |-> {a, b, c}]}
\* A client's request, without generation, an active block's and a mod's
\* (core.emerge_area).
Ask(peer, gen, callback) == [peer |-> peer, gen |-> gen, callback |-> callback]
MCKinds == {Ask(p, FALSE, FALSE), Ask(None, TRUE, FALSE), Ask(None, TRUE, TRUE)}
MCChunkOf == [x \in MCBlocks |-> IF x \in {a, b} THEN 1 ELSE IF x = c THEN 2 ELSE 3]

=============================================================================
