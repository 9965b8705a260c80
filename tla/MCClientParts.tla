---------------------------- MODULE MCClientParts ----------------------------
(***************************************************************************)
(* What the server keeps of its clients, who log in and join, and what it  *)
(* sends one of them of the map.  The two parts share no state here: a     *)
(* behaviour picks one of them, which runs while the other stands still.   *)
(* Clients are all alike: their permutations change nothing in a state of  *)
(* the blocks' part, so that its liveness is checked as without symmetry.  *)
(***************************************************************************)
EXTENDS MCPlayerSession, BlockSend

VARIABLE part      \* the part that runs

MCBlocks == {0, 2, 3}

\* One block at the player and one further than a single pass of the search
\* goes, which is on disk: both of them with an edit or a disturbance; and the
\* far block alone with an edit, unloading and either a disturbance or a mod
\* that sends.  A block that cannot be had, being too far to be generated, before
\* the one on disk; and the same two blocks with the player beside them, to dig
\* and place across their border.
MCScenarios ==
  { [blocks |-> {0, 3}, start |-> 0, edits |-> 1, drops |-> 0, disturbed |-> 0,
      mods |-> 0, building |-> TRUE],
    [blocks |-> {0, 3}, start |-> 0, edits |-> 0, drops |-> 0, disturbed |-> 1,
      mods |-> 0, building |-> TRUE],
    [blocks |-> {3}, start |-> 0, edits |-> 1, drops |-> 1, disturbed |-> 1,
      mods |-> 0, building |-> TRUE],
    [blocks |-> {3}, start |-> 0, edits |-> 1, drops |-> 1, disturbed |-> 0,
      mods |-> 1, building |-> FALSE],
    [blocks |-> {2, 3}, start |-> 0, edits |-> 0, drops |-> 0, disturbed |-> 0,
      mods |-> 0, building |-> TRUE],
    [blocks |-> {2, 3}, start |-> 3, edits |-> 1, drops |-> 0, disturbed |-> 0,
      mods |-> 0, building |-> TRUE] }

\* Of the part that stands still one initial state is enough.
InitParts ==
  /\ part \in {"session", "blocks"}
  /\ Init /\ SendingInit
  /\ part = "session" => bounds.mods = 1 /\ hidden = {}
  /\ part = "blocks" => setting.names = {y}

SessionRuns == part = "session" /\ Next
BlocksRun == part = "blocks" /\ SendingNext

NextParts ==
  /\ UNCHANGED part
  /\ \/ SessionRuns /\ UNCHANGED sendingVars
     \/ BlocksRun /\ UNCHANGED vars

PartsSpec == InitParts /\ [][NextParts]_<<part, vars, sendingVars>>

SendingIsFair == part = "blocks" /\ SendingFairness

-----------------------------------------------------------------------------
\* Every wanted block is at the client in the end.
EventuallySent == SendingIsFair => WantedArrives

=============================================================================
