---------------------------- MODULE MCWorldParts -----------------------------
(***************************************************************************)
(* The client's meshes of blocks and the server's entities in blocks share *)
(* no state; they are checked side by side, like the parts of              *)
(* MCClientParts.                                                          *)
(***************************************************************************)
EXTENDS MCMeshUpdate, ActiveObjects, TLC

CONSTANTS c, d, e, f   \* model values: blocks and entities of ActiveObjects

MCPositions == {c, d}
MCFarFrom == [block \in MCPositions |-> {}]

\* The entities' blocks are all alike, and so are the entities.
MCSymmetry == Permutations(MCPositions) \cup Permutations({e, f})

VARIABLE part   \* the part that runs

InitParts == part \in {"meshes", "entities"} /\ Init /\ ObjectsInit

MeshesRun == part = "meshes" /\ Next
EntitiesRun == part = "entities" /\ ObjectsNext

NextParts ==
  /\ UNCHANGED part
  /\ \/ MeshesRun /\ UNCHANGED objectVars
     \/ EntitiesRun /\ UNCHANGED vars

PartsSpec == InitParts /\ [][NextParts]_<<part, vars, objectVars>>

=============================================================================
