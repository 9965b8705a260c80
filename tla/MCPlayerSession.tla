--------------------------- MODULE MCPlayerSession ---------------------------
(***************************************************************************)
(* Three connections of clients, which call themselves x, y or z.          *)
(***************************************************************************)
EXTENDS PlayerSession, TLC

CONSTANTS c1, c2, c3, x, y, z   \* model values: peers, names

MCPeers == {c1, c2, c3}

\* Clients are all alike.
MCSymmetry == Permutations(MCPeers)

\* One place in the game: three clients that are all y, or each is x or z.
MCOnePlace ==
  {[max_users |-> 1, names |-> {y}, changes |-> 1],
   [max_users |-> 1, names |-> {x, z}, changes |-> 0]}

\* Two places, and three clients that are all x.
MCSameName == {[max_users |-> 2, names |-> {x}, changes |-> 0]}

=============================================================================
