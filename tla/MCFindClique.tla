---------------------------- MODULE MCFindClique ----------------------------
(***************************************************************************)
(* FindClique on every symmetric mesh of four peers, self-loops included,  *)
(* every order of the map, player counts that panic on both sides, and a   *)
(* word as narrow as the facilitator with a self-loop has neighbours.      *)
(***************************************************************************)
EXTENDS FindClique

CONSTANTS f, a, b, c

MCPeer == {f, a, b, c}

MCCounts == -1..6
=============================================================================
