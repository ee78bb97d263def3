---------------------------- MODULE MCSnakeRules ----------------------------
(***************************************************************************)
(* A small instance of SnakeRules for TLC: the players other than Self may *)
(* be exchanged.                                                           *)
(***************************************************************************)
EXTENDS SnakeRules, TLC

CONSTANTS p1, p2, p3

OthersAlike == Permutations(Others)
=============================================================================
