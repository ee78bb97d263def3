---------------------------- MODULE MCGameStart ----------------------------
(***************************************************************************)
(* A small instance of GameStart for TLC: a facilitator f, which dials its *)
(* seekers a and b, and a, which is asked to connect to b.                 *)
(***************************************************************************)
EXTENDS GameStart

CONSTANTS f, a, b

MCPlayers == {f, a, b}
MCOneWay == {<<f, a>>, <<f, b>>, <<a, b>>}
\* Two facilitators: b is asked to connect to a as well.
MCBothWays == MCOneWay \cup {<<b, a>>}
=============================================================================
