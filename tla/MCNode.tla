------------------------------- MODULE MCNode -------------------------------
(***************************************************************************)
(* Small instances of Node for TLC: two gather points to join, or one that *)
(* asks for the same seeker more than once.                                *)
(***************************************************************************)
EXTENDS Node, TLC

CONSTANTS f1, f2, s1, s2

MCFacilitators == {f1, f2}
MCOne == f1 :> {s1}
MCOneAtF1 == (f1 :> {s1}) @@ (f2 :> {})
\* A seeker that both facilitators know, for which ClaimsHold fails
MCShared == (f1 :> {s1}) @@ (f2 :> {s1})
=============================================================================
