------------------------------ MODULE Lockstep ------------------------------
(***************************************************************************)
(* What the snake protocol promises its players (README.md:9,              *)
(* "synchronized state"): a barrier.  A player makes one move for each     *)
(* round, and plays a round once everybody who is still in the game has    *)
(* made the move of it.                                                    *)
(***************************************************************************)
EXTENDS Naturals

CONSTANTS Player,
          DiesIn     \* the round in which the rules kill a player's snake

VARIABLES moved,     \* how many moves a player has made
          played     \* how many rounds it has played

vars == <<moved, played>>

InRound(q, r) == r <= DiesIn[q]

Init == /\ moved = [p \in Player |-> 0]
        /\ played = [p \in Player |-> 0]

Move(p) == /\ moved[p] = played[p]
           /\ InRound(p, played[p] + 1)
           /\ moved' = [moved EXCEPT ![p] = @ + 1]
           /\ UNCHANGED played

Play(p) == /\ \A q \in Player : InRound(q, played[p] + 1) => moved[q] > played[p]
           /\ played' = [played EXCEPT ![p] = @ + 1]
           /\ UNCHANGED moved

Next == \E p \in Player : Move(p) \/ Play(p)

Spec == Init /\ [][Next]_vars
=============================================================================
