--------------------------- MODULE MCGameInstance ---------------------------
EXTENDS GameInstance, TLC

CONSTANTS a, b, c

MCTwo == {a, b}
MCThree == {a, b, c}

\* The rules kill nobody, or only a's snake, in the first round.
MCNever == 100
MCNobodyDies == [p \in Player |-> MCNever]
MCOneDies == [p \in Player |-> IF p = a THEN 1 ELSE MCNever]

PlayerSymmetry == Permutations(Player)
=============================================================================
