-------------------------- MODULE MCGatherService --------------------------
(***************************************************************************)
(* A facilitator f and the seekers a, b and c for model checking.          *)
(***************************************************************************)
EXTENDS GatherService, TLC

CONSTANTS f, a, b, c

MCOneSeeker == {f, a}

MCTwoSeekers == {f, a, b}

MCThreeSeekers == {f, a, b, c}

\* Seekers are interchangeable; only safety properties use this.
SeekerSymmetry == Permutations(Seeker)
=============================================================================
