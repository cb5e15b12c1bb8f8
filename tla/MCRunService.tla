---------------------------- MODULE MCRunService ----------------------------
(* Instances of RunService with two or three runs.                         *)
EXTENDS RunService, TLC

CONSTANTS r1, r2, r3

TwoRuns   == {r1, r2}
ThreeRuns == {r1, r2, r3}

\* The runs do not interact but through _tasks: they are interchangeable.
Symmetry == Permutations(TwoRuns)

=============================================================================
