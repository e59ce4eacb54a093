---------------------------- MODULE MCDeployment ----------------------------
(* Deployment, with its history, for a few runs as model values.  Those with *)
(* --overwrite are interchangeable among themselves, and so are the others. *)
EXTENDS OverwriteHistory, TLC

CONSTANTS r1, r2, r3

TwoRuns   == {r1, r2}
ThreeRuns == {r1, r2, r3}
FirstRun  == {r1}
FirstTwo  == {r1, r2}

Symmetry == Permutations(Overwriters) \cup Permutations(Runs \ Overwriters)
=============================================================================
