---------------------------- MODULE MCQueueLoop ----------------------------
(* Model values and symmetry for the runs of QueueLoop. *)
EXTENDS QueueLoop, TLC

CONSTANTS p1, p2

OneRunner == {p1}
TwoRunners == {p1, p2}
RunnerSymmetry == Permutations(TwoRunners)

Contract == {"clean", "warning", "errors", "ambiguous", "failure", "refused"}
============================================================================
