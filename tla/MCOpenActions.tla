---------------------------- MODULE MCOpenActions ----------------------------
(* Instances of OpenActions for TLC. *)
EXTENDS OpenActions, TLC

Symmetry == Permutations(RunIds) \cup Permutations(BatchIds)
             \cup Permutations(Candidates) \cup Permutations(Evaluations)
=============================================================================
