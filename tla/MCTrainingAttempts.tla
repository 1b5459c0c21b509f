------------------------- MODULE MCTrainingAttempts -------------------------
(* Instances of TrainingAttempts for TLC. *)
EXTENDS TrainingAttempts

Policy(mode, enabled, patience, minDelta, restore) ==
  [mode |-> mode, enabled |-> enabled, patience |-> patience,
   minDelta |-> minDelta, restore |-> restore]

SomePolicies == {Policy("max", TRUE, 1, 1, TRUE), Policy("min", TRUE, 2, 0, FALSE)}
OnePolicy == {Policy("max", FALSE, 1, 0, FALSE)}
=============================================================================
