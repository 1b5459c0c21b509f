------------------------ MODULE MCAutonomousIteration ------------------------
(* Model-checking instance of AutonomousIteration.  Iteration.cfg gives the  *)
(* session and the artifacts as model values.                                *)
EXTENDS AutonomousIteration
=============================================================================
