--------------------------- MODULE MCRunLifecycle ---------------------------
(* Model-checking instance of RunLifecycle.  The Run* configurations give   *)
(* the process and container names as model values and choose which kinds  *)
(* of process may be killed.                                               *)
EXTENDS RunLifecycle, TLC

\* Container names, and supervisors, are interchangeable.  Used by the runs
\* that check no liveness property.
Symmetry == Permutations(Containers) \cup Permutations(Supervisors)
=============================================================================
