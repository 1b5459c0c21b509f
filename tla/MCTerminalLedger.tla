-------------------------- MODULE MCTerminalLedger --------------------------
(* Model-checking instance of TerminalLedger.  Ledger.cfg gives the writers *)
(* and the Runs as model values; it checks liveness, so no symmetry.        *)
EXTENDS TerminalLedger
=============================================================================
