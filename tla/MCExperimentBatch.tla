------------------------- MODULE MCExperimentBatch -------------------------
(* A batch of two, and one single submission; all repair the same proposal. *)
EXTENDS ExperimentBatch

MCBatched == <<"b1", "b2">>
=============================================================================
