----------------------------- MODULE RunStatus -----------------------------
(***************************************************************************)
(* What the status in run_metadata.json promises everyone who polls it: a  *)
(* Run advances from smoke test to training to its end, may be given up at *)
(* any point before its end, and never goes back.                          *)
(***************************************************************************)

CONSTANT MayRevise   \* a repair may give an ended Run the other outcome

VARIABLE status

EventStatus == {"completed", "failed"}

Init == status = "smoke_testing"

Smoked == status = "smoke_testing" /\ status' \in {"accepted", "smoke_failed"}

Trains == status = "accepted" /\ status' = "training"

Ends == status = "training" /\ status' \in EventStatus

GivenUp == status \in {"smoke_testing", "accepted", "smoke_failed"} /\ status' = "failed"

Revised == MayRevise /\ status \in EventStatus /\ status' \in EventStatus

Next == Smoked \/ Trains \/ Ends \/ GivenUp \/ Revised

Spec == Init /\ [][Next]_status
=============================================================================
