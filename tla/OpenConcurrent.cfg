SPECIFICATION Spec
CONSTANTS
  Sessions = {s1, s2}
  Candidates = {c1}
  Evaluations = {e1}
  Batches = {b1}
  RunIds = {r1, r2, r3}
  BatchIds = {i1, i2}
  None = None
  CommandsUsed = {"step", "next", "open"}
  SubmissionEnds = {"accepted", "rejected", "smoke_failed"}
  MayRaise = TRUE
  MaxKills = 1
INVARIANTS
  TypeOK
  EvaluatedOnce
SYMMETRY Symmetry
CHECK_DEADLOCK FALSE
