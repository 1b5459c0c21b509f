SPECIFICATION Spec
CONSTANTS
  Sessions = {s1}
  Candidates = {}
  Evaluations = {}
  Batches = {b1}
  RunIds = {}
  BatchIds = {i1, i2}
  None = None
  CommandsUsed = {"step", "open"}
  SubmissionEnds = {"accepted"}
  MayRaise = FALSE
  MaxKills = 0
INVARIANTS
  CompletedBatchIsClosed
CHECK_DEADLOCK FALSE
