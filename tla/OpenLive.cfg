SPECIFICATION LiveSpec
CONSTANTS
  Sessions = {s1}
  Candidates = {c1, c2}
  Evaluations = {}
  Batches = {}
  RunIds = {r1, r2, r3, r4, r5}
  BatchIds = {}
  None = None
  CommandsUsed = {"step", "open"}
  SubmissionEnds = {"accepted"}
  MayRaise = FALSE
  MaxKills = 2
INVARIANTS
  TrainedRunIsAnnounced
PROPERTIES
  SubmittedOnce
  CandidatesEnd
CHECK_DEADLOCK FALSE
