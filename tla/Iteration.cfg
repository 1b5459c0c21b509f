SPECIFICATION Spec
CONSTANTS
  Sessions = {s1, s2}
  Loopers = {s1}
  Collectors = {s2}
  Candidates = {c1}
  Batches = {}
  Evaluations = {}
  Notes = {n1}
  CapabilityRequests = {q1}
  Reports = {}
  NoArtifact = NoArtifact
  MaxKills = 1
  MaxSteps = 2
  MaxWritten = 2
  MaxControls = 2
  MaxStarts = 2
INVARIANTS
  TypeOK
  PauseHonoured
  StopsForHuman
  HandoffIsFresh
  SubmissionIngestedOnce
  
CHECK_DEADLOCK FALSE
