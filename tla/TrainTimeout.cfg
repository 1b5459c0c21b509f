SPECIFICATION Spec
CONSTANTS
  MaxEpochs = 1
  Batches = 2
  Values = {0}
  Policies <- OnePolicy
  Faults = {}
  MaxRetries = 0
  BatchSizes = {1}
  Backends = {"timed"}
INVARIANTS
  TimeoutIsSignalled
CHECK_DEADLOCK FALSE
