SPECIFICATION LiveSpec
CONSTANTS
  MaxEpochs = 3
  Batches = 1
  Values = {0, 1, 2}
  Policies <- SomePolicies
  Faults = {"memory", "candidate", "harness"}
  MaxRetries = 2
  BatchSizes = {2, 8}
  Backends = {"native", "docker", "timed"}
INVARIANTS
  TypeOK
  EarlyStopIsJustified
  RetriesHalve
  CompletedOutputsAgree
PROPERTIES
  BudgetEndsTraining
CHECK_DEADLOCK FALSE
