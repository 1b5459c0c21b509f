SPECIFICATION LiveSpec
CONSTANTS
  Solo = {"s1"}
  Batched <- MCBatched
  Repairs = {"s1", "b1", "b2"}
  Submitters = 1
  MaxReconciles = 1
  MaxParallel = 2
  MaxKills = 1
INVARIANTS TypeOK OutcomesAreRecorded
PROPERTIES BatchEnds
CHECK_DEADLOCK FALSE
