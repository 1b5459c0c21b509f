SPECIFICATION LiveSpec
CONSTANTS
  Supervisors = {s1, s2}
  Reconcilers = {r1}
  Containers = {c1}
  Nobody = Nobody
  CrashKinds = {"supervisor", "caller", "reconciler", "error"}
  MaxCrashes = 1
  RegistrationMayTimeOut = TRUE
  SmokedBy = {"launcher", "caller"}
  EarlyReconcile = TRUE
INVARIANTS
  SingleTrainer
  TrainedRunIsSubmitted
PROPERTIES
  ContainerKeptUntilTerminal
  EventuallyTerminal
  TerminalIsRecorded
