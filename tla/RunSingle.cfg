SPECIFICATION LiveSpec
CONSTANTS
  Supervisors = {s1}
  Reconcilers = {r1}
  Containers = {c1, c2}
  Nobody = Nobody
  CrashKinds = {"launcher", "error"}
  MaxCrashes = 1
  RegistrationMayTimeOut = FALSE
  SmokedBy = {"launcher"}
  EarlyReconcile = FALSE
INVARIANTS
  TypeOK
  CompletedIsValidated
  TerminalStateAgrees
PROPERTIES
  TerminalIsFinal
  EventFollowsMetadata
  EventuallyClean
CHECK_DEADLOCK FALSE
