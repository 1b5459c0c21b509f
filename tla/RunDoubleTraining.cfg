SPECIFICATION Spec
CONSTANTS
  Supervisors = {s1, s2}
  Reconcilers = {r1}
  Containers = {c1, c2}
  Nobody = Nobody
  CrashKinds = {"launcher"}
  MaxCrashes = 1
  RegistrationMayTimeOut = FALSE
  SmokedBy = {"caller"}
  EarlyReconcile = FALSE
INVARIANTS
  SingleTrainer
CHECK_DEADLOCK FALSE
SYMMETRY Symmetry
