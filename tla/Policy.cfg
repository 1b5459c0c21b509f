SPECIFICATION Spec
CONSTANTS
  RunIds = {"r1", "r2"}
  Configs <- MCConfigs
  CommandOptions <- MCCommandOptions
  Manifests <- MCManifests
  Requests <- MCRequests
  Identities = {1, 2}
  BuildModes = {"execute"}
  MaxEdits = 1
  MaxBuilds = 1
INVARIANTS TypeOK LateRunsAreBounded TrainedWithinPolicy
PROPERTIES AdmittedImageIsCurrent
CHECK_DEADLOCK FALSE
