SPECIFICATION DeploymentSpec
CONSTANTS
  MaxNonce = 22
  RunLimit = 5
  CrashLimit = 1
  ResetLimit = 1
INVARIANTS
  RecordedMarketServed
PROPERTIES
  CoreWires
  HandoverComplete
CHECK_DEADLOCK FALSE
