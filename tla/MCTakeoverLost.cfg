CONSTANTS
  States = {"IDLE", "START_ALIGN", "TRACKING", "PAUSED"}
  Commands = {0}
  RouteTimeout = 1
  ScanTimeout = 1
  Grace = 1
  HandoffHold = 0
  Accel = 1
  Decel = 1
  DtLimit = 1
SPECIFICATION Handovers
PROPERTIES
  LastingAvoidanceIsDriven
