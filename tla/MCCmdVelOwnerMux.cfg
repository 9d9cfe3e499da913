CONSTANTS
  States = {"START_ALIGN", "TRACKING", "PAUSED"}
  Commands <- MCCommands
  RouteTimeout = 1
  ScanTimeout = 1
  Grace = 1
  HandoffHold = 1
  Accel = 1
  Decel = 2
  DtLimit = 1
SPECIFICATION MuxForEver
INVARIANTS
  OutputBelongsToOwner
PROPERTIES
  SpeedsUpOnlyOnFreshCommand
  NoReverseBeforeForward
  VelocityIsContinuous
  SilenceStopsRobot
