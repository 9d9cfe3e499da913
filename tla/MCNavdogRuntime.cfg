CONSTANTS
  MinMaxVx = 15
  MaxMaxVx = 40
  Speeds = {20}
  TaskModes = {"NORMAL_AVOID"}
  MaxSequence = 3
  PlanTimeout = 1
  AlignTimeout = 1
  FinishTimeout = 1
  MaxPending = 0
  Messages <- MCMessages
  MaxQueue = 2
  MaxMessages = 5
  PathDelay = 1
SPECIFICATION RunningForEver
INVARIANTS
  RuntimeTypeOK
  NothingCrossesTasks
  OutcomeIsCleanedUp
  ScanPathIsCurrent
  CancelGoesFirst
PROPERTIES
  CancelTakesEffect
  PathReachesScan
