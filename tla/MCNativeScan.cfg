CONSTANTS
  MaxFailCount = 2
  FailureLimit = 1
  Duration = 2
  LeadTime = 1
  MaxTasks = 2
  MaxRestarts = 1
SPECIFICATION FairNativeScan
INVARIANTS
  NativeScanTypeOK
  RouteSurvivesFailures
  SupervisesWhatItPublished
  ReadyIsForThisTask
PROPERTIES
  TakeoverIsAnswered
  UnsafeTrajectoryIsLeft
