CONSTANTS
  MinMaxVx = 15
  MaxMaxVx = 40
  Speeds <- MCSpeeds
  TaskModes = {"NORMAL_AVOID"}
  MaxSequence = 1
  PlanTimeout = 1
  AlignTimeout = 1
  FinishTimeout = 1
  MaxPending = 2
SPECIFICATION AnySender
PROPERTIES
  PlanningEnds
