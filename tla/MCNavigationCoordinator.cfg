CONSTANTS
  MinMaxVx = 15
  MaxMaxVx = 40
  Speeds <- MCSpeeds
  TaskModes = {"NORMAL_AVOID", "ROUTE_ONLY"}
  MaxSequence = 2
  PlanTimeout = 1
  AlignTimeout = 1
  FinishTimeout = 1
  MaxPending = 3
SPECIFICATION FairCoordinator
INVARIANTS
  CoordinatorTypeOK
  SessionMatchesState
  RouteMatchesSession
  ContextBelongsToState
  PlannerQueueIsCurrent
PROPERTIES
  MotionIsAuthorized
  ImplementsLifecycle
  RequestsReachPlanner
  OpenPlanningEnds
  AlignmentEnds
