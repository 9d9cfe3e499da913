CONSTANTS
  EnterConfirm = 2
  MinHold = 2
  ExitConfirm = 1
  ModeTasks <- MCTasks
SPECIFICATION DrivenForEver
INVARIANTS
  ModeTypeOK
  TimersBelongToMode
PROPERTIES
  ChangesAreConfirmed
  FollowsModeRules
  BlockedRouteIsAvoided
  ClearRouteIsFollowed
