CONSTANTS
  EnterConfirm = 2
  MinHold = 2
  ExitConfirm = 1
  ModeTasks <- MCTasks
SPECIFICATION TimingSpec
PROPERTIES
  ConfirmationsAreContinuous
