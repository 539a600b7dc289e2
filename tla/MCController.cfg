SPECIFICATION Spec
CONSTANTS
  DrainBudget = 3
  DrainMargin = 2
  CheckpointEvery = 2
  StartHint = 1
  ServeErrors = {"error"}
INVARIANTS RunningIsHonest ExitCodeRule CheckpointFollowsClock BudgetHonoured
PROPERTIES CommandsAnswered ImplementsContract
CHECK_DEADLOCK FALSE
