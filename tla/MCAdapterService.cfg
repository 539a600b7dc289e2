SPECIFICATION ServiceSpec
CONSTANTS
  DrainBudget = 6
  DrainMargin = 3
  CheckpointEvery = 2
  StartHint = 1
  ServeErrors = {"startup", "serve", "incomplete"}
  MaxInFlight = 3
  MaxLag = 2
INVARIANTS RunningMeansBound LogCloserSettled QuietEndIsClean CutOffOnlyAfterGrace 
PROPERTIES StopEndsProcess ImplementsParts
CHECK_DEADLOCK FALSE
