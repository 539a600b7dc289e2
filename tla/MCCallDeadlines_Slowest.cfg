SPECIFICATION Spec
CONSTANTS
  CommandTimeout = 10
  RunnerKillGrace = 2
  Margin = 5
INVARIANTS SlowestIsHeard
CHECK_DEADLOCK FALSE
