SPECIFICATION Spec
CONSTANTS
  Callers <- MCCallers
  Commands <- MCCommands
  Garbled = Garbled
  MaxFaults = 1
  Hosts <- RerunHosts
  FlagSets <- RerunFlags
  Verbs = {}
  MaxRuns = 2
INVARIANTS RerunFinishes
CHECK_DEADLOCK FALSE
