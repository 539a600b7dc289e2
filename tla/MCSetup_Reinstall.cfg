SPECIFICATION Spec
CONSTANTS
  Callers <- MCCallers
  Commands <- MCCommands
  Garbled = Garbled
  MaxFaults = 0
  Hosts <- ReinstallHosts
  FlagSets <- ReinstallFlags
  Verbs = {}
  MaxRuns = 1
INVARIANTS RegisteredIsStarted
CHECK_DEADLOCK FALSE
