SPECIFICATION Spec
CONSTANTS
  Callers <- MCCallers
  Commands <- MCCommands
  Garbled = Garbled
  MaxFaults = 2
  Hosts <- MCHosts
  FlagSets <- MCFlags
  Verbs = {"start", "stop", "install"}
  MaxRuns = 2
INVARIANTS TypeOK RegistrationIsWhole TokenIsShown OneKeyPerHost SuccessIsComplete  LockdownIsAimed
PROPERTIES  NothingUnasked
CHECK_DEADLOCK FALSE
