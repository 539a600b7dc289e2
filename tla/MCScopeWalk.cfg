SPECIFICATION Spec
CONSTANTS
  Keys = {1, 2, 3}
  DefaultSize = 1
  MaxSize = 2
  AskedSizes <- MCAsked
  MaxTaggedUnits = 2
  MaxChanges = 2
  MaxWalks = 1
  MaxFailures = 1
INVARIANTS WalkIsComplete ResponseIsWhole 
CHECK_DEADLOCK FALSE
