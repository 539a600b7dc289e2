SPECIFICATION Spec
CONSTANTS
  Labels = {prod, spare}
  Admins = {ann, bob}
  MaxTokens = 2
  Horizon = 1
SYMMETRY Symmetry
INVARIANTS OneTokenPerLabel ShownTokenIsStored RotationHasNoGap
PROPERTIES NoRevival
CHECK_DEADLOCK FALSE
