SPECIFICATION Spec
CONSTANTS
  a = a
  b = b
  Width = 4
  Names = {a, b}
  Unfit = Unfit
  Omit = Omit
  Calls = {c1}
  Asks <- SerialAsks
  Faults = {"timeout", "unavailable", "malformed", "canceled"}
  Edits <- SerialEdits
  MaxEdits = 2
INVARIANTS AlarmIsDeserved DriftIsReal
