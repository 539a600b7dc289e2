SPECIFICATION Spec
CONSTANTS
  a = a
  b = b
  Width = 4
  Names = {a}
  Unfit = Unfit
  Omit = Omit
  Calls = {c1, c2}
  Asks <- RacingAsks
  Faults = {"timeout", "canceled"}
  Edits = {}
  MaxEdits = 0
INVARIANTS OneAlarmPerFailure ClaimsAreTrue
PROPERTIES UpdateKeepsTheRest CallsEnd
