SPECIFICATION Spec
CONSTANTS
  MaxChanges = 2
  Nothing = Nothing
  NoFlight = NoFlight
INVARIANTS
  OwnData
  UpToDate
CHECK_DEADLOCK FALSE
