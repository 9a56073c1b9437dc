SPECIFICATION ListsSpec
CONSTANTS
  Filter = {any, some}
  NoFilter = any
  PageNumbers = {1, 2}
  MaxFlights = 2
  MaxJobs = 2
  MaxChanges = 2
INVARIANTS ListIsRight
CHECK_DEADLOCK FALSE
