CONSTANTS
  bo = bo  hr = hr  r1 = r1  r2 = r2
  NoOne = NoOne  NoRow = NoRow
  Employee = {bo}
  Decider = {hr}
  LastDay = 2
  LastRaced = 1
  LastLeft = 1
  Settings <- MCSettings
  Request = {r1, r2}
  Threshold = 2
  Window = 2
SPECIFICATION Spec
INVARIANT PayableIsDecided
INVARIANT LatePenalised
INVARIANT OftenLatePenalised
PROPERTY ArrivalIsKept
PROPERTY DecisionStands
SYMMETRY MCRequests
CHECK_DEADLOCK FALSE
