SPECIFICATION Spec
CONSTANTS
  Account = {ana, ben}
  Call = {c1, c2}
  NoOne = NoOne
  NoToken = NoToken
INVARIANTS RefreshIsShared AtMostFourSends SignedOutStays
PROPERTY Contract
CHECK_DEADLOCK FALSE
