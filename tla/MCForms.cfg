SPECIFICATION Spec
CONSTANTS
  Rows = {a, b}
  New = New
  Closed = Closed
  Untouched = Untouched
  MaxTexts = 3
  MaxSends = 3
INVARIANTS
  AskedOnce
  SentWhereTyped
  OpensFresh
CHECK_DEADLOCK FALSE
