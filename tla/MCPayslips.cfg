CONSTANTS
  e1 = e1  e2 = e2  d1 = d1  Unset = Unset
  Employee = {e1, e2}
  Me = e1
  Day = {d1}
  MonthDays = 1
  Starting <- MCStarting
  Worth <- MCWorth
  Component <- MCComponent
  Action <- MCAction
  Loan <- MCLoan
  UnpaidLeave <- MCUnpaidLeave
  Commission <- MCCommission
  Rows <- MCRows
  MaxChanges = 2
SPECIFICATION SlipFairSpec
INVARIANT SlipIsNet
INVARIANT PreviewIsNet
PROPERTY PayablesCome
CHECK_DEADLOCK FALSE
