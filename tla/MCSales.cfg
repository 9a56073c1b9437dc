CONSTANTS
  i1 = i1  i2 = i2  c1 = c1  c2 = c2  p = p  x = x
  NoLines = NoLines  Keep = Keep  NoInvoice = NoInvoice  NoExpense = NoExpense
  Invoice = {i1, i2}
  Booked = {i1}
  Price = {0, 1, 2}
  Amount = {1}
  Clerk = {c1, c2}
  MaxPaid = 2
  Modes <- MCModes
  Trading <- MCTrading
  Item = {p}
  Opening <- MCOpening
  Quantity = {1}
  Basket <- MCBasket
  MaxStock = 1
  Expense = {x}
  Cost = {0, 1}
SYMMETRY Clerks
SPECIFICATION SalesSpec
INVARIANT OneEntryPerInvoice
INVARIANT IssuedIsPosted
INVARIANT JournalMatchesIssued
INVARIANT PaidIsShown
INVARIANT StockNeverNegative
INVARIANT StockIsRecorded
INVARIANT ExpenseIsBooked
CHECK_DEADLOCK FALSE
