SPECIFICATION NavSpec
CONSTANTS
  Account = {"superuser", "manager", "hr", "accountant", "employee"}
  NoOne = NoOne
  NoFetch = NoFetch
  NoPath = NoPath
INVARIANTS LinksLead JudgedByOwnRole
PROPERTY Settles
CHECK_DEADLOCK FALSE
