CONSTANTS
  emp = emp  hana = hana  mona = mona  r1 = r1  r2 = r2  r3 = r3  r4 = r4  r5 = r5
  annual = annual  unpaid = unpaid  NoManager = NoManager  NoUser = NoUser
  User = {emp, hana, mona}
  Superuser = {}
  RolesOf <- MCRoles
  ManagerOf <- MCManagerOf
  SeededCodes <- MCNoSeeds
  Request = {r1, r2, r3, r4, r5}
  Draft <- MCDraft
  LeaveType <- MCLeaveType
  Paid = {annual}
  NeedsBalance = {annual}
  MayGoNegative = {unpaid}
  MaxDays <- MCMaxDays
  YearOf <- MCYearOf
  Allotment <- MCAllotment
  Settings <- MCSettings
SPECIFICATION Spec
INVARIANT BalanceMatchesApproved
INVARIANT ApprovedIsCharged
INVARIANT NoOverdraft
INVARIANT ApprovedByApprover
PROPERTY ImplementsContract
