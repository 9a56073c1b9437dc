------------------------------ MODULE Sidebars ------------------------------
(***************************************************************************)
(* The links a page of the web client shows to a role.  Nearly every page  *)
(* keeps a list and a filter of its own.  The filter by permission, which  *)
(* can only hide more, is left out: a set here is all that a page may show *)
(* to an account of that role.                                             *)
(***************************************************************************)
EXTENDS RouteAccess

Everywhere == (SelfService \ {"/employee/self-service", "/messages"}) \cup HrPages
  \cup (BookPages \ {"/catalog", "/sales"}) \cup Insights
  \cup {"/dashboard", "/users", "/admin/audit-logs", "/setup/templates",
        "/setup/progress"}
Selling == {"/catalog", "/sales"}
Personal == {"/employee/self-service", "/messages"}
(* Removed from the router, still in many lists                            *)
AccountingSetup == {"/accounting/setup"}

(* shared/navigation/hrSidebarLinks.ts                                     *)
buildHrSidebarLinks == SelfService \cup HrPages \cup {"/users"}
EmployeeLinks == SelfService
HrOr(role, links) == IF role = "hr" THEN buildHrSidebarLinks ELSE links
Own(role, links) == IF role = "employee" THEN EmployeeLinks
                    ELSE HrOr(role, Narrowed(links, role))

-----------------------------------------------------------------------------
ShellLinks(role) ==
  HrOr(role, Narrowed(Everywhere \cup Selling \cup Personal \cup AccountingSetup, role))
DashboardNavLinks ==
  Everywhere \cup {"/catalog", "/admin"} \cup Personal \cup AccountingSetup
DashboardLinks(role) == {l \in DashboardNavLinks : isNavLinkVisibleForRole(l, role)}

SelfAttendanceLinks(role) == Own(role, Everywhere \cup AccountingSetup)
LeaveBalanceLinks(role) == Own(role, Everywhere \cup Selling \cup AccountingSetup)
LeaveMyRequestsNavLinks == Everywhere \cup Selling \cup AccountingSetup
LeaveMyRequestsLinks(role) == Own(role, LeaveMyRequestsNavLinks)
LeaveRequestNavLinks == Everywhere \cup Selling \cup AccountingSetup
LeaveRequestLinks(role) == Own(role, LeaveRequestNavLinks)

UsersLinks(role) == HrOr(role, Everywhere \cup Selling \cup AccountingSetup)
AttendanceLinks(role) == HrOr(role, Everywhere \cup AccountingSetup)
EmployeesNavLinks == Everywhere \cup Selling \cup AccountingSetup
EmployeesLinks(role) == HrOr(role, EmployeesNavLinks)
HRActionsNavLinks == Everywhere \cup Selling \cup AccountingSetup
HRActionsLinks(role) == HrOr(role, HRActionsNavLinks)
HRDashboardNavLinks == Everywhere \cup Selling \cup AccountingSetup
HRDashboardLinks(role) == HrOr(role, HRDashboardNavLinks)

(* Three pages still name the pages of accounting as they once were.       *)
FormerReports == {"/accounting/collections", "/accounting/trial-balance",
  "/accounting/general-ledger", "/accounting/profit-loss",
  "/accounting/balance-sheet", "/accounting/aging-report"}
Former(links) == (links \ (Reports \cup {"/collections"})) \cup FormerReports
  \cup AccountingSetup
LeaveInboxNavLinks == Former(Everywhere \cup Selling)
LeaveInboxLinks(role) == HrOr(role, LeaveInboxNavLinks)
PoliciesLinks(role) == HrOr(role, Former(Everywhere \cup Selling))
JobTitlesNavLinks ==
  (Former(Everywhere \cup Selling) \ {"/hr/leaves/inbox", "/payroll"})
  \cup {"/hr/leave-inbox", "/hr/payroll"}
JobTitlesLinks(role) == HrOr(role, JobTitlesNavLinks)
SetupLinks(role) ==
  (Former(Everywhere) \ {"/leaves/my", "/hr/leaves/inbox", "/accounting/journal-entries",
     "/customers", "/customers/new", "/invoices", "/invoices/new",
     "/analytics/alerts", "/analytics/cash-forecast"})
  \cup {"/leaves/my-requests", "/hr/leave-inbox", "/accounting/journal",
        "/sales/customers", "/sales/customers/new", "/sales/invoices",
        "/sales/invoices/new", "/alerts", "/forecast"}

(* The list of a page, and what is left of it for a role                   *)
Complete == Everywhere \cup Selling \cup Personal
TrialBalanceNavLinks == Complete
TrialBalanceLinks(role) == Narrowed(TrialBalanceNavLinks, role)
GeneralLedgerNavLinks == Complete
GeneralLedgerLinks(role) == Narrowed(GeneralLedgerNavLinks, role)
ProfitLossNavLinks == Complete
ProfitLossLinks(role) == Narrowed(ProfitLossNavLinks, role)
BalanceSheetNavLinks == Complete
BalanceSheetLinks(role) == Narrowed(BalanceSheetNavLinks, role)
ExpensesNavLinks == Complete
ExpensesLinks(role) == Narrowed(ExpensesNavLinks, role)
JournalEntriesNavLinks == Complete
JournalEntriesLinks(role) == Narrowed(JournalEntriesNavLinks, role)
JournalEntryNavLinks == Complete \cup AccountingSetup
JournalEntryLinks(role) == Narrowed(JournalEntryNavLinks, role)
CollectionsNavLinks == Complete \cup AccountingSetup
CollectionsLinks(role) == Narrowed(CollectionsNavLinks, role)
FinanceDashboardNavLinks == Complete \cup AccountingSetup
FinanceDashboardLinks(role) == Narrowed(FinanceDashboardNavLinks, role)
CashForecastNavLinks == Complete \cup AccountingSetup
CashForecastLinks(role) == Narrowed(CashForecastNavLinks, role)
CEODashboardLinks(role) == Everywhere \cup Selling \cup AccountingSetup

SuperAdminLinks == SuperArea \cup {"/dashboard"}
TopbarQuickActions == Personal

-----------------------------------------------------------------------------
(* The list of a page, by the page                                         *)
Sidebar(page, role) ==
  CASE page = "/dashboard" -> DashboardLinks(role)
    [] page = "/attendance/self" -> SelfAttendanceLinks(role)
    [] page = "/leaves/balance" -> LeaveBalanceLinks(role)
    [] page = "/leaves/my" -> LeaveMyRequestsLinks(role)
    [] page = "/leaves/request" -> LeaveRequestLinks(role)
    [] page = "/users" -> UsersLinks(role)
    [] page = "/hr/attendance" -> AttendanceLinks(role)
    [] page = "/hr/employees" -> EmployeesLinks(role)
    [] page = "/hr/actions" -> HRActionsLinks(role)
    [] page = "/analytics/hr" -> HRDashboardLinks(role)
    [] page = "/hr/leaves/inbox" -> LeaveInboxLinks(role)
    [] page = "/hr/policies" -> PoliciesLinks(role)
    [] page = "/hr/job-titles" -> JobTitlesLinks(role)
    [] page \in {"/setup/templates", "/setup/progress", "/setup/super-admin"} ->
         SetupLinks(role)
    [] page = "/accounting/reports/trial-balance" -> TrialBalanceLinks(role)
    [] page = "/accounting/reports/general-ledger" -> GeneralLedgerLinks(role)
    [] page = "/accounting/reports/pnl" -> ProfitLossLinks(role)
    [] page = "/accounting/reports/balance-sheet" -> BalanceSheetLinks(role)
    [] page = "/accounting/expenses" -> ExpensesLinks(role)
    [] page = "/accounting/journal-entries" -> JournalEntriesLinks(role)
    [] page = "/accounting/journal-entries/:id" -> JournalEntryLinks(role)
    [] page = "/collections" -> CollectionsLinks(role)
    [] page = "/analytics/finance" -> FinanceDashboardLinks(role)
    [] page = "/analytics/cash-forecast" -> CashForecastLinks(role)
    [] page = "/analytics/ceo" -> CEODashboardLinks(role)
    [] page \in SuperArea -> SuperAdminLinks
    [] page = "/invoices/:id" -> {}
    [] OTHER -> ShellLinks(role)

(* The buttons of a page that lead to another                              *)
Buttons(page) ==
  CASE page = "/hr/employees" -> {"/hr/employees/:id"}
    [] page = "/hr/employees/:id" -> {"/hr/employees"}
    [] page = "/payroll" -> {"/payroll/periods/:id"}
    [] page = "/invoices" -> {"/invoices/new", "/invoices/:id", "/invoices/:id/edit"}
    [] page = "/invoices/:id" -> {"/invoices", "/invoices/:id/edit"}
    [] page \in {"/invoices/new", "/invoices/:id/edit"} -> {"/invoices", "/invoices/:id"}
    [] page = "/customers" -> {"/customers/new", "/customers/:id/edit"}
    [] page \in {"/customers/new", "/customers/:id/edit"} -> {"/customers"}
    [] page = "/collections" -> {"/invoices/:id/edit"}
    [] page = "/accounting/journal-entries" -> {"/accounting/journal-entries/:id"}
    [] page = "/accounting/journal-entries/:id" -> {"/accounting/journal-entries"}
    [] page = "/employee/self-service" -> {"/leaves/request", "/leaves/my", "/attendance/self"}
    [] page = "/setup/templates" -> {"/setup/progress"}
    [] page = "/setup/progress" -> {"/setup/templates", "/dashboard"}
    [] OTHER -> {}

Links(page, role) ==
  Sidebar(page, role) \cup Buttons(page)
  \cup (IF page \in SuperArea \cup {"/invoices/:id"} THEN {} ELSE TopbarQuickActions)
=============================================================================
