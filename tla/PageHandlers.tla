---------------------------- MODULE PageHandlers ----------------------------
(***************************************************************************)
(* What each page of a company shows, and what its handlers do: the calls  *)
(* they make, in order, and what they refresh once the last has answered.  *)
(* Checks of the form before the first call are left out: a handler that   *)
(* refuses the form does nothing.                                          *)
(***************************************************************************)
EXTENDS QueryHooks

(* keys are invalidated, queries refetched; then is the page it goes to.   *)
Handler(page, calls) ==
  [page |-> page, calls |-> calls, keys |-> {}, refetch |-> {}, then |-> page,
   mounted |-> FALSE]
Invalidates(h, keys) == [h EXCEPT !.keys = keys]
Refetches(h, queries) == [h EXCEPT !.refetch = queries]
Leads(h, page) == [h EXCEPT !.then = page]
(* Callbacks given to mutate are dropped when the page is left before.     *)
WhileMounted(h) == [h EXCEPT !.mounted = TRUE]
OneCall(page, calls) == {Handler(page, <<c>>) : c \in calls}

-----------------------------------------------------------------------------
(* Attendance, leave and policies                                          *)
handleRequestOtp == OneCall("/attendance/self", {useAttendanceSelfRequestOtpMutation})
handleVerifyOtp ==
  {Invalidates(h, {<<"attendance", "my">>}) :
     h \in OneCall("/attendance/self", {useAttendanceSelfVerifyOtpMutation})}
handleSubmitCheckInCode ==
  {Invalidates(h, {<<"attendance", "my">>}) :
     h \in OneCall("/attendance/self", {useAttendanceCodeSubmitMutation})}
handleSubmitCheckOutCode == handleSubmitCheckInCode

handleApproval ==
  {Refetches(h, {useAttendancePendingApprovals}) :
     h \in OneCall("/hr/attendance", {useApproveAttendance, useRejectAttendance})}
handleCreateManualAttendance ==
  {Refetches(h, {useAttendance}) :
     h \in OneCall("/hr/attendance", {useManualAttendanceCreate})}
handleSaveShift ==
  {Refetches(h, {useShifts}) :
     h \in OneCall("/hr/attendance", {useCreateShift, useUpdateShift})}
handleDeleteShift ==
  {Refetches(h, {useShifts}) : h \in OneCall("/hr/attendance", {useDeleteShift})}
handleSaveWorksite ==
  {Refetches(h, {useWorksites}) :
     h \in OneCall("/hr/attendance", {useCreateWorksite, useUpdateWorksite})}
handleDeleteWorksite ==
  {Refetches(h, {useWorksites}) : h \in OneCall("/hr/attendance", {useDeleteWorksite})}
handleCreateLeaveType == OneCall("/hr/attendance", {useCreateLeaveTypeMutation})

leave_handleSubmit ==
  {Invalidates(h, {<<"leaves", "requests", "my">>, <<"leaves", "balances", "my">>}) :
     h \in OneCall("/leaves/request", {useCreateLeaveRequestMutation})}
handleApprove ==
  {Invalidates(h, {<<"leaves", "approvals">>, <<"leaves", "requests", "my">>,
                   <<"leaves", "balances", "my">>}) :
     h \in OneCall("/hr/leaves/inbox", {useApproveLeaveRequestMutation})}
handleReject ==
  {Invalidates(h, {<<"leaves", "approvals">>, <<"leaves", "requests", "my">>}) :
     h \in OneCall("/hr/leaves/inbox", {useRejectLeaveRequestMutation})}
handleAddLeaveBalance == OneCall("/leaves/balance", {useCreateLeaveBalanceMutation})
handleSave ==
  {Invalidates(h, {<<"policies", "rules">>}) :
     h \in OneCall("/hr/policies", {useCreatePolicyRuleMutation})}
submitEdit ==
  {Refetches(h, {useHrActionsQuery}) : h \in OneCall("/hr/actions", {useUpdateHrActionMutation})}

-----------------------------------------------------------------------------
(* Employees                                                               *)
departments_handleSubmit ==
  {Refetches(h, {useDepartments}) :
     h \in OneCall("/hr/departments", {useCreateDepartment, useUpdateDepartment})}
departments_handleDelete ==
  {Refetches(h, {useDepartments}) : h \in OneCall("/hr/departments", {useDeleteDepartment})}
jobTitles_handleSubmit ==
  {Refetches(h, {useJobTitles}) :
     h \in OneCall("/hr/job-titles", {useCreateJobTitle, useUpdateJobTitle})}
jobTitles_handleDelete ==
  {Refetches(h, {useJobTitles}) : h \in OneCall("/hr/job-titles", {useDeleteJobTitle})}

profile == "/hr/employees/:id"
handleCreateJobTitle ==
  {Refetches(h, {useJobTitles}) : h \in OneCall(profile, {useCreateJobTitle})}
handleCreateShift == {Refetches(h, {useShifts}) : h \in OneCall(profile, {useCreateShift})}
handleSalarySubmit ==
  {Refetches(h, {useSalaryStructures}) :
     h \in OneCall(profile, {useCreateSalaryStructure, useUpdateSalaryStructure})}
(* A new employee: the same component goes on, with a number for its keys. *)
handleSaveEmployee ==
  {Refetches(h, {useEmployee}) : h \in OneCall(profile, {useUpdateEmployee})}
  \cup OneCall("/hr/employees/new", {useCreateEmployee})
handleUploadDocument ==
  {Refetches(h, {useEmployeeDocuments}) : h \in OneCall(profile, {useUploadEmployeeDocument})}
profile_handleDeleteDocument ==
  {Refetches(h, {useEmployeeDocuments}) : h \in OneCall(profile, {useDeleteEmployeeDocument})}
profile_handleAddAdjustment ==
  {Refetches(h, {useLoanAdvancesQuery}) : h \in OneCall(profile, {useCreateLoanAdvance})}
  \cup {Refetches(h, {useSalaryComponentsQuery}) :
          h \in OneCall(profile, {useCreateSalaryComponent})}

service == "/employee/self-service"
handleUpload ==
  {Refetches(h, {useMyEmployeeDocuments}) : h \in OneCall(service, {useUploadMyEmployeeDocument})}
service_handleDelete ==
  {Refetches(h, {useMyEmployeeDocuments}) : h \in OneCall(service, {useDeleteEmployeeDocument})}

users_handlers ==
  {Invalidates(h, {<<"users">>}) : h \in OneCall("/users", {createUser, updateUser, deleteUser})}
createCompanyMutation ==
  {Invalidates(h, {<<"companies">>}) : h \in OneCall("/users", {createCompany})}

-----------------------------------------------------------------------------
(* Payroll                                                                 *)
handleCreatePeriod ==
  {Refetches(h, {usePayrollPeriods}) : h \in OneCall("/payroll", {useCreatePeriod})}
handleGeneratePeriod == OneCall("/payroll", {useGeneratePeriod})
handleSaveSalary ==
  {Refetches(h, {useSalaryStructures}) :
     h \in OneCall("/payroll", {useCreateSalaryStructure, useUpdateSalaryStructure})}
handleAddAdjustment ==
  {Refetches(h, {useLoanAdvancesQuery}) : h \in OneCall("/payroll", {useCreateLoanAdvance})}
  \cup {Refetches(h, {useSalaryComponentsQuery}) :
          h \in OneCall("/payroll", {useCreateSalaryComponent, useUpdateSalaryComponent})}

period == "/payroll/periods/:id"
autoGenerate == {Refetches(h, {usePeriodRuns}) : h \in OneCall(period, {useGeneratePeriod})}
handleMarkPaid ==
  {Refetches(h, {usePeriodRuns, usePayrollRun}) : h \in OneCall(period, {useMarkPayrollRunPaid})}
handleLockPeriod ==
  {Refetches(h, {usePeriodRuns, usePayrollRun}) : h \in OneCall(period, {useLockPayrollPeriod})}

-----------------------------------------------------------------------------
(* Accounting, sales and receivables                                       *)
expenses_submitMutation ==
  {Invalidates(Handler("/accounting/expenses", calls), {<<"expenses">>}) :
     calls \in {<<useCreateExpense>>, <<useCreateExpense, useUploadExpenseAttachment>>}}
approveExpense ==
  {WhileMounted(Invalidates(h, {<<"expenses">>})) :
     h \in OneCall("/accounting/expenses", {useApproveExpense})}
journal_handleSubmit ==
  {Invalidates(h, {<<"journal-entries">>}) :
     h \in OneCall("/accounting/journal-entries",
                   {useCreateJournalEntry, useUpdateJournalEntry})}
journal_handleDelete ==
  {Invalidates(h, {<<"journal-entries">>}) :
     h \in OneCall("/accounting/journal-entries", {useDeleteJournalEntry})}

submitPayment ==
  {Invalidates(h, {<<"invoices">>, <<"payments">>}) :
     h \in OneCall("/collections", {useCreatePayment})}
collections_handleDeleteInvoice ==
  {Invalidates(h, {<<"invoices">>}) : h \in OneCall("/collections", {useDeleteInvoice})}
handleDeleteInvoice ==
  {Refetches(h, {useInvoices}) : h \in OneCall("/invoices", {useDeleteInvoice})}

(* Saved as a draft, or issued as well                                     *)
invoice_submitMutation ==
  {Leads(Invalidates(h, {<<"invoices">>}), "/invoices/:id") :
     h \in {Handler("/invoices/new", calls) :
              calls \in {<<useCreateInvoice>>, <<useCreateInvoice, useIssueInvoice>>}}
           \cup {Handler("/invoices/:id/edit", calls) :
                   calls \in {<<useUpdateInvoice>>, <<useUpdateInvoice, useIssueInvoice>>}}}
issueMutation ==
  {Invalidates(h, {<<"invoice", "*">>, <<"invoices">>}) :
     h \in OneCall("/invoices/:id", {useIssueInvoice})}
invoice_deleteMutation ==
  {Leads(Invalidates(h, {<<"invoices">>}), "/invoices") :
     h \in OneCall("/invoices/:id", {useDeleteInvoice})}
submitSale ==
  {Handler("/sales", calls) :
     calls \in {<<useRecordSale>>, <<useCreateCustomer, useRecordSale>>}}
customer_handleSubmit ==
  {Leads(h, "/customers") :
     h \in OneCall("/customers/new", {useCreateCustomer})
           \cup OneCall("/customers/:id/edit", {useUpdateCustomer})}
catalog_handlers ==
  OneCall("/catalog", {useCreateCatalogItem, useUpdateCatalogItem, useDeleteCatalogItem,
                       useAddStock, useRemoveStock})

-----------------------------------------------------------------------------
(* Alerts, messages, backups and the platform                              *)
handleAck ==
  {Invalidates(h, {<<"alerts">>, <<"alert", "*">>}) :
     h \in OneCall("/analytics/alerts", {useAckAlert})}
handleResolve ==
  {Invalidates(h, {<<"alerts">>, <<"alert", "*">>}) :
     h \in OneCall("/analytics/alerts", {useResolveAlert})}
handleSend == OneCall("/messages", {useSendMessage})
handleCreateGroup == OneCall("/messages", {useCreateChatGroup})
group_handlers ==
  OneCall("/messages", {useUpsertGroupMember, useUpdateChatGroup, useMarkNotificationRead})

(* The button of every page in the shell; the catalogue stands for them.   *)
downloadBackupMutation ==
  {Refetches(h, {backupsQuery}) : h \in OneCall("/catalog", {createBackup})}
restoreBackupMutation ==
  {Refetches(h, {backupsQuery}) : h \in OneCall("/catalog", {restoreBackup})}
dashboard_downloadBackup ==
  {Refetches(h, {backupsQuery}) : h \in OneCall("/dashboard", {createBackup})}
dashboard_restoreBackup ==
  {Refetches(h, {backupsQuery}) : h \in OneCall("/dashboard", {restoreBackup})}

platform_handlers ==
  OneCall("/setup/super-admin",
          {toggleMutation, deleteMutation, extendMutation, EditCompanyModal,
           CreateCompanyModal, deleteUserMutation, toggleUserMutation})

Handlers ==
  UNION {
    handleRequestOtp, handleVerifyOtp, handleSubmitCheckInCode, handleSubmitCheckOutCode,
    handleApproval, handleCreateManualAttendance, handleSaveShift, handleDeleteShift,
    handleSaveWorksite, handleDeleteWorksite, handleCreateLeaveType, leave_handleSubmit,
    handleApprove, handleReject, handleAddLeaveBalance, handleSave, submitEdit,
    departments_handleSubmit, departments_handleDelete, jobTitles_handleSubmit,
    jobTitles_handleDelete, handleCreateJobTitle, handleCreateShift, handleSalarySubmit,
    handleSaveEmployee, handleUploadDocument, profile_handleDeleteDocument,
    profile_handleAddAdjustment, handleUpload, service_handleDelete, users_handlers,
    createCompanyMutation, handleCreatePeriod, handleGeneratePeriod, handleSaveSalary,
    handleAddAdjustment, autoGenerate, handleMarkPaid, handleLockPeriod,
    expenses_submitMutation, approveExpense, journal_handleSubmit, journal_handleDelete,
    submitPayment, collections_handleDeleteInvoice, handleDeleteInvoice,
    invoice_submitMutation, issueMutation, invoice_deleteMutation, submitSale,
    customer_handleSubmit, catalog_handlers, handleAck, handleResolve, handleSend,
    handleCreateGroup, group_handlers, downloadBackupMutation, restoreBackupMutation,
    dashboard_downloadBackup, dashboard_restoreBackup, platform_handlers }

-----------------------------------------------------------------------------
(* What the pages show: the queries of a page, whatever it derives from    *)
(* them.  The pages without the shell put the buttons of the top bar.      *)
TopbarQuickActions == {useNotifications}
DashboardShell == TopbarQuickActions \cup {backupsQuery}

DashboardPage ==
  TopbarQuickActions
  \cup {useProfitLoss, useAccounts, useGeneralLedger, useAnalyticsKpis, useAlerts,
        useCashForecast, payrollOpenPeriodsTotalQuery, useAttendanceRecordsQuery, backupsQuery}
UsersPage == TopbarQuickActions \cup {rolesQuery, companiesQuery, usersQuery}
MessagesPage ==
  DashboardShell
  \cup {useChatConversations, useChatGroups, useNotifications, useChatMessages, lightUsersQuery}
SuperAdminPage == {StatsSection, CompaniesSection, UsersSection, AuditSection}

(* The employee's own pages                                                *)
SelfAttendancePage == TopbarQuickActions \cup {useMyAttendanceQuery}
EmployeeSelfServicePage ==
  DashboardShell
  \cup {useMyPayrollRuns, usePayrollRun, useMyEmployeeDocuments, useAttendanceRecordsQuery}
LeaveBalancePage ==
  TopbarQuickActions \cup {useMyLeaveBalancesQuery, useEmployees, useLeaveTypesQuery}
LeaveRequestPage == TopbarQuickActions \cup {useLeaveTypesQuery}
LeaveMyRequestsPage == TopbarQuickActions \cup {useMyLeaveRequestsQuery}

(* Staff and payroll                                                       *)
EmployeesPage == TopbarQuickActions \cup {useDepartments, useEmployees}
NewEmployee ==
  DashboardShell
  \cup {useDepartments, useJobTitles, useShifts, useEmployeeDefaults,
        useEmployeeSelectableUsers, usePayrollPeriods}
EmployeeProfilePage ==
  NewEmployee
  \cup {useEmployee, useEmployeeDocuments, useSalaryStructures, useSalaryComponentsQuery,
        useLoanAdvancesQuery, useAttendanceRecordsQuery, useCommissionApprovalsInboxQuery,
        useHrActionsQuery}
DepartmentsPage == DashboardShell \cup {useDepartments}
JobTitlesPage == TopbarQuickActions \cup {useJobTitles}
AttendancePage ==
  TopbarQuickActions
  \cup {useDepartments, useEmployees, useAttendance, useShifts, useWorksites,
        useAttendancePendingApprovals, useRotatingAttendanceCode}
LeaveInboxPage == TopbarQuickActions \cup {useLeaveApprovalsInboxQuery}
PoliciesPage == TopbarQuickActions \cup {usePolicyRulesQuery}
HRActionsPage ==
  TopbarQuickActions \cup {useHrActionsQuery, usePayrollPeriods, useSalaryStructures}
PayrollPage ==
  DashboardShell
  \cup {usePayrollPeriods, useEmployees, useSalaryStructures, useAttendanceRecordsQuery,
        useSalaryComponentsQuery, useHrActionsQuery, useLoanAdvancesQuery,
        useCommissionApprovalsInboxQuery}
PayrollPeriodDetailsPage ==
  DashboardShell
  \cup {usePeriodRuns, usePayrollPeriods, usePayrollRun, useAttendanceRecordsQuery}

(* Accounting                                                              *)
JournalEntriesPage == TopbarQuickActions \cup {useJournalEntries, useAccounts}
JournalEntryDetailsPage == {useJournalEntry}
ExpensesPage == TopbarQuickActions \cup {useExpenses, usePayrollPeriods, usePeriodRuns}
CollectionsPage == TopbarQuickActions \cup {useInvoices, useCustomers, useAccounts}
TrialBalancePage == TopbarQuickActions \cup {useTrialBalance}
GeneralLedgerPage == TopbarQuickActions \cup {useAccounts, useGeneralLedger}
ProfitLossPage == TopbarQuickActions \cup {useProfitLoss}
BalanceSheetPage == TopbarQuickActions \cup {useCumulativeBalanceSummary, useProfitLoss}
AgingReportPage == DashboardShell \cup {useAgingReport, accounting_useAlerts, useInvoices}

(* Sales                                                                   *)
CustomersPage == DashboardShell \cup {useCustomers}
CustomerFormPage == DashboardShell \cup {useCustomer}
InvoicesPage == DashboardShell \cup {useInvoices, useCustomers}
InvoiceFormPage == DashboardShell \cup {useCustomers, useInvoice}
InvoiceDetailsPage == {useInvoice, useCustomers}
CatalogPage == DashboardShell \cup {useCatalogItems, useInventoryTransactions}
SalesPage == DashboardShell \cup {useCustomers, useCatalogItems, useInvoices}

(* Analytics and the audit log                                             *)
AlertsCenterPage == DashboardShell \cup {useAlerts, useAlert}
CashForecastPage == TopbarQuickActions \cup {useCashForecast}
CEODashboardPage ==
  TopbarQuickActions
  \cup {useProfitLoss, useAlerts, useCashForecast, useAttendanceRecordsQuery}
FinanceDashboardPage ==
  TopbarQuickActions \cup {useExpenses, useCustomers, useProfitLoss, openInvoicesQuery}
HRDashboardPage == TopbarQuickActions \cup {useAnalyticsKpis, useAttendanceRecordsQuery}
AuditLogsPage == DashboardShell \cup {useAuditLogs}

-----------------------------------------------------------------------------
(* The routes of the company's area that show any of it                    *)
Shows ==
  "/dashboard" :> DashboardPage @@ "/users" :> UsersPage
  @@ "/attendance/self" :> SelfAttendancePage @@ service :> EmployeeSelfServicePage
  @@ "/messages" :> MessagesPage
  @@ "/leaves/balance" :> LeaveBalancePage @@ "/leaves/request" :> LeaveRequestPage
  @@ "/leaves/my" :> LeaveMyRequestsPage
  @@ "/hr/employees" :> EmployeesPage @@ "/hr/employees/new" :> NewEmployee
  @@ profile :> EmployeeProfilePage
  @@ "/hr/departments" :> DepartmentsPage @@ "/hr/job-titles" :> JobTitlesPage
  @@ "/hr/attendance" :> AttendancePage @@ "/hr/leaves/inbox" :> LeaveInboxPage
  @@ "/hr/policies" :> PoliciesPage @@ "/hr/actions" :> HRActionsPage
  @@ "/payroll" :> PayrollPage @@ period :> PayrollPeriodDetailsPage
  @@ "/accounting/journal-entries" :> JournalEntriesPage
  @@ "/accounting/journal-entries/:id" :> JournalEntryDetailsPage
  @@ "/accounting/expenses" :> ExpensesPage @@ "/collections" :> CollectionsPage
  @@ "/accounting/reports/trial-balance" :> TrialBalancePage
  @@ "/accounting/reports/general-ledger" :> GeneralLedgerPage
  @@ "/accounting/reports/pnl" :> ProfitLossPage
  @@ "/accounting/reports/balance-sheet" :> BalanceSheetPage
  @@ "/accounting/reports/ar-aging" :> AgingReportPage
  @@ "/customers" :> CustomersPage @@ "/customers/new" :> DashboardShell
  @@ "/customers/:id/edit" :> CustomerFormPage
  @@ "/invoices" :> InvoicesPage @@ "/invoices/new" :> InvoiceFormPage
  @@ "/invoices/:id/edit" :> InvoiceFormPage @@ "/invoices/:id" :> InvoiceDetailsPage
  @@ "/catalog" :> CatalogPage @@ "/sales" :> SalesPage
  @@ "/analytics/alerts" :> AlertsCenterPage
  @@ "/analytics/cash-forecast" :> CashForecastPage @@ "/analytics/ceo" :> CEODashboardPage
  @@ "/analytics/finance" :> FinanceDashboardPage @@ "/analytics/hr" :> HRDashboardPage
  @@ "/admin/audit-logs" :> AuditLogsPage
  @@ "/setup/super-admin" :> (TopbarQuickActions \cup SuperAdminPage)
Pages == DOMAIN Shows
Queries == UNION {Shows[path] : path \in Pages}
=============================================================================
