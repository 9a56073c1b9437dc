----------------------------- MODULE QueryHooks -----------------------------
(***************************************************************************)
(* The hooks through which the pages of a company read and change what the *)
(* server holds: shared/hr, accounting, invoices, customers, catalog,      *)
(* analytics and messaging, and the few queries that pages keep to         *)
(* themselves.                                                             *)
(*                                                                         *)
(* A query is its key, in which "*" stands for any parameters, what of the *)
(* server's state its answer depends on, and how long an answer counts as  *)
(* fresh: not at all, unless the hook sets a staleTime.  A call is what it *)
(* changes there, and the keys that the hook itself invalidates.           *)
(***************************************************************************)
EXTENDS Naturals, Sequences, TLC

Query(key, reads) == [key |-> key, reads |-> reads, timed |-> FALSE, polled |-> FALSE]
Timed(query) == [query EXCEPT !.timed = TRUE]
Polled(query) == [query EXCEPT !.polled = TRUE]
Call(writes) == [writes |-> writes, refresh |-> {}]
Refreshing(call, keys) == [call EXCEPT !.refresh = keys]

-----------------------------------------------------------------------------
(* shared/hr/hooks.ts: attendance                                          *)
useAttendanceSelfRequestOtpMutation == Call({})
useAttendanceSelfVerifyOtpMutation == Call({"attendance"})
useAttendanceCodeSubmitMutation == Call({"attendance"})
useMyAttendanceQuery == Query(<<"attendance", "my", "*">>, {"attendance"})
useAttendanceRecordsQuery ==
  Timed(Query(<<"attendance", "records", "*">>, {"attendance", "employees"}))

(* employees and what they refer to                                        *)
useEmployees == Query(<<"hr", "employees", "*">>, {"employees", "departments", "job titles"})
useEmployee ==
  Query(<<"hr", "employee", "*">>, {"employees", "departments", "job titles", "shifts"})
useDepartments == Query(<<"hr", "departments">>, {"departments"})
useJobTitles == Query(<<"hr", "jobTitles">>, {"job titles"})
useShifts == Query(<<"hr", "shifts">>, {"shifts"})
useCreateShift == Call({"shifts"})
useUpdateShift == Call({"shifts"})
useDeleteShift == Call({"shifts"})
useWorksites == Query(<<"hr", "worksites">>, {"worksites"})
useCreateWorksite == Call({"worksites"})
useUpdateWorksite == Call({"worksites"})
useDeleteWorksite == Call({"worksites"})
useEmployeeDefaults == Query(<<"hr", "employeeDefaults">>, {"employees", "shifts"})
useEmployeeSelectableUsers ==
  Query(<<"hr", "employeeSelectableUsers">>, {"users", "employees"})
useEmployeeDocuments == Query(<<"hr", "employeeDocuments", "*", "*">>, {"documents"})
useMyEmployeeDocuments == Query(<<"hr", "employeeDocuments", "my", "*">>, {"documents"})
useSalaryStructures == Query(<<"hr", "salary-structures", "*">>, {"structures"})
useCreateSalaryStructure == Call({"structures"})
useUpdateSalaryStructure == Call({"structures"})
useSalaryComponentsQuery == Query(<<"hr", "salary-components", "*">>, {"components"})
useCreateSalaryComponent == Call({"components"})
useUpdateSalaryComponent == Call({"components"})
useLoanAdvancesQuery == Query(<<"hr", "loan-advances", "*">>, {"loans"})
useCreateLoanAdvance == Call({"loans"})
useCreateEmployee == Call({"employees"})
useUpdateEmployee == Call({"employees"})
useCreateDepartment == Call({"departments"})
useUpdateDepartment == Call({"departments"})
useDeleteDepartment == Call({"departments"})
useCreateJobTitle == Call({"job titles"})
useUpdateJobTitle == Call({"job titles"})
useDeleteJobTitle == Call({"job titles"})
useUploadEmployeeDocument == Call({"documents"})
useUploadMyEmployeeDocument == Call({"documents"})
useDeleteEmployeeDocument == Call({"documents"})

(* leave                                                                   *)
useLeaveTypesQuery == Query(<<"leaves", "types">>, {"leave types"})
useCreateLeaveTypeMutation == Call({"leave types"})
useMyLeaveBalancesQuery ==
  Query(<<"leaves", "balances", "my", "*">>, {"balances", "leave types"})
useCreateLeaveBalanceMutation == Call({"balances"})
useMyLeaveRequestsQuery ==
  Query(<<"leaves", "requests", "my", "*">>, {"requests", "leave types"})
useCreateLeaveRequestMutation == Call({"requests"})
useLeaveApprovalsInboxQuery ==
  Query(<<"leaves", "approvals", "inbox", "*">>, {"requests", "leave types", "employees"})
useApproveLeaveRequestMutation == Call({"requests", "balances"})
useRejectLeaveRequestMutation == Call({"requests"})
useCommissionApprovalsInboxQuery ==
  Query(<<"commissions", "approvals", "inbox", "*">>, {"commissions", "employees"})

(* policies and payroll                                                    *)
usePolicyRulesQuery == Query(<<"policies", "rules">>, {"rules"})
useCreatePolicyRuleMutation == Call({"rules"})
useHrActionsQuery == Query(<<"policies", "actions", "*">>, {"actions", "rules", "employees"})
useUpdateHrActionMutation == Call({"actions"})
usePayrollPeriods == Query(<<"payroll", "periods">>, {"periods"})
useCreatePeriod == Call({"periods"})
(* The server only queues the generation.                                  *)
useGeneratePeriod == Call({})
usePeriodRuns == Query(<<"payroll", "periods", "*", "runs">>, {"runs", "employees"})
usePayrollRun == Timed(Query(<<"payroll", "runs", "*">>, {"runs", "periods", "employees"}))
useMyPayrollRuns == Timed(Query(<<"payroll", "runs", "my">>, {"runs", "periods"}))
useMarkPayrollRunPaid == Call({"runs"})
useLockPayrollPeriod == Call({"periods", "entries"})

-----------------------------------------------------------------------------
(* modules/hr/attendance: the desk of HR                                   *)
useAttendance == Query(<<"attendance", "*">>, {"attendance", "employees"})
useAttendancePendingApprovals ==
  Query(<<"attendance", "pending-approvals">>, {"attendance", "employees"})
useApproveAttendance == Refreshing(Call({"attendance"}), {<<"attendance">>})
useRejectAttendance == Refreshing(Call({"attendance"}), {<<"attendance">>})
useManualAttendanceCreate == Refreshing(Call({"attendance"}), {<<"attendance">>})
useRotatingAttendanceCode ==
  Polled(Timed(Query(<<"attendance", "rotating-code", "*">>, {"codes"})))

-----------------------------------------------------------------------------
(* shared/accounting/hooks.ts                                              *)
useJournalEntries == Query(<<"journal-entries", "*">>, {"entries", "accounts"})
useCreateJournalEntry == Call({"entries"})
useUpdateJournalEntry == Call({"entries"})
useDeleteJournalEntry == Call({"entries"})
useJournalEntry == Query(<<"journal-entry", "*">>, {"entries", "accounts"})
useAccounts == Query(<<"accounts">>, {"accounts"})
useExpenses == Query(<<"expenses", "*">>, {"expenses"})
useCreateExpense == Call({"expenses"})
useApproveExpense == Call({"expenses", "entries"})
useCreatePayment == Call({"invoices"})
useUploadExpenseAttachment == Call({"expenses"})
useTrialBalance == Timed(Query(<<"trial-balance", "*", "*">>, {"entries", "accounts"}))
useGeneralLedger ==
  Timed(Query(<<"general-ledger", "*", "*", "*">>, {"entries", "accounts"}))
useProfitLoss == Timed(Query(<<"profit-loss", "*", "*">>, {"entries", "accounts"}))
useCumulativeBalanceSummary ==
  Timed(Query(<<"cumulative-balance-summary", "*">>, {"entries", "accounts"}))
useAgingReport == Timed(Query(<<"ar-aging">>, {"invoices", "customers"}))
accounting_useAlerts == Query(<<"alerts">>, {"invoices"})

(* shared/invoices/hooks.ts                                                *)
useInvoices == Query(<<"invoices">>, {"invoices"})
useInvoice == Query(<<"invoice", "*">>, {"invoices"})
useCreateInvoice == Call({"invoices"})
useUpdateInvoice == Call({"invoices"})
useIssueInvoice == Call({"invoices", "entries"})
useDeleteInvoice == Call({"invoices"})
useRecordSale == Call({"invoices", "entries", "items", "stock", "customers"})

(* shared/customers/hooks.ts                                               *)
useCustomers == Query(<<"customers", "*">>, {"customers"})
useCustomer == Query(<<"customer", "*">>, {"customers"})
useCreateCustomer == Call({"customers"})
useUpdateCustomer == Call({"customers"})

(* shared/catalog/hooks.ts                                                 *)
useCatalogItems == Query(<<"catalog-items">>, {"items"})
useCreateCatalogItem == Refreshing(Call({"items"}), {<<"catalog-items">>})
useUpdateCatalogItem == Refreshing(Call({"items"}), {<<"catalog-items">>})
useDeleteCatalogItem == Refreshing(Call({"items"}), {<<"catalog-items">>})
useAddStock ==
  Refreshing(Call({"items", "stock"}), {<<"catalog-items">>, <<"inventory-transactions">>})
useRemoveStock ==
  Refreshing(Call({"items", "stock"}), {<<"catalog-items">>, <<"inventory-transactions">>})
useInventoryTransactions == Query(<<"inventory-transactions">>, {"stock"})

-----------------------------------------------------------------------------
(* shared/analytics, audit and messaging                                   *)
useAlerts == Query(<<"analyticsAlerts", "*">>, {"alerts"})
useAlert == Query(<<"alert", "*">>, {"alerts"})
useAckAlert == Call({"alerts"})
useResolveAlert == Call({"alerts"})
useAnalyticsKpis == Query(<<"analyticsKpis", "*", "*", "*">>, {"kpis"})
useCashForecast == Query(<<"analyticsForecast", "*">>, {"kpis"})
useAuditLogs == Query(<<"audit-logs", "*", "*", "*">>, {"audit"})

useChatConversations == Polled(Query(<<"chat", "conversations">>, {"messages", "groups"}))
useChatGroups == Polled(Query(<<"chat", "groups">>, {"groups"}))
useCreateChatGroup ==
  Refreshing(Call({"groups"}), {<<"chat", "groups">>, <<"chat", "conversations">>})
useUpdateChatGroup ==
  Refreshing(Call({"groups"}), {<<"chat", "groups">>, <<"chat", "conversations">>})
useUpsertGroupMember == Refreshing(Call({"groups"}), {<<"chat", "groups">>})
useChatMessages == Polled(Query(<<"chat", "messages", "*", "*">>, {"messages"}))
useSendMessage ==
  Refreshing(Call({"messages", "notifications"}),
             {<<"chat", "conversations">>, <<"chat", "messages">>, <<"notifications">>})
useNotifications == Polled(Query(<<"notifications">>, {"notifications"}))
useMarkNotificationRead ==
  Refreshing(Call({"notifications"}), {<<"notifications">>})

-----------------------------------------------------------------------------
(* Queries and calls that pages keep to themselves                         *)
backupsQuery == Query(<<"company-backups">>, {"backups"})
payrollOpenPeriodsTotalQuery ==
  Query(<<"dashboard-open-payroll-total", "*", "*">>, {"periods", "runs"})
openInvoicesQuery == Query(<<"finance-dashboard-open-invoices">>, {"invoices"})
rolesQuery == Query(<<"roles", "*">>, {"roles"})
companiesQuery == Query(<<"companies">>, {"companies"})
usersQuery == Query(<<"users", "*", "*">>, {"users", "roles"})
lightUsersQuery == Query(<<"users", "light">>, {"users"})
createUser == Call({"users"})
updateUser == Call({"users"})
deleteUser == Call({"users"})
createCompany == Call({"companies"})
createBackup == Call({"backups"})
(* A backup brings back every table of the company.                        *)
restoreBackup ==
  Call({"attendance", "employees", "departments", "job titles", "shifts", "worksites",
        "documents", "structures", "components", "loans", "leave types", "balances",
        "requests", "commissions", "rules", "actions", "periods", "runs", "codes",
        "entries", "accounts", "expenses", "invoices", "customers", "items", "stock",
        "alerts", "kpis", "audit", "messages", "groups", "notifications", "roles",
        "users", "backups"})

(* pages/admin/SuperAdminPage: the older page of the platform's owner      *)
StatsSection == Timed(Query(<<"superadmin-stats">>, {"companies", "users"}))
CompaniesSection == Timed(Query(<<"superadmin-companies", "*">>, {"companies"}))
UsersSection == Timed(Query(<<"superadmin-users", "*", "*">>, {"users"}))
AuditSection == Timed(Query(<<"superadmin-audit-logs", "*", "*", "*">>, {"audit"}))
stats == <<"superadmin-stats">>
companies == <<"superadmin-companies">>
users == <<"superadmin-users">>
toggleMutation == Refreshing(Call({"companies"}), {companies, stats})
deleteMutation == Refreshing(Call({"companies"}), {companies, stats})
extendMutation == Refreshing(Call({"companies"}), {companies, stats})
EditCompanyModal == Refreshing(Call({"companies"}), {companies})
CreateCompanyModal == Refreshing(Call({"companies", "users"}), {companies, stats})
deleteUserMutation == Refreshing(Call({"users"}), {users, stats})
toggleUserMutation == Refreshing(Call({"users"}), {users})
=============================================================================
