------------------------------ MODULE PageForms ------------------------------
(***************************************************************************)
(* The forms of the pages, each in three parts: what is on the screen, how *)
(* its contents change when it is opened for a record or left, and what    *)
(* its handler sends and resets.                                           *)
(***************************************************************************)
EXTENDS Sequences

(* On the screen: the fields, and those without which the browser or the   *)
(* button lets nothing through.  A dialog can be closed at any time, also  *)
(* while it is being sent; while the form's own call is pending its button *)
(* is disabled, unless it is Open.                                         *)
Panel(fields, needed) ==
  [fields |-> fields, needed |-> needed, dialog |-> FALSE, guarded |-> TRUE]
Dialog(fields, needed) == [Panel(fields, needed) EXCEPT !.dialog = TRUE]
Open(view) == [view EXCEPT !.guarded = FALSE]

(* What is set anew: when the form is opened for something new, or for a   *)
(* record; when it goes back from a record to something new; and by each   *)
(* way to close it.  A form that is a page, or is mounted with its dialog, *)
(* begins again and has forgotten what it sent.                            *)
Kept == [new |-> {}, row |-> {}, leave |-> {}, close |-> {{}}, mounted |-> FALSE]

(* What the handler calls, for something new and for a record; the fields  *)
(* it refuses to send blank; those it resets when all is answered, and     *)
(* whether the form ends then, is closed or left; late: a refresh that it  *)
(* awaits first.  "add" makes a row whenever it is called, "set" does not. *)
Calls(new, row) ==
  [new |-> new, row |-> row, refuses |-> {}, resets |-> {}, ends |-> FALSE, late |-> FALSE]
Adds == Calls(<<"add">>, <<>>)
Saves == Calls(<<"add">>, <<"set">>)
Sets == Calls(<<>>, <<"set">>)

-----------------------------------------------------------------------------
(* Departments and job titles                                              *)
DepartmentFormModal == Dialog({"name", "is_active"}, {"name"})
JobTitleFormModal == Dialog({"name", "is_active"}, {"name"})

departments_fields == {"name", "is_active"}
useDepartmentForm == [Kept EXCEPT !.row = departments_fields, !.leave = departments_fields]
useJobTitleForm == [Kept EXCEPT !.row = departments_fields, !.leave = departments_fields]

departments_handleSubmit == [Saves EXCEPT !.ends = TRUE]
jobTitles_handleSubmit == [Saves EXCEPT !.ends = TRUE]

-----------------------------------------------------------------------------
(* Actions of a policy                                                     *)
HRActionsEditModal == Dialog({"action_type", "value", "reason", "payroll_period"}, {})
action_fields == HRActionsEditModal.fields
openEdit == [Kept EXCEPT !.row = action_fields, !.close = {action_fields}]
submitEdit == [Sets EXCEPT !.resets = action_fields, !.ends = TRUE, !.late = TRUE]

PoliciesRuleFormPanel ==
  Panel({"template", "threshold", "period_days", "action_type", "action_value",
         "is_active", "name"}, {})
resetForm == PoliciesRuleFormPanel.fields \ {"template"}
handleSave == [Adds EXCEPT !.resets = resetForm]

-----------------------------------------------------------------------------
(* Leaves                                                                  *)
LeaveForm == Panel({"leave_type", "start_date", "end_date", "reason"}, {})
leave_handleSubmit ==
  [Adds EXCEPT !.refuses = {"leave_type", "start_date", "end_date"},
               !.resets = LeaveForm.fields]

ManagerLeaveBalancePanel == Panel({"employee", "leave_type", "year", "allocated_days"}, {})
handleAddLeaveBalance ==
  [Adds EXCEPT !.refuses = {"employee", "leave_type", "allocated_days"},
               !.resets = {"allocated_days"}]

(* A request is chosen in the table; nothing is reset for the next.        *)
LeaveInboxReviewPanel == Panel({"reject_reason"}, {})
setSelected == Kept
handleReject == [Sets EXCEPT !.resets = {"reject_reason"}, !.ends = TRUE]

-----------------------------------------------------------------------------
(* Attendance                                                              *)
(* One reason for all the rows                                             *)
rejectReason == Panel({"reject_reason"}, {})
PendingApprovalsPanel == Kept
handleApproval == [Sets EXCEPT !.resets = {"reject_reason"}]

(* A second record of the same day is refused, or changes the first.       *)
manualAttendance == Panel({"employee", "date", "action", "time"}, {})
handleCreateManualAttendance ==
  [Calls(<<"set">>, <<>>) EXCEPT !.refuses = {"employee"}, !.resets = {"time"}]

ShiftManagementSection ==
  Open(Panel({"name", "start_time", "end_time", "grace_minutes", "is_active"}, {"name"}))
shift_fields == ShiftManagementSection.fields
onEditShift == [Kept EXCEPT !.row = shift_fields]
resetShiftForm == [onEditShift EXCEPT !.leave = shift_fields]
handleSaveShift == [Saves EXCEPT !.resets = shift_fields, !.ends = TRUE]

WorksiteManagementSection ==
  Open(Panel({"name", "lat", "lng", "radius_meters", "is_active"}, {"name"}))
worksite_fields == WorksiteManagementSection.fields
onEditWorksite == [Kept EXCEPT !.row = worksite_fields]
resetWorksiteForm == [onEditWorksite EXCEPT !.leave = worksite_fields]
handleSaveWorksite == [Saves EXCEPT !.resets = worksite_fields, !.ends = TRUE]

leaveTypes ==
  Panel({"name", "code", "max_per_request_days", "requires_approval", "paid",
         "allow_negative_balance", "is_active"}, {})
handleCreateLeaveType ==
  [Adds EXCEPT !.refuses = {"name", "code"},
               !.resets = {"name", "code", "max_per_request_days"}]

-----------------------------------------------------------------------------
(* Users and companies                                                     *)
(* mutant: the button is not disabled while the user is being created      *)
CreateUserModal_enabled ==
  Open(Dialog({"username", "company_id", "email", "password", "role_id", "is_active"},
              {"username", "password"}))
CreateUserModal ==
  Dialog({"username", "company_id", "email", "password", "role_id", "is_active"},
         {"username", "password"})
EditUserModal == Dialog({"username", "email", "password", "role_id", "is_active"}, {})
CreateCompanyModal == Dialog({"name"}, {"name"})

createForm == [Kept EXCEPT !.new = CreateUserModal.fields, !.close = {CreateUserModal.fields}]
editForm == [Kept EXCEPT !.row = EditUserModal.fields, !.close = {EditUserModal.fields}]

createMutation == [Adds EXCEPT !.resets = CreateUserModal.fields, !.ends = TRUE]
updateMutation == [Sets EXCEPT !.resets = EditUserModal.fields, !.ends = TRUE]
(* mutant: the name is left in the dialog                                  *)
createCompany_left == [Adds EXCEPT !.refuses = {"name"}, !.ends = TRUE]
createCompanyMutation ==
  [Adds EXCEPT !.refuses = {"name"}, !.resets = {"name"}, !.ends = TRUE]

(* The platform's administration.  The first two dialogs are mounted when  *)
(* they open, with a mark of their own for a call under way.               *)
admin_CreateCompanyModal == Dialog({"name"}, {"name"})
admin_EditCompanyModal == Dialog({"name"}, {})
extendModal == Dialog({"days"}, {})
resetPasswordModal == Dialog({"new_password"}, {"new_password"})

mounted_modal == [Kept EXCEPT !.new = {"name"}, !.row = {"name"}, !.mounted = TRUE]
setExtendCompany == [Kept EXCEPT !.row = {"days"}]
setResetTarget == [Kept EXCEPT !.row = {"new_password"}]

admin_createCompany == [Adds EXCEPT !.refuses = {"name"}, !.ends = TRUE]
admin_saveCompany == [Sets EXCEPT !.ends = TRUE]
extendMutation == [Calls(<<>>, <<"add">>) EXCEPT !.ends = TRUE]
doResetPassword ==
  [Sets EXCEPT !.refuses = {"new_password"}, !.resets = {"new_password"}, !.ends = TRUE]

-----------------------------------------------------------------------------
(* Payroll                                                                 *)
PayrollPeriodFormSection ==
  Panel({"period_type", "month", "year", "start_date", "end_date"}, {})
handleCreatePeriod == Adds   \* refused for the same dates

salaryModal == Dialog({"salary_type", "basic_salary", "currency"}, {})
(* mutant: the dialog is opened without the employee's salary              *)
openSalaryModal_kept == Kept
openSalaryModal == [Kept EXCEPT !.row = salaryModal.fields]
handleSaveSalary == [Sets EXCEPT !.ends = TRUE]

(* The rows are the employees; a component of theirs is edited until it is *)
(* saved or cancelled, whoever is chosen meanwhile.                        *)
component_fields == {"name", "amount", "payroll_period"}
adjustments == Panel(component_fields \cup {"adjustment_type"}, {})
setEditingComponentId ==
  [Kept EXCEPT !.row = adjustments.fields, !.leave = component_fields]
handleAddAdjustment ==
  [Saves EXCEPT !.refuses = {"name"}, !.resets = component_fields, !.ends = TRUE]

-----------------------------------------------------------------------------
(* The profile of an employee                                              *)
identity == {"employee_code", "full_name", "national_id", "hire_date", "status"}
links == {"manager_id", "user_id"}
position == {"department_id", "job_title_id", "shift_id"}
employeeForm == Panel(identity \cup links \cup position, {"employee_code", "full_name"})
employee_page ==
  [Kept EXCEPT !.new = employeeForm.fields, !.row = employeeForm.fields, !.mounted = TRUE]
createEmployee == [Adds EXCEPT !.ends = TRUE]
(* Saved, the employee stays on the page, set anew by a refetch.           *)
updateEmployee == [Sets EXCEPT !.resets = employeeForm.fields, !.late = TRUE]

jobTitleModal == Dialog({"name"}, {"name"})
handleCreateJobTitle == [Adds EXCEPT !.resets = jobTitleModal.fields, !.ends = TRUE]

shiftModal == Dialog({"name", "start_time", "end_time", "grace_minutes"}, {"name"})
handleCreateShift == [Adds EXCEPT !.resets = shiftModal.fields, !.ends = TRUE]

documentForm ==
  Panel({"doc_type", "category", "linked_entity_type", "linked_entity_id", "title", "file"}, {})
handleUploadDocument ==
  [Adds EXCEPT !.refuses = {"file"}, !.resets = documentForm.fields]

salaryForm == Panel({"salary_type", "basic_salary", "currency"}, {})
handleSalarySubmit == Calls(<<"set">>, <<>>)

profile_adjustments == Panel(component_fields \cup {"adjustment_type"}, {})
(* Without a name it is called a bonus or a deduction.                      *)
profile_handleAddAdjustment ==
  [Adds EXCEPT !.refuses = {"amount"}, !.resets = component_fields]

(* What the same button adds for an advance                                *)
advance_amounts == {"advance_amount", "advance_installment"}
profile_advance == Panel(advance_amounts \cup {"advance_start_date"}, {})
profile_handleAddAdvance ==
  [Adds EXCEPT !.refuses = advance_amounts, !.resets = advance_amounts]

(* What an employee uploads himself                                        *)
service_documents == Panel({"doc_type", "category", "title", "file"}, {"file"})
handleUpload == [Adds EXCEPT !.refuses = {"file"}, !.resets = {"title", "file"}]

-----------------------------------------------------------------------------
(* Accounting                                                              *)
expense_fields == {"expense_type", "date", "amount", "vendor", "payroll_period"}
expense_details ==
  {"other_name", "other_reason", "other_beneficiary", "other_recipients", "notes", "attachments"}
expenseModal == Dialog(expense_fields \cup expense_details, {})
(* Cancel resets, the backdrop and the cross do not.                       *)
expenses_resetForm == [Kept EXCEPT !.close = {{}, expenseModal.fields}]
(* The expense, and then the files                                         *)
expenses_submitMutation ==
  [Calls(<<"add", "add">>, <<>>) EXCEPT !.refuses = {"date", "amount"},
     !.resets = expenseModal.fields, !.ends = TRUE]

entry_fields == {"date", "reference_type", "memo"}
formLines == {"lines"}
entryModal == Dialog(entry_fields \cup formLines, {})
openCreateModal == [Kept EXCEPT !.new = entryModal.fields]
openEditModal == [openCreateModal EXCEPT !.row = entryModal.fields]
buildPayload == {"date", "reference_type", "lines"}
journal_handleSubmit ==
  [Saves EXCEPT !.refuses = buildPayload, !.ends = TRUE, !.late = TRUE]

paymentModal ==
  Dialog({"invoice", "payment_date", "amount", "method", "cash_account", "notes"}, {})
collections_resetForm == paymentModal.fields
handleOpenModal ==
  [Kept EXCEPT !.new = {"invoice", "payment_date"}, !.close = {collections_resetForm}]
submitPayment ==
  [Adds EXCEPT !.refuses = {"amount", "cash_account"},
               !.resets = collections_resetForm, !.ends = TRUE]

-----------------------------------------------------------------------------
(* Invoices, customers and sales                                           *)
invoice_fields == {"invoice_number", "customer", "issue_date"}
invoice_lines == {"lines"}
invoice_totals == {"tax_rate", "notes"}
InvoiceFormContent == Panel(invoice_fields \cup invoice_lines \cup invoice_totals, {})
invoice_page ==
  [Kept EXCEPT !.new = InvoiceFormContent.fields, !.row = InvoiceFormContent.fields,
               !.mounted = TRUE]
(* Created, and then issued if it was asked for                            *)
invoice_submitMutation ==
  [Calls(<<"add", "set">>, <<"set">>) EXCEPT !.refuses = invoice_fields, !.ends = TRUE]

customer_fields == {"code", "name", "email", "phone", "address"}
customer_terms == {"credit_limit", "payment_terms_days", "is_active"}
CustomerFormPage == Panel(customer_fields \cup customer_terms, {"code", "name"})
customer_page ==
  [Kept EXCEPT !.new = CustomerFormPage.fields, !.row = CustomerFormPage.fields,
               !.mounted = TRUE]
customer_handleSubmit == [Saves EXCEPT !.ends = TRUE]

SalesPage ==
  Open(Panel({"customer", "invoice_number", "issue_date", "due_date", "tax_rate", "notes",
              "lines", "payment_method"}, {}))
(* A new customer, and the sale                                            *)
submitSale ==
  [Calls(<<"add", "add">>, <<>>) EXCEPT !.resets = {"invoice_number", "notes", "tax_rate"}]

CatalogPage ==
  Open(Panel({"item_type", "name", "barcode", "stock_quantity", "cost_price", "sale_price"}, {}))
setEditing == [Kept EXCEPT !.row = CatalogPage.fields]
catalog_submit == [Saves EXCEPT !.resets = CatalogPage.fields, !.ends = TRUE]

-----------------------------------------------------------------------------
(* Messages and alerts                                                     *)
(* Files without a text may be sent.                                        *)
composer == Panel({"body", "files"}, {})
setManuallySelectedConversationId == Kept
handleSend == [Calls(<<>>, <<"add">>) EXCEPT !.resets = composer.fields]

groupComposer == Open(Panel({"name", "is_private"}, {}))
handleCreateGroup == [Adds EXCEPT !.refuses = {"name"}, !.resets = groupComposer.fields]

alertModal == Open(Dialog({"note"}, {}))
closeModal == [Kept EXCEPT !.close = {{"note"}}]
handleAck == [Sets EXCEPT !.resets = {"note"}]

-----------------------------------------------------------------------------
Form(view, ways, save) == [view |-> view, ways |-> ways, save |-> save, edits |-> FALSE]

department == Form(DepartmentFormModal, useDepartmentForm, departments_handleSubmit)
jobTitle == Form(JobTitleFormModal, useJobTitleForm, jobTitles_handleSubmit)
leaveDecision == Form(LeaveInboxReviewPanel, setSelected, handleReject)
attendanceDecision == Form(rejectReason, PendingApprovalsPanel, handleApproval)
shift == Form(ShiftManagementSection, resetShiftForm, handleSaveShift)
worksite == Form(WorksiteManagementSection, resetWorksiteForm, handleSaveWorksite)
adjustment ==
  [Form(adjustments, setEditingComponentId, handleAddAdjustment) EXCEPT !.edits = TRUE]
expense == Form(expenseModal, expenses_resetForm, expenses_submitMutation)
journalEntry == Form(entryModal, openEditModal, journal_handleSubmit)
invoice == Form(InvoiceFormContent, invoice_page, invoice_submitMutation)
sale == Form(SalesPage, Kept, submitSale)
catalogItem == Form(CatalogPage, setEditing, catalog_submit)
message == Form(composer, setManuallySelectedConversationId, handleSend)
chatGroup == Form(groupComposer, Kept, handleCreateGroup)

AllForms ==
  {department, jobTitle, leaveDecision, attendanceDecision, shift, worksite, adjustment,
   expense, journalEntry, invoice, sale, catalogItem, message, chatGroup,
   Form(HRActionsEditModal, openEdit, submitEdit),
   Form(PoliciesRuleFormPanel, Kept, handleSave),
   Form(LeaveForm, Kept, leave_handleSubmit),
   Form(ManagerLeaveBalancePanel, Kept, handleAddLeaveBalance),
   Form(manualAttendance, Kept, handleCreateManualAttendance),
   Form(leaveTypes, Kept, handleCreateLeaveType),
   Form(CreateUserModal, createForm, createMutation),
   Form(EditUserModal, editForm, updateMutation),
   Form(CreateCompanyModal, Kept, createCompanyMutation),
   Form(admin_CreateCompanyModal, mounted_modal, admin_createCompany),
   Form(admin_EditCompanyModal, mounted_modal, admin_saveCompany),
   Form(extendModal, setExtendCompany, extendMutation),
   Form(resetPasswordModal, setResetTarget, doResetPassword),
   Form(PayrollPeriodFormSection, Kept, handleCreatePeriod),
   Form(salaryModal, openSalaryModal, handleSaveSalary),
   Form(employeeForm, employee_page, createEmployee),
   Form(employeeForm, employee_page, updateEmployee),
   Form(jobTitleModal, Kept, handleCreateJobTitle),
   Form(shiftModal, Kept, handleCreateShift),
   Form(documentForm, Kept, handleUploadDocument),
   Form(salaryForm, Kept, handleSalarySubmit),
   Form(profile_adjustments, Kept, profile_handleAddAdjustment),
   Form(profile_advance, Kept, profile_handleAddAdvance),
   Form(service_documents, Kept, handleUpload),
   Form(paymentModal, handleOpenModal, submitPayment),
   Form(CustomerFormPage, customer_page, customer_handleSubmit),
   Form(alertModal, closeModal, handleAck)}
=============================================================================
