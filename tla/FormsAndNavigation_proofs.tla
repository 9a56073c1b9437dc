--------------------- MODULE FormsAndNavigation_proofs ----------------------
(***************************************************************************)
(* Theorems about Forms, for any number of rows, texts and presses, and    *)
(* about Navigation, for any set of accounts.                              *)
(*                                                                         *)
(* The first part goes through the table of PageForms once: how each form  *)
(* is written, and what follows for the cases that the steps see.  The     *)
(* second needs nothing of the table but CasesSend and CasesFit.  The      *)
(* third is about who is judged by whose role, and where the links lead.   *)
(***************************************************************************)
EXTENDS Forms, Navigation, TLAPS

(* The records that PageForms builds, written out                          *)
Looks(v, dialog, guarded) == (v.dialog <=> dialog) /\ (v.guarded <=> guarded)
Goes(w, new, row, leave, close, mounted) ==
  /\ w.new = new /\ w.row = row /\ w.leave = leave /\ w.close = close
  /\ w.mounted <=> mounted
Sends(s, new, row, resets, ends, late) ==
  /\ s.new = new /\ s.row = row /\ s.resets = resets
  /\ (s.ends <=> ends) /\ (s.late <=> late)

(* Panels and dialogs.                                                    *)
LEMMA Views ==
  ASSUME NEW F, NEW N
  PROVE  /\ Panel(F, N).fields = F /\ Looks(Panel(F, N), FALSE, TRUE)
         /\ Dialog(F, N).fields = F /\ Looks(Dialog(F, N), TRUE, TRUE)
         /\ Open(Panel(F, N)).fields = F /\ Looks(Open(Panel(F, N)), FALSE, FALSE)
         /\ Open(Dialog(F, N)).fields = F /\ Looks(Open(Dialog(F, N)), TRUE, FALSE)
BY DEF Panel, Dialog, Open, Looks

(* What the forms of the pages look like.                                 *)
LEMMA FormViews ==
  /\ Looks(DepartmentFormModal, TRUE, TRUE) /\ DepartmentFormModal.fields = {"name", "is_active"}
  /\ Looks(JobTitleFormModal, TRUE, TRUE) /\ JobTitleFormModal.fields = {"name", "is_active"}
  /\ Looks(LeaveInboxReviewPanel, FALSE, TRUE)
  /\ Looks(rejectReason, FALSE, TRUE)
  /\ Looks(ShiftManagementSection, FALSE, FALSE)
  /\ Looks(WorksiteManagementSection, FALSE, FALSE)
  /\ Looks(adjustments, FALSE, TRUE)
  /\ Looks(expenseModal, TRUE, TRUE)
  /\ Looks(entryModal, TRUE, TRUE)
  /\ Looks(InvoiceFormContent, FALSE, TRUE)
  /\ Looks(SalesPage, FALSE, FALSE)
  /\ Looks(CatalogPage, FALSE, FALSE)
  /\ Looks(composer, FALSE, TRUE)
  /\ Looks(groupComposer, FALSE, FALSE)
  /\ Looks(HRActionsEditModal, TRUE, TRUE)
  /\ Looks(PoliciesRuleFormPanel, FALSE, TRUE)
  /\ Looks(LeaveForm, FALSE, TRUE)
  /\ Looks(ManagerLeaveBalancePanel, FALSE, TRUE)
  /\ Looks(manualAttendance, FALSE, TRUE)
  /\ Looks(leaveTypes, FALSE, TRUE)
  /\ Looks(CreateUserModal, TRUE, TRUE)
  /\ Looks(EditUserModal, TRUE, TRUE)
  /\ Looks(CreateCompanyModal, TRUE, TRUE) /\ CreateCompanyModal.fields = {"name"}
  /\ Looks(admin_CreateCompanyModal, TRUE, TRUE) /\ admin_CreateCompanyModal.fields = {"name"}
  /\ Looks(admin_EditCompanyModal, TRUE, TRUE) /\ admin_EditCompanyModal.fields = {"name"}
  /\ Looks(extendModal, TRUE, TRUE) /\ extendModal.fields = {"days"}
  /\ Looks(resetPasswordModal, TRUE, TRUE) /\ resetPasswordModal.fields = {"new_password"}
  /\ Looks(PayrollPeriodFormSection, FALSE, TRUE)
  /\ Looks(salaryModal, TRUE, TRUE)
  /\ Looks(employeeForm, FALSE, TRUE)
  /\ Looks(jobTitleModal, TRUE, TRUE)
  /\ Looks(shiftModal, TRUE, TRUE)
  /\ Looks(documentForm, FALSE, TRUE)
  /\ Looks(salaryForm, FALSE, TRUE)
  /\ Looks(profile_adjustments, FALSE, TRUE)
  /\ Looks(profile_advance, FALSE, TRUE)
  /\ Looks(service_documents, FALSE, TRUE)
  /\ Looks(paymentModal, TRUE, TRUE)
  /\ Looks(CustomerFormPage, FALSE, TRUE)
  /\ Looks(alertModal, TRUE, FALSE) /\ alertModal.fields = {"note"}
BY Views DEF DepartmentFormModal, JobTitleFormModal, LeaveInboxReviewPanel,
   rejectReason, ShiftManagementSection, WorksiteManagementSection,
   adjustments, expenseModal, entryModal, InvoiceFormContent, SalesPage,
   CatalogPage, composer, groupComposer, HRActionsEditModal,
   PoliciesRuleFormPanel, LeaveForm, ManagerLeaveBalancePanel,
   manualAttendance, leaveTypes, CreateUserModal, EditUserModal,
   CreateCompanyModal, admin_CreateCompanyModal, admin_EditCompanyModal,
   extendModal, resetPasswordModal, PayrollPeriodFormSection, salaryModal,
   employeeForm, jobTitleModal, shiftModal, documentForm, salaryForm,
   profile_adjustments, profile_advance, service_documents, paymentModal, CustomerFormPage,
   alertModal

(* What empties and fills them.                                           *)
LEMMA FormWays ==
  /\ Goes(useDepartmentForm, {}, departments_fields, departments_fields, {{}},
          FALSE)
  /\ Goes(useJobTitleForm, {}, departments_fields, departments_fields, {{}},
          FALSE)
  /\ Goes(setSelected, {}, {}, {}, {{}}, FALSE)
  /\ Goes(PendingApprovalsPanel, {}, {}, {}, {{}}, FALSE)
  /\ Goes(resetShiftForm, {}, shift_fields, shift_fields, {{}}, FALSE)
  /\ Goes(resetWorksiteForm, {}, worksite_fields, worksite_fields, {{}}, FALSE)
  /\ Goes(setEditingComponentId, {}, adjustments.fields, component_fields,
          {{}}, FALSE)
  /\ Goes(expenses_resetForm, {}, {}, {}, {{}, expenseModal.fields}, FALSE)
  /\ Goes(openEditModal, entryModal.fields, entryModal.fields, {}, {{}}, FALSE)
  /\ Goes(invoice_page, InvoiceFormContent.fields, InvoiceFormContent.fields,
          {}, {{}}, TRUE)
  /\ Goes(Kept, {}, {}, {}, {{}}, FALSE)
  /\ Goes(setEditing, {}, CatalogPage.fields, {}, {{}}, FALSE)
  /\ Goes(setManuallySelectedConversationId, {}, {}, {}, {{}}, FALSE)
  /\ Goes(openEdit, {}, action_fields, {}, {action_fields}, FALSE)
  /\ Goes(createForm, CreateUserModal.fields, {}, {},
          {CreateUserModal.fields}, FALSE)
  /\ Goes(editForm, {}, EditUserModal.fields, {}, {EditUserModal.fields},
          FALSE)
  /\ Goes(mounted_modal, {"name"}, {"name"}, {}, {{}}, TRUE)
  /\ Goes(setExtendCompany, {}, {"days"}, {}, {{}}, FALSE)
  /\ Goes(setResetTarget, {}, {"new_password"}, {}, {{}}, FALSE)
  /\ Goes(openSalaryModal, {}, salaryModal.fields, {}, {{}}, FALSE)
  /\ Goes(employee_page, employeeForm.fields, employeeForm.fields, {}, {{}},
          TRUE)
  /\ Goes(handleOpenModal, {"invoice", "payment_date"}, {}, {},
          {collections_resetForm}, FALSE)
  /\ Goes(customer_page, CustomerFormPage.fields, CustomerFormPage.fields, {},
          {{}}, TRUE)
  /\ Goes(closeModal, {}, {}, {}, {{"note"}}, FALSE)
BY DEF Goes, useDepartmentForm, Kept, useJobTitleForm, setSelected,
       PendingApprovalsPanel, resetShiftForm, onEditShift, resetWorksiteForm,
       onEditWorksite, setEditingComponentId, expenses_resetForm,
       openEditModal, openCreateModal, invoice_page, setEditing,
       setManuallySelectedConversationId, openEdit, createForm, editForm,
       mounted_modal, setExtendCompany, setResetTarget, openSalaryModal,
       employee_page, handleOpenModal, customer_page, closeModal

(* What their handlers send.                                              *)
LEMMA FormSends ==
  /\ Sends(departments_handleSubmit, <<"add">>, <<"set">>, {}, TRUE, FALSE)
  /\ Sends(jobTitles_handleSubmit, <<"add">>, <<"set">>, {}, TRUE, FALSE)
  /\ Sends(handleReject, <<>>, <<"set">>, {"reject_reason"}, TRUE, FALSE)
  /\ Sends(handleApproval, <<>>, <<"set">>, {"reject_reason"}, FALSE, FALSE)
  /\ Sends(handleSaveShift, <<"add">>, <<"set">>, shift_fields, TRUE, FALSE)
  /\ Sends(handleSaveWorksite, <<"add">>, <<"set">>, worksite_fields, TRUE,
          FALSE)
  /\ Sends(handleAddAdjustment, <<"add">>, <<"set">>, component_fields, TRUE,
          FALSE)
  /\ Sends(expenses_submitMutation, <<"add", "add">>, <<>>,
          expenseModal.fields, TRUE, FALSE)
  /\ Sends(journal_handleSubmit, <<"add">>, <<"set">>, {}, TRUE, TRUE)
  /\ Sends(invoice_submitMutation, <<"add", "set">>, <<"set">>, {}, TRUE,
          FALSE)
  /\ Sends(submitSale, <<"add", "add">>, <<>>, {"invoice_number", "notes",
          "tax_rate"}, FALSE, FALSE)
  /\ Sends(catalog_submit, <<"add">>, <<"set">>, CatalogPage.fields, TRUE,
          FALSE)
  /\ Sends(handleSend, <<>>, <<"add">>, composer.fields, FALSE, FALSE)
  /\ Sends(handleCreateGroup, <<"add">>, <<>>, groupComposer.fields, FALSE,
          FALSE)
  /\ Sends(submitEdit, <<>>, <<"set">>, action_fields, TRUE, TRUE)
  /\ Sends(handleSave, <<"add">>, <<>>, resetForm, FALSE, FALSE)
  /\ Sends(leave_handleSubmit, <<"add">>, <<>>, LeaveForm.fields, FALSE, FALSE)
  /\ Sends(handleAddLeaveBalance, <<"add">>, <<>>, {"allocated_days"}, FALSE,
          FALSE)
  /\ Sends(handleCreateManualAttendance, <<"set">>, <<>>, {"time"}, FALSE,
          FALSE)
  /\ Sends(handleCreateLeaveType, <<"add">>, <<>>, {"name", "code",
          "max_per_request_days"}, FALSE, FALSE)
  /\ Sends(createMutation, <<"add">>, <<>>, CreateUserModal.fields, TRUE,
          FALSE)
  /\ Sends(updateMutation, <<>>, <<"set">>, EditUserModal.fields, TRUE, FALSE)
  /\ Sends(createCompanyMutation, <<"add">>, <<>>, {"name"}, TRUE, FALSE)
  /\ Sends(admin_createCompany, <<"add">>, <<>>, {}, TRUE, FALSE)
  /\ Sends(admin_saveCompany, <<>>, <<"set">>, {}, TRUE, FALSE)
  /\ Sends(extendMutation, <<>>, <<"add">>, {}, TRUE, FALSE)
  /\ Sends(doResetPassword, <<>>, <<"set">>, {"new_password"}, TRUE, FALSE)
  /\ Sends(handleCreatePeriod, <<"add">>, <<>>, {}, FALSE, FALSE)
  /\ Sends(handleSaveSalary, <<>>, <<"set">>, {}, TRUE, FALSE)
  /\ Sends(createEmployee, <<"add">>, <<>>, {}, TRUE, FALSE)
  /\ Sends(updateEmployee, <<>>, <<"set">>, employeeForm.fields, FALSE, TRUE)
  /\ Sends(handleCreateJobTitle, <<"add">>, <<>>, jobTitleModal.fields, TRUE,
          FALSE)
  /\ Sends(handleCreateShift, <<"add">>, <<>>, shiftModal.fields, TRUE, FALSE)
  /\ Sends(handleUploadDocument, <<"add">>, <<>>, documentForm.fields, FALSE,
          FALSE)
  /\ Sends(handleSalarySubmit, <<"set">>, <<>>, {}, FALSE, FALSE)
  /\ Sends(profile_handleAddAdjustment, <<"add">>, <<>>, component_fields,
          FALSE, FALSE)
  /\ Sends(profile_handleAddAdvance, <<"add">>, <<>>, advance_amounts,
          FALSE, FALSE)
  /\ Sends(handleUpload, <<"add">>, <<>>, {"title", "file"}, FALSE, FALSE)
  /\ Sends(submitPayment, <<"add">>, <<>>, collections_resetForm, TRUE, FALSE)
  /\ Sends(customer_handleSubmit, <<"add">>, <<"set">>, {}, TRUE, FALSE)
  /\ Sends(handleAck, <<>>, <<"set">>, {"note"}, FALSE, FALSE)
BY DEF Sends, departments_handleSubmit, Saves, Calls, jobTitles_handleSubmit,
       handleReject, Sets, handleApproval, handleSaveShift, handleSaveWorksite,
       handleAddAdjustment, expenses_submitMutation, journal_handleSubmit,
       invoice_submitMutation, submitSale, catalog_submit, handleSend,
       handleCreateGroup, Adds, submitEdit, handleSave, leave_handleSubmit,
       handleAddLeaveBalance, handleCreateManualAttendance,
       handleCreateLeaveType, createMutation, updateMutation,
       createCompanyMutation, admin_createCompany, admin_saveCompany,
       extendMutation, doResetPassword, handleCreatePeriod, handleSaveSalary,
       createEmployee, updateEmployee, handleCreateJobTitle, handleCreateShift,
       handleUploadDocument, handleSalarySubmit, profile_handleAddAdjustment,
       profile_handleAddAdvance, handleUpload, submitPayment, customer_handleSubmit, handleAck

(* A form is made of these three.                                         *)
LEMMA Formed ==
  ASSUME NEW v, NEW w, NEW s
  PROVE  LET f == Form(v, w, s) IN f.view = v /\ f.ways = w /\ f.save = s /\ ~f.edits
BY DEF Form

(* Three ways in which a form is written that keep it from going wrong:   *)
(* what it sends is addressed as it was filled, what opens is empty, and  *)
(* one press sends one request.  The forms that are not so are named by   *)
(* Misdirects, ShowsLast and AsksAgain.                                   *)
Leavable(f) == f.view.dialog \/ f.ways.mounted
AnyPlace(f, x) ==
  (\A w \in f.ways.close : x \in w) /\ \E w \in f.ways.close : x \in w
Addressed(f) ==
  /\ ~f.edits
  /\ \A x \in f.view.fields :
       /\ f.save.row # <<>> =>
            \/ x \in f.ways.row
            \/ Leavable(f) /\ AnyPlace(f, x) /\ (f.save.ends => x \in f.save.resets)
       /\ f.save.row # <<>> /\ f.save.new # <<>> =>
            \/ x \in f.ways.leave
            \/ IF Leavable(f) THEN x \in f.ways.new
               ELSE x \in f.save.resets /\ f.ways.leave = {}
Emptied(f) ==
  Leavable(f) /\ f.save.new # <<>> =>
    ~f.edits /\ \A x \in f.view.fields : x \in f.save.resets \/ (x \in f.ways.new /\ f.save.ends)
AsksOnce(f) ==
  \/ f.save \in {submitEdit, updateEmployee, handleAck}
  \/ /\ f.view.guarded /\ ~f.save.late
     /\ f.ways.mounted =>
          ~f.edits /\ \A x \in f.view.fields : x \in f.ways.new /\ x \in f.ways.row
Fit(f) ==
  /\ f \in Misdirects \/ Addressed(f)
  /\ f \in ShowsLast \/ Emptied(f)
  /\ f \in AsksAgain \/ AsksOnce(f)

(* Each form of the table is written in these ways, or named.             *)
LEMMA FormsFit == ASSUME NEW f \in AllForms PROVE Fit(f)
<1>. USE FormViews, FormWays, FormSends, Formed DEF Fit, Addressed, Emptied,
       AsksOnce, Leavable, AnyPlace, Looks, Goes, Sends, departments_fields,
       shift_fields, worksite_fields, component_fields, expense_fields,
       expense_details, entry_fields, formLines, invoice_fields, invoice_lines,
       invoice_totals, action_fields, identity, links, position,
       collections_resetForm, customer_fields, customer_terms, buildPayload,
       resetForm
<1>1. CASE f = department
  BY <1>1 DEF department, ShowsLast
<1>2. CASE f = jobTitle
  BY <1>2 DEF jobTitle, ShowsLast
<1>3. CASE f = leaveDecision
  BY <1>3 DEF leaveDecision, Misdirects
<1>4. CASE f = attendanceDecision
  BY <1>4 DEF attendanceDecision, Misdirects
<1>5. CASE f = shift
  BY <1>5 DEF shift, AsksAgain
<1>6. CASE f = worksite
  BY <1>6 DEF worksite, AsksAgain
<1>7. CASE f = adjustment
  BY <1>7 DEF adjustment, Misdirects
<1>8. CASE f = expense
  BY <1>8 DEF expense, AsksAgain
<1>9. CASE f = journalEntry
  BY <1>9 DEF journalEntry, AsksAgain
<1>10. CASE f = invoice
  BY <1>10 DEF invoice, AsksAgain
<1>11. CASE f = sale
  BY <1>11 DEF sale, AsksAgain
<1>12. CASE f = catalogItem
  BY <1>12 DEF catalogItem, AsksAgain
<1>13. CASE f = message
  BY <1>13 DEF message, Misdirects
<1>14. CASE f = chatGroup
  BY <1>14 DEF chatGroup, AsksAgain
<1>15. CASE f = Form(HRActionsEditModal, openEdit, submitEdit)
  BY <1>15
<1>16. CASE f = Form(PoliciesRuleFormPanel, Kept, handleSave)
  BY <1>16
<1>17. CASE f = Form(LeaveForm, Kept, leave_handleSubmit)
  BY <1>17
<1>18. CASE f = Form(ManagerLeaveBalancePanel, Kept, handleAddLeaveBalance)
  BY <1>18
<1>19. CASE f = Form(manualAttendance, Kept, handleCreateManualAttendance)
  BY <1>19
<1>20. CASE f = Form(leaveTypes, Kept, handleCreateLeaveType)
  BY <1>20
<1>21. CASE f = Form(CreateUserModal, createForm, createMutation)
  BY <1>21
<1>22. CASE f = Form(EditUserModal, editForm, updateMutation)
  BY <1>22
<1>23. CASE f = Form(CreateCompanyModal, Kept, createCompanyMutation)
  BY <1>23
<1>24. CASE f = Form(admin_CreateCompanyModal, mounted_modal, admin_createCompany)
  BY <1>24
<1>25. CASE f = Form(admin_EditCompanyModal, mounted_modal, admin_saveCompany)
  BY <1>25
<1>26. CASE f = Form(extendModal, setExtendCompany, extendMutation)
  BY <1>26
<1>27. CASE f = Form(resetPasswordModal, setResetTarget, doResetPassword)
  BY <1>27
<1>28. CASE f = Form(PayrollPeriodFormSection, Kept, handleCreatePeriod)
  BY <1>28
<1>29. CASE f = Form(salaryModal, openSalaryModal, handleSaveSalary)
  BY <1>29
<1>30. CASE f = Form(employeeForm, employee_page, createEmployee)
  BY <1>30
<1>40. CASE f = Form(employeeForm, employee_page, updateEmployee)
  BY <1>40
<1>31. CASE f = Form(jobTitleModal, Kept, handleCreateJobTitle)
  BY <1>31
<1>32. CASE f = Form(shiftModal, Kept, handleCreateShift)
  BY <1>32
<1>33. CASE f = Form(documentForm, Kept, handleUploadDocument)
  BY <1>33
<1>34. CASE f = Form(salaryForm, Kept, handleSalarySubmit)
  BY <1>34
<1>35. CASE f = Form(profile_adjustments, Kept, profile_handleAddAdjustment)
  BY <1>35
<1>41. CASE f = Form(profile_advance, Kept, profile_handleAddAdvance)
  BY <1>41
<1>36. CASE f = Form(service_documents, Kept, handleUpload)
  BY <1>36
<1>37. CASE f = Form(paymentModal, handleOpenModal, submitPayment)
  BY <1>37
<1>38. CASE f = Form(CustomerFormPage, customer_page, customer_handleSubmit)
  BY <1>38
<1>39. CASE f = Form(alertModal, closeModal, handleAck)
  <2>1. f.ways.close = {{"note"}} /\ f.view.fields = {"note"}
    BY <1>39
  <2>2. AnyPlace(f, "note")
    BY <2>1
  <2>3. f.save.new = <<>> /\ f.save = handleAck /\ ~f.save.ends /\ Leavable(f) /\ ~f.edits
    BY <1>39
  <2>4. Addressed(f)
    BY <2>1, <2>2, <2>3
  <2>5. Emptied(f)
    BY <2>3
  <2>. QED  BY <2>3, <2>4, <2>5
<1>. HIDE FormViews, FormWays, FormSends, Formed DEF Fit
<1>. QED  BY <1>1, <1>2, <1>3, <1>4, <1>5, <1>6, <1>7, <1>8, <1>9, <1>10,
       <1>11, <1>12, <1>13, <1>14, <1>15, <1>16, <1>17, <1>18, <1>19, <1>20,
       <1>21, <1>22, <1>23, <1>24, <1>25, <1>26, <1>27, <1>28, <1>29, <1>30,
       <1>31, <1>32, <1>33, <1>34, <1>35, <1>36, <1>37, <1>38, <1>39,
       <1>40, <1>41, Zenon DEF AllForms

(* What a handler calls: one call, but for those of three forms that may    *)
(* ask again; and which form edits.                                        *)
Single == {<<>>, <<"add">>, <<"set">>}
Sequel == Single \cup {<<"add", "add">>, <<"add", "set">>}
Singles ==
  {departments_handleSubmit, jobTitles_handleSubmit, handleReject,
   handleApproval, handleSaveShift, handleSaveWorksite, handleAddAdjustment,
   journal_handleSubmit, catalog_submit, handleSend, handleCreateGroup,
   submitEdit, handleSave, leave_handleSubmit, handleAddLeaveBalance,
   handleCreateManualAttendance, handleCreateLeaveType, createMutation,
   updateMutation, createCompanyMutation, admin_createCompany,
   admin_saveCompany, extendMutation, doResetPassword, handleCreatePeriod,
   handleSaveSalary, createEmployee, updateEmployee, handleCreateJobTitle,
   handleCreateShift, handleUploadDocument, handleSalarySubmit,
   profile_handleAddAdjustment, profile_handleAddAdvance, handleUpload, submitPayment,
   customer_handleSubmit, handleAck}
Doubles == {expenses_submitMutation, invoice_submitMutation, submitSale}

(* The calls of these handlers, read off the table.                       *)
LEMMA SinglesSend ==
  ASSUME NEW s \in Singles
  PROVE  s.new \in Single /\ s.row \in Single
<1>1. ASSUME NEW new \in Single, NEW row \in Single, NEW resets, NEW ends, NEW late,
             Sends(s, new, row, resets, ends, late)
      PROVE  s.new \in Single /\ s.row \in Single
  BY <1>1 DEF Sends
<1>2. <<>> \in Single /\ <<"add">> \in Single /\ <<"set">> \in Single
  BY DEF Single
<1>. QED  BY <1>1, <1>2, FormSends, Zenon DEF Singles

LEMMA DoublesSend ==
  ASSUME NEW s \in Doubles
  PROVE  s.new \in Sequel /\ s.row \in Sequel
<1>1. ASSUME NEW new \in Sequel, NEW row \in Sequel, NEW resets, NEW ends, NEW late,
             Sends(s, new, row, resets, ends, late)
      PROVE  s.new \in Sequel /\ s.row \in Sequel
  BY <1>1 DEF Sends
<1>2. /\ <<>> \in Sequel /\ <<"set">> \in Sequel
      /\ <<"add", "add">> \in Sequel /\ <<"add", "set">> \in Sequel
  BY DEF Sequel, Single
<1>. QED  BY <1>1, <1>2, FormSends, Zenon DEF Doubles

(* Every form has one of these handlers.                                  *)
LEMMA FormsHandled ==
  ASSUME NEW f \in AllForms
  PROVE  /\ f.save \in Singles \/ (f.save \in Doubles /\ f \in AsksAgain)
         /\ f.edits => f = adjustment
BY DEF Form, AllForms, Singles, Doubles, AsksAgain, department, jobTitle,
   leaveDecision, attendanceDecision, shift, worksite, adjustment, expense,
   journalEntry, invoice, sale, catalogItem, message, chatGroup

(* The same of the cases that the steps see                                *)
Directed(c) ==
  /\ ~c.edits
  /\ \A p \in c.parts :
       /\ c.row # <<>> =>
            \/ p.row
            \/ c.leavable /\ p.close /\ ~c.keeps /\ (c.ends => p.resets)
       /\ c.row # <<>> /\ c.new # <<>> =>
            \/ p.leave
            \/ IF c.leavable THEN p.new ELSE p.resets /\ \A q \in c.parts : ~q.leave
Fresh(c) ==
  c.leavable /\ c.new # <<>> =>
    ~c.edits /\ \A p \in c.parts : p.resets \/ (p.new /\ c.ends)
Once(c) ==
  \/ c.new = <<>> /\ c.row = <<"set">>
  \/ /\ c.guarded /\ ~c.late /\ c.new \in Single /\ c.row \in Single
     /\ c.mounted => ~c.edits /\ \A p \in c.parts : p.new /\ p.row

(* What is known of the calls of any case.                                *)
LEMMA CasesSend ==
  ASSUME NEW c \in Cases
  PROVE  /\ c.new \in Sequel /\ c.row \in Sequel
         /\ c.edits => c.new # <<>>
         /\ c.mounted => c.leavable
<1>1. PICK f \in AllForms : c = Case(f)
  BY DEF Cases
<1>2. /\ c.new = f.save.new /\ c.row = f.save.row /\ c.edits = f.edits
      /\ c.mounted = f.ways.mounted /\ c.leavable = (f.view.dialog \/ f.ways.mounted)
  BY <1>1 DEF Case
<1>3. c.new \in Sequel /\ c.row \in Sequel
  BY <1>2, FormsHandled, SinglesSend, DoublesSend DEF Sequel
<1>4. adjustment.save.new # <<>>
  BY FormSends DEF adjustment, Sends, Form
<1>5. c.edits => c.new # <<>>
  <2>1. f.edits => f = adjustment
    BY FormsHandled
  <2>. QED  BY <1>2, <1>4, <2>1
<1>. QED  BY <1>2, <1>3, <1>5

(* A case is as its form is.                                              *)
LEMMA CasesFit ==
  ASSUME NEW c \in Cases
  PROVE  /\ c.misdirects \/ Directed(c)
         /\ c.showsLast \/ Fresh(c)
         /\ c.asksAgain \/ Once(c)
<1>1. PICK f \in AllForms : c = Case(f)
  BY DEF Cases
<1>2. /\ c.parts = {Part(f, field) : field \in f.view.fields}
      /\ c.new = f.save.new /\ c.row = f.save.row /\ c.edits = f.edits
      /\ c.ends = f.save.ends /\ c.late = f.save.late /\ c.guarded = f.view.guarded
      /\ c.mounted = f.ways.mounted /\ c.leavable = Leavable(f)
      /\ c.keeps = ({} \in f.ways.close)
      /\ c.misdirects = (f \in Misdirects) /\ c.showsLast = (f \in ShowsLast)
      /\ c.asksAgain = (f \in AsksAgain)
  BY <1>1 DEF Case, Leavable
<1>3. ASSUME NEW p \in c.parts
      PROVE  \E x \in f.view.fields :
               /\ p.resets = (x \in f.save.resets) /\ p.new = (x \in f.ways.new)
               /\ p.row = (x \in f.ways.row) /\ p.leave = (x \in f.ways.leave)
               /\ p.close = \E w \in f.ways.close : x \in w
  <2>1. PICK x \in f.view.fields : p = Part(f, x)
    BY <1>2, <1>3
  <2>. QED  BY <2>1 DEF Part
<1>4. Fit(f)
  BY FormsFit
<1>5. c.misdirects \/ Directed(c)
  <2>. SUFFICES ASSUME Addressed(f) PROVE Directed(c)
    BY <1>2, <1>4 DEF Fit
  <2>1. ASSUME NEW p \in c.parts, c.row # <<>>
        PROVE  \/ p.row
               \/ c.leavable /\ p.close /\ ~c.keeps /\ (c.ends => p.resets)
    BY <1>2, <1>3, <2>1 DEF Addressed, AnyPlace
  <2>2. ASSUME NEW p \in c.parts, c.row # <<>>, c.new # <<>>
        PROVE  \/ p.leave
               \/ IF c.leavable THEN p.new ELSE p.resets /\ \A q \in c.parts : ~q.leave
    BY <1>2, <1>3, <2>2 DEF Addressed
  <2>. QED  BY <1>2, <2>1, <2>2 DEF Directed, Addressed
<1>6. c.showsLast \/ Fresh(c)
  BY <1>2, <1>3, <1>4 DEF Fit, Emptied, Fresh
<1>7. c.asksAgain \/ Once(c)
  <2>1. CASE f.save \in {submitEdit, updateEmployee, handleAck}
    BY <1>2, <2>1, FormSends DEF Sends, Once
  <2>2. CASE ~(f.save \in {submitEdit, updateEmployee, handleAck})
    BY <1>2, <1>3, <1>4, <2>2, FormsHandled, SinglesSend DEF Fit, AsksOnce, Once
  <2>. QED  BY <2>1, <2>2
<1>. QED  BY <1>5, <1>6, <1>7

-----------------------------------------------------------------------------
(* Where a form can be, and what is sent from it                           *)
Placed ==
  /\ target = Closed => Rest = Closed
  /\ edited # New => edited \in Targets
  /\ ~case.edits => edited = New

(* What a form can be for, by what its handler calls.                     *)
LEMMA Places ==
  /\ New \in Targets <=> case.new # <<>>
  /\ \A r \in Rows : r \in Targets <=> case.row # <<>>
  /\ Closed \notin Targets
  /\ Targets \subseteq Rows \cup {New}
  /\ New \notin Rows /\ New # Closed /\ Closed \notin Rows
  /\ Rest \in Targets \cup {Closed}
BY FormsAssumption DEF Targets, Rest

(* The case is chosen once, and so is what depends on it.                 *)
LEMMA CaseStays ==
  ASSUME case' = case
  PROVE  /\ Contents' = Contents /\ Targets' = Targets /\ Text' = Text
         /\ Job' = Job /\ Rest' = Rest
BY DEF Contents, Text, Targets, Job, Rest

(* Emptying some parts.                                                   *)
LEMMA ResetFacts ==
  ASSUME content \in Contents, NEW P
  PROVE  /\ Reset(P) \in Contents
         /\ \A p \in case.parts :
              Reset(P)[p] = IF p \in P THEN Untouched ELSE content[p]
BY DEF Reset, Contents

(* The parts by what empties them.                                        *)
LEMMA PartsFacts ==
  ASSUME NEW p \in case.parts
  PROVE  /\ p \in Parts("new") <=> p.new
         /\ p \in Parts("row") <=> p.row
         /\ p \in Parts("leave") <=> p.leave
         /\ p \in Parts("close") <=> p.close
         /\ p \in Parts("resets") <=> p.resets
BY DEF Parts

(* The jobs after a step that sends nothing: what they carry stays.        *)
Carried(js) ==
  /\ js \in Seq(Job) /\ Len(js) = Len(jobs) /\ DOMAIN js = DOMAIN jobs
  /\ \A s \in DOMAIN jobs :
       js[s].content = jobs[s].content /\ js[s].to = jobs[s].to /\ js[s].calls = jobs[s].calls

(* A document that goes takes its interest in the jobs with it.           *)
LEMMA ForgetFacts ==
  ASSUME NEW js \in Seq(Job)
  PROVE  /\ Forget(js) \in Seq(Job) /\ Len(Forget(js)) = Len(js)
         /\ DOMAIN Forget(js) = DOMAIN js
         /\ \A s \in DOMAIN js :
              /\ Forget(js)[s].content = js[s].content /\ Forget(js)[s].to = js[s].to
              /\ Forget(js)[s].calls = js[s].calls /\ Forget(js)[s].at = js[s].at
              /\ Forget(js)[s].state = js[s].state
              /\ Forget(js)[s].mine = (~case.mounted /\ js[s].mine)
<1>1. \A s \in DOMAIN js : js[s] \in Job
  OBVIOUS
<1>2. \A s \in DOMAIN js :
        /\ [js[s] EXCEPT !.mine = ~case.mounted /\ @] \in Job
        /\ [js[s] EXCEPT !.mine = ~case.mounted /\ @].content = js[s].content
        /\ [js[s] EXCEPT !.mine = ~case.mounted /\ @].to = js[s].to
        /\ [js[s] EXCEPT !.mine = ~case.mounted /\ @].calls = js[s].calls
        /\ [js[s] EXCEPT !.mine = ~case.mounted /\ @].at = js[s].at
        /\ [js[s] EXCEPT !.mine = ~case.mounted /\ @].state = js[s].state
        /\ [js[s] EXCEPT !.mine = ~case.mounted /\ @].mine = (~case.mounted /\ js[s].mine)
  BY <1>1 DEF Job
<1>3. Forget(js) \in Seq(Job) /\ Len(Forget(js)) = Len(js) /\ DOMAIN Forget(js) = DOMAIN js
  BY <1>2 DEF Forget
<1>. QED  BY <1>2, <1>3 DEF Forget

(* A job that moves on.                                                   *)
LEMMA StateFacts ==
  ASSUME jobs \in Seq(Job), NEW s \in DOMAIN jobs,
         NEW x \in {"sent", "late", "told", "refused"}
  PROVE  LET js == [jobs EXCEPT ![s].state = x] IN
         /\ Carried(js)
         /\ \A t \in DOMAIN jobs :
              /\ js[t].at = jobs[t].at /\ js[t].mine = jobs[t].mine
              /\ js[t].state = IF t = s THEN x ELSE jobs[t].state
<1>1. jobs[s] \in Job
  OBVIOUS
<1>2. [jobs[s] EXCEPT !.state = x] \in Job
  BY <1>1 DEF Job
<1>3. [jobs EXCEPT ![s].state = x] \in Seq(Job)
  BY <1>2
<1>4. \A t \in DOMAIN jobs :
        [jobs EXCEPT ![s].state = x][t] = IF t = s THEN [jobs[s] EXCEPT !.state = x] ELSE jobs[t]
  OBVIOUS
<1>. QED  BY <1>1, <1>3, <1>4 DEF Carried, Job

(* A job that makes its next call.                                        *)
LEMMA AnswerFacts ==
  ASSUME jobs \in Seq(Job), NEW s \in DOMAIN jobs
  PROVE  LET js == [jobs EXCEPT ![s].at = @ + 1] IN
         /\ Carried(js)
         /\ \A t \in DOMAIN jobs :
              /\ js[t].state = jobs[t].state /\ js[t].mine = jobs[t].mine
              /\ js[t].at = IF t = s THEN jobs[s].at + 1 ELSE jobs[t].at
<1>1. jobs[s] \in Job
  OBVIOUS
<1>2. [jobs[s] EXCEPT !.at = @ + 1] \in Job
  BY <1>1 DEF Job
<1>3. [jobs EXCEPT ![s].at = @ + 1] \in Seq(Job)
  BY <1>2
<1>4. \A t \in DOMAIN jobs :
        [jobs EXCEPT ![s].at = @ + 1][t] = IF t = s THEN [jobs[s] EXCEPT !.at = @ + 1] ELSE jobs[t]
  OBVIOUS
<1>. QED  BY <1>1, <1>3, <1>4 DEF Carried, Job

(* What each answer does to the jobs                                       *)
LEMMA LeaveJobs ==
  ASSUME TypeOK, Leave
  PROVE  /\ Carried(jobs')
         /\ \A t \in DOMAIN jobs :
              /\ jobs'[t].at = jobs[t].at /\ jobs'[t].state = jobs[t].state
              /\ jobs'[t].mine = (~case.mounted /\ jobs[t].mine)
BY ForgetFacts DEF Leave, Carried, TypeOK

LEMMA AnswerJobs ==
  ASSUME TypeOK, NEW s \in DOMAIN jobs, Answer(s)
  PROVE  /\ Carried(jobs')
         /\ \A t \in DOMAIN jobs :
              /\ jobs'[t].state = jobs[t].state /\ jobs'[t].mine = jobs[t].mine
              /\ jobs'[t].at = IF t = s THEN jobs[s].at + 1 ELSE jobs[t].at
BY AnswerFacts DEF Answer, TypeOK

LEMMA AwaitJobs ==
  ASSUME TypeOK, NEW s \in DOMAIN jobs, Await(s)
  PROVE  /\ Carried(jobs')
         /\ \A t \in DOMAIN jobs :
              /\ jobs'[t].at = jobs[t].at /\ jobs'[t].mine = jobs[t].mine
              /\ jobs'[t].state = IF t = s THEN "late" ELSE jobs[t].state
BY StateFacts DEF Await, TypeOK

LEMMA RefuseJobs ==
  ASSUME TypeOK, NEW s \in DOMAIN jobs, Refuse(s)
  PROVE  /\ Carried(jobs')
         /\ \A t \in DOMAIN jobs :
              /\ jobs'[t].at = jobs[t].at /\ jobs'[t].mine = jobs[t].mine
              /\ jobs'[t].state = IF t = s THEN "refused" ELSE jobs[t].state
BY StateFacts DEF Refuse, TypeOK

LEMMA FinishJobs ==
  ASSUME TypeOK, NEW s \in DOMAIN jobs, Finish(s)
  PROVE  /\ Carried(jobs')
         /\ \A t \in DOMAIN jobs :
              /\ jobs'[t].at = jobs[t].at
              /\ jobs'[t].mine = IF case.ends /\ case.leavable
                                 THEN ~case.mounted /\ jobs[t].mine ELSE jobs[t].mine
              /\ jobs'[t].state = IF t = s THEN "told" ELSE jobs[t].state
<1>. DEFINE told == [jobs EXCEPT ![s].state = "told"]
<1>1. /\ Carried(told)
      /\ \A t \in DOMAIN jobs :
           /\ told[t].at = jobs[t].at /\ told[t].mine = jobs[t].mine
           /\ told[t].state = IF t = s THEN "told" ELSE jobs[t].state
  BY StateFacts DEF TypeOK
<1>2. /\ Carried(Forget(told))
      /\ \A t \in DOMAIN jobs :
           /\ Forget(told)[t].at = told[t].at /\ Forget(told)[t].state = told[t].state
           /\ Forget(told)[t].mine = (~case.mounted /\ told[t].mine)
  BY <1>1, ForgetFacts DEF Carried
<1>3. jobs' = IF case.ends /\ case.leavable THEN Forget(told) ELSE told
  BY DEF Finish
<1>. HIDE DEF told
<1>. QED  BY <1>1, <1>2, <1>3

(* The job that a press makes                                              *)
Pressed == [content |-> content, to |-> Addressee, calls |-> CallsNow,
            at |-> 1, state |-> "sent", mine |-> TRUE]

(* A press adds it to the jobs.                                           *)
LEMMA PressFacts ==
  ASSUME TypeOK, Placed, target # Closed
  PROVE  /\ Pressed \in Job /\ 1 \in DOMAIN Pressed.calls
         /\ Append(jobs, Pressed) \in Seq(Job)
         /\ Len(Append(jobs, Pressed)) = Len(jobs) + 1
         /\ DOMAIN jobs = 1..Len(jobs)
         /\ DOMAIN Append(jobs, Pressed) = 1..(Len(jobs) + 1)
         /\ Append(jobs, Pressed)[Len(jobs) + 1] = Pressed
         /\ \A s \in DOMAIN jobs : Append(jobs, Pressed)[s] = jobs[s]
         /\ Len(jobs) \in Nat
<1>1. target \in Targets /\ case \in Cases /\ content \in Contents /\ jobs \in Seq(Job)
  BY DEF TypeOK
<1>2. Addressee \in Targets
  BY <1>1 DEF Addressee, Placed
<1>3. CallsNow \in {case.new, case.row} /\ CallsNow # <<>>
  <2>1. CASE target = New \/ (case.edits /\ edited = New)
    BY <1>1, <2>1, Places, CasesSend DEF CallsNow
  <2>2. CASE ~(target = New \/ (case.edits /\ edited = New))
    BY <1>1, <2>2, Places DEF CallsNow
  <2>. QED  BY <2>1, <2>2
<1>4. \A q \in Sequel \ {<<>>} : 1 \in DOMAIN q
  BY DEF Sequel, Single
<1>5. 1 \in DOMAIN CallsNow
  BY <1>1, <1>3, <1>4, CasesSend
<1>6. Pressed \in Job
  BY <1>1, <1>2, <1>3 DEF Pressed, Job
<1>7. Pressed.calls = CallsNow
  BY DEF Pressed
<1>. QED  BY <1>1, <1>5, <1>6, <1>7

(* The form as it opens.                                                  *)
LEMMA InitTyped == Init => TypeOK /\ Placed
<1>. SUFFICES ASSUME Init PROVE TypeOK /\ Placed
  OBVIOUS
<1>1. <<>> \in Seq(Job) /\ Len(<<>>) = 0 /\ DOMAIN <<>> = {}
  OBVIOUS
<1>2. content \in Contents
  BY DEF Init, Contents
<1>3. Len(jobs) <= MaxSends /\ 0 \in 0..MaxTexts
  BY <1>1, FormsAssumption DEF Init
<1>. QED  BY <1>1, <1>2, <1>3, Places DEF Init, TypeOK, Placed

(* After a step that sends nothing                                         *)
LEMMA CarriedTyped ==
  ASSUME TypeOK, Carried(jobs'), case' = case,
         \A s \in DOMAIN jobs : jobs'[s].at \in DOMAIN jobs'[s].calls
  PROVE  /\ (jobs \in Seq(Job) /\ Len(jobs) <= MaxSends)'
         /\ (\A s \in DOMAIN jobs : jobs[s].at \in DOMAIN jobs[s].calls)'
BY CaseStays DEF TypeOK, Carried

LEMMA JobsStay == TypeOK => Carried(jobs)
BY DEF TypeOK, Carried

(* Each step leaves a well-typed form that is where it can be.            *)
LEMMA StepTyped ==
  ASSUME TypeOK, Placed, [Next]_vars
  PROVE  TypeOK' /\ Placed'
<1>. DEFINE Spot ==
       /\ target' \in Targets \cup {Closed}
       /\ target' = Closed => Rest = Closed
       /\ edited' \in Rows \cup {New}
       /\ edited' # New => edited' \in Targets
       /\ ~case.edits => edited' = New
       /\ content' \in Contents /\ texts' \in 0..MaxTexts
     Sent ==
       /\ Carried(jobs')
       /\ \A s \in DOMAIN jobs : jobs'[s].at \in DOMAIN jobs'[s].calls
<1>1. ASSUME case' = case, Spot, Sent PROVE TypeOK' /\ Placed'
  <2>1. /\ (jobs \in Seq(Job) /\ Len(jobs) <= MaxSends)'
        /\ (\A s \in DOMAIN jobs : jobs[s].at \in DOMAIN jobs[s].calls)'
    BY <1>1, CarriedTyped
  <2>2. (Targets' = Targets /\ Contents' = Contents /\ Rest' = Rest) /\ case' \in Cases
    BY <1>1, CaseStays DEF TypeOK
  <2>. QED  BY <1>1, <2>1, <2>2 DEF TypeOK, Placed
<1>2. /\ \A s \in DOMAIN jobs : jobs[s] \in Job /\ jobs[s].at \in DOMAIN jobs[s].calls
      /\ \A s \in DOMAIN jobs : jobs[s].calls \in Sequel
      /\ jobs \in Seq(Job)
  <2>1. jobs \in Seq(Job) /\ \A s \in DOMAIN jobs : jobs[s].at \in DOMAIN jobs[s].calls
    BY DEF TypeOK
  <2>2. \A s \in DOMAIN jobs : jobs[s] \in Job
    BY <2>1
  <2>. QED  BY <2>1, <2>2, CasesSend DEF Job, TypeOK
<1>3. jobs' = jobs => Sent
  BY <1>2, JobsStay
<1>. USE DEF TypeOK, Placed
<1>4. ASSUME NEW t \in Targets, Choose(t) PROVE TypeOK' /\ Placed'
  <2>1. Spot
    BY <1>4, ResetFacts, Places DEF Choose
  <2>. QED  BY <1>1, <1>3, <1>4, <2>1 DEF Choose
<1>5. CASE Edit
  <2>1. Spot
    BY <1>5, ResetFacts, Places DEF Edit
  <2>. QED  BY <1>1, <1>3, <1>5, <2>1 DEF Edit
<1>6. CASE Leave
  <2>1. Spot
    BY <1>6, ResetFacts, Places DEF Leave
  <2>2. Sent
    BY <1>2, <1>6, LeaveJobs DEF Carried
  <2>. QED  BY <1>1, <1>6, <2>1, <2>2 DEF Leave
<1>7. CASE StopEditing
  <2>1. Spot
    BY <1>7, ResetFacts, Places DEF StopEditing
  <2>. QED  BY <1>1, <1>3, <1>7, <2>1 DEF StopEditing
<1>8. ASSUME NEW p \in case.parts, Type(p) PROVE TypeOK' /\ Placed'
  <2>1. [id |-> texts + 1, for |-> target] \in Text
    BY <1>8, FormsAssumption DEF Type, Text
  <2>2. content' \in Contents
    BY <1>8, <2>1 DEF Type, Contents
  <2>3. texts' \in 0..MaxTexts
    BY <1>8, FormsAssumption DEF Type
  <2>. QED  BY <1>1, <1>3, <1>8, <2>2, <2>3 DEF Type
<1>9. CASE Press
  <2>1. jobs' = Append(jobs, Pressed) /\ case' = case
    BY <1>9 DEF Press, Pressed
  <2>2. (jobs \in Seq(Job) /\ Len(jobs) <= MaxSends)'
    <3>1. Len(jobs) < MaxSends /\ target # Closed
      BY <1>9 DEF Press
    <3>. QED  BY <2>1, <3>1, PressFacts, CaseStays, FormsAssumption
  <2>3. (\A s \in DOMAIN jobs : jobs[s].at \in DOMAIN jobs[s].calls)'
    <3>1. Pressed.at = 1
      BY DEF Pressed
    <3>2. target # Closed
      BY <1>9 DEF Press
    <3>. QED  BY <2>1, <1>2, <3>1, <3>2, PressFacts
  <2>. QED  BY <1>9, <2>2, <2>3, CaseStays DEF Press
<1>10. ASSUME NEW s \in DOMAIN jobs, Answer(s) PROVE TypeOK' /\ Placed'
  <2>1. \A q \in Sequel : \A i \in DOMAIN q : i < Len(q) => i + 1 \in DOMAIN q
    BY DEF Sequel, Single
  <2>2. jobs[s].at + 1 \in DOMAIN jobs[s].calls
    BY <1>2, <1>10, <2>1 DEF Answer
  <2>3. Sent
    BY <1>2, <1>10, <2>2, AnswerJobs DEF Carried
  <2>. QED  BY <1>1, <1>10, <2>3 DEF Answer
<1>11. ASSUME NEW s \in DOMAIN jobs, Await(s) PROVE TypeOK' /\ Placed'
  <2>1. Sent
    BY <1>2, <1>11, AwaitJobs DEF Carried
  <2>. QED  BY <1>1, <1>11, <2>1 DEF Await
<1>12. ASSUME NEW s \in DOMAIN jobs, Refuse(s) PROVE TypeOK' /\ Placed'
  <2>1. Sent
    BY <1>2, <1>12, RefuseJobs DEF Carried
  <2>. QED  BY <1>1, <1>12, <2>1 DEF Refuse
<1>13. ASSUME NEW s \in DOMAIN jobs, Finish(s) PROVE TypeOK' /\ Placed'
  <2>1. Spot
    BY <1>13, ResetFacts, Places DEF Finish
  <2>2. Sent
    BY <1>2, <1>13, FinishJobs DEF Carried
  <2>. QED  BY <1>1, <1>13, <2>1, <2>2 DEF Finish
<1>14. CASE UNCHANGED vars
  BY <1>1, <1>3, <1>14 DEF vars
<1>. QED
  BY <1>4, <1>5, <1>6, <1>7, <1>8, <1>9, <1>10, <1>11, <1>12, <1>13, <1>14 DEF Next

(* Every reachable state of a form is well typed: among others a job has   *)
(* always a call to make next, and is addressed to something that the form *)
(* can be for.                                                             *)
THEOREM FormsTypes == Spec => []TypeOK
BY InitTyped, StepTyped, PTL DEF Spec

(* Only a press adds to the jobs.                                         *)
LEMMA StepCarries ==
  ASSUME TypeOK, Placed, [Next]_vars
  PROVE  case' = case /\ (Press \/ Carried(jobs'))
<1>1. jobs' = jobs => Carried(jobs')
  BY JobsStay
<1>. QED
  BY <1>1, LeaveJobs, AnswerJobs, AwaitJobs, RefuseJobs, FinishJobs
     DEF Next, Choose, Edit, Leave, StopEditing, Type, Press, Answer, Await,
         Refuse, Finish, vars

-----------------------------------------------------------------------------
(* What is in a form was typed for the record that it shows.  While it     *)
(* shows none, whatever is left in it goes when the next is chosen.        *)
RightFor(p, text, place) ==
  text # Untouched =>
    /\ place # Closed => text.for = place
    /\ place = Closed =>
         /\ case.row # <<>> => p.row
         /\ text.for \in Rows /\ case.new # <<>> => p.new
ShownWhereTyped == \A p \in case.parts : RightFor(p, content[p], target)
JobsWhereTyped ==
  \A s \in DOMAIN jobs : \A p \in case.parts :
    jobs[s].content[p] # Untouched => jobs[s].content[p].for = jobs[s].to

(* Going back to rest, with what was typed for a record                    *)
LEMMA RestsRight ==
  ASSUME TypeOK, Placed, Directed(case), target # Rest,
         NEW p \in case.parts, RightFor(p, content[p], target),
         ~(target \in Rows /\ p.leave),
         \/ case.leavable /\ (p.close => case.keeps)
         \/ ~case.leavable /\ Parts("leave") # {}
         \/ case.ends /\ ~p.resets
  PROVE  RightFor(p, content[p], Rest)
<1>1. target \in Targets /\ target # Closed
  BY DEF Placed, TypeOK
<1>2. SUFFICES ASSUME content[p] # Untouched
               PROVE  /\ Rest # Closed => content[p].for = Rest
                      /\ Rest = Closed =>
                           /\ case.row # <<>> => p.row
                           /\ content[p].for \in Rows /\ case.new # <<>> => p.new
  BY DEF RightFor
<1>3. content[p].for = target
  BY <1>1, <1>2 DEF RightFor
<1>4. CASE Rest = Closed
  <2>1. case.row # <<>> => p.row
    BY <1>4 DEF Directed
  <2>2. content[p].for \in Rows /\ case.new # <<>> => p.new
    <3>. SUFFICES ASSUME content[p].for \in Rows, case.new # <<>> PROVE p.new
      OBVIOUS
    <3>1. case.leavable
      BY <1>4, Places DEF Rest
    <3>2. target \in Rows /\ case.row # <<>>
      BY <1>1, <1>3, Places
    <3>. QED  BY <3>1, <3>2 DEF Directed
  <2>. QED  BY <1>4, <2>1, <2>2
<1>5. CASE Rest # Closed
  <2>1. ~case.leavable /\ case.new # <<>> /\ Rest = New
    BY <1>5 DEF Rest
  <2>2. target \in Rows /\ case.row # <<>>
    BY <1>1, <2>1, Places
  <2>3. p.resets /\ Parts("leave") = {}
    BY <2>1, <2>2 DEF Directed, Parts
  <2>. QED  BY <2>1, <2>3
<1>. QED  BY <1>4, <1>5

(* Choosing a record leaves nothing typed for another.                    *)
LEMMA ChosenRight ==
  ASSUME TypeOK, Directed(case), NEW t \in Targets, NEW p \in case.parts,
         RightFor(p, content[p], target),
         IF case.leavable THEN target = Closed ELSE t \in Rows,
         IF t = New THEN ~p.new ELSE ~p.row
  PROVE  RightFor(p, content[p], t)
<1>1. t \in Rows => case.row # <<>>
  BY Places
<1>2. CASE t \in Rows
  BY <1>1, <1>2, Places DEF Directed, RightFor
<1>3. CASE t = New
  <2>1. target = Closed /\ case.new # <<>> /\ ~p.new /\ t # Closed
    BY <1>3, Places
  <2>2. content[p] # Untouched => content[p].for \in Targets
    BY DEF TypeOK, Contents, Text
  <2>. QED  BY <1>3, <2>1, <2>2, Places DEF RightFor
<1>. QED  BY <1>2, <1>3, Places

(* Each step keeps what is shown, and what is sent, where it was typed.   *)
LEMMA StepDirected ==
  ASSUME TypeOK, Placed, Directed(case), ShownWhereTyped, JobsWhereTyped, [Next]_vars
  PROVE  ShownWhereTyped' /\ JobsWhereTyped'
<1>1. case' = case /\ (Press \/ Carried(jobs')) /\ content \in Contents /\ ~case.edits
  BY StepCarries DEF TypeOK, Directed
<1>2. JobsWhereTyped'
  <2>1. CASE Carried(jobs')
    BY <1>1, <2>1 DEF JobsWhereTyped, Carried
  <2>2. CASE Press
    <3>1. jobs' = Append(jobs, Pressed) /\ target # Closed
      BY <2>2 DEF Press, Pressed
    <3>2. Pressed.content = content /\ Pressed.to = target
      BY <1>1 DEF Pressed, Addressee, Placed
    <3>3. \A p \in case.parts : content[p] # Untouched => content[p].for = target
      BY <3>1 DEF ShownWhereTyped, RightFor
    <3>. QED  BY <1>1, <3>1, <3>2, <3>3, PressFacts DEF JobsWhereTyped
  <2>. QED  BY <1>1, <2>1, <2>2
<1>3. SUFFICES ASSUME NEW p \in case.parts
               PROVE  RightFor(p, content'[p], target')
  BY <1>1, <1>2 DEF ShownWhereTyped, RightFor
<1>4. RightFor(p, content[p], target) /\ RightFor(p, Untouched, target')
  BY DEF ShownWhereTyped, RightFor
<1>5. p \in Left <=> target \in Rows /\ p.leave
  BY <1>1, PartsFacts DEF Left
<1>6. ASSUME NEW t \in Targets, Choose(t) PROVE RightFor(p, content'[p], target')
  <2>1. content'[p] = IF (IF t = New THEN p.new ELSE p.row) THEN Untouched ELSE content[p]
    BY <1>1, <1>6, ResetFacts, PartsFacts DEF Choose
  <2>. QED  BY <1>4, <1>6, <2>1, ChosenRight DEF Choose
<1>7. CASE Leave
  <2>1. /\ target # Rest /\ target' = Rest
        /\ case.leavable \/ Parts("leave") # {}
        /\ \/ case.keeps /\ content' = Reset(Left)
           \/ content' = Reset(Left \cup Parts("close"))
    BY <1>7 DEF Leave
  <2>2. CASE content'[p] = Untouched
    BY <1>4, <2>2
  <2>3. CASE content'[p] # Untouched
    <3>1. content'[p] = content[p] /\ p \notin Left /\ (p.close => case.keeps)
      BY <1>1, <2>1, <2>3, ResetFacts, PartsFacts
    <3>. QED  BY <1>4, <1>5, <2>1, <3>1, RestsRight
  <2>. QED  BY <2>2, <2>3
<1>8. ASSUME NEW q \in case.parts, Type(q) PROVE RightFor(p, content'[p], target')
  <2>1. target' = target /\ target # Closed
    BY <1>8 DEF Type
  <2>2. content'[p] = IF p = q THEN [id |-> texts + 1, for |-> target] ELSE content[p]
    BY <1>1, <1>8 DEF Type, Contents
  <2>. QED  BY <1>4, <2>1, <2>2 DEF RightFor
<1>9. ASSUME NEW s \in DOMAIN jobs, Finish(s) PROVE RightFor(p, content'[p], target')
  <2>1. /\ content' = Reset(Parts("resets") \cup IF case.ends THEN Left ELSE {})
        /\ target' = IF case.ends THEN Rest ELSE target
    BY <1>1, <1>9 DEF Finish
  <2>2. CASE content'[p] = Untouched
    BY <1>4, <2>2
  <2>3. CASE content'[p] # Untouched
    <3>1. content'[p] = content[p] /\ ~p.resets /\ (case.ends => p \notin Left)
      BY <1>1, <2>1, <2>3, ResetFacts, PartsFacts
    <3>. QED  BY <1>4, <1>5, <2>1, <3>1, RestsRight
  <2>. QED  BY <2>2, <2>3
<1>10. CASE content' = content /\ target' = target
  BY <1>4, <1>10
<1>11. ~Edit /\ ~StopEditing
  BY <1>1 DEF Edit, StopEditing, Placed
<1>. QED
  BY <1>6, <1>7, <1>8, <1>9, <1>10, <1>11 DEF Next, Press, Answer, Await, Refuse,
         vars

(* What is typed while a form shows one record is never sent for another,  *)
(* for the forms that are not in Misdirects: in each of them the records   *)
(* that can follow one another reset every field, or every way back does.  *)
THEOREM FormsSentWhereTyped == Spec => []SentWhereTyped
<1>. DEFINE I == ~case.misdirects => Directed(case) /\ ShownWhereTyped /\ JobsWhereTyped
<1>1. Init => I
  <2>. SUFFICES ASSUME Init, ~case.misdirects
                PROVE  Directed(case) /\ ShownWhereTyped /\ JobsWhereTyped
    OBVIOUS
  <2>1. Directed(case)
    BY CasesFit DEF Init
  <2>. QED  BY <2>1 DEF Init, ShownWhereTyped, JobsWhereTyped, RightFor
<1>2. TypeOK /\ Placed /\ I /\ [Next]_vars => I'
  <2>. SUFFICES ASSUME TypeOK, Placed, I, [Next]_vars, ~case.misdirects
                PROVE  (Directed(case) /\ ShownWhereTyped /\ JobsWhereTyped)'
    BY StepCarries
  <2>. QED  BY StepCarries, StepDirected
<1>3. I => SentWhereTyped
  BY DEF SentWhereTyped, JobsWhereTyped
<1>. QED  BY <1>1, <1>2, <1>3, InitTyped, StepTyped, PTL DEF Spec

-----------------------------------------------------------------------------
(* Texts are numbered as they are typed, so that a new one is in no job.   *)
Numbered ==
  /\ \A p \in case.parts : content[p] # Untouched => content[p].id <= texts
  /\ \A s \in DOMAIN jobs : \A p \in case.parts :
       jobs[s].content[p] # Untouched => jobs[s].content[p].id <= texts

(* What a step does to a field                                             *)
LEMMA StepTexts ==
  ASSUME TypeOK, Placed, [Next]_vars, NEW p \in case.parts
  PROVE  /\ texts \in Nat /\ texts' \in Nat /\ texts <= texts'
         /\ \/ content'[p] \in {Untouched, content[p]}
            \/ content'[p].id = texts + 1 /\ texts' = texts + 1 /\ jobs' = jobs /\ target' = target
<1>1. texts \in Nat /\ content \in Contents
  BY FormsAssumption DEF TypeOK
<1>2. \A P : Reset(P)[p] \in {Untouched, content[p]}
  BY <1>1, ResetFacts
<1>3. CASE \E q \in case.parts : Type(q)
  <2>. PICK q \in case.parts : Type(q)
    BY <1>3
  <2>1. content'[p] = IF p = q THEN [id |-> texts + 1, for |-> target] ELSE content[p]
    BY <1>1 DEF Type, Contents
  <2>. QED  BY <1>1, <2>1 DEF Type
<1>4. CASE ~\E q \in case.parts : Type(q)
  <2>1. texts' = texts
    BY <1>4 DEF Next, Choose, Edit, Leave, StopEditing, Press, Answer, Await,
                Refuse, Finish, vars
  <2>2. ASSUME NEW t \in Targets, Choose(t) PROVE content'[p] \in {Untouched, content[p]}
    BY <1>2, <2>2 DEF Choose
  <2>3. ASSUME Edit \/ Leave \/ StopEditing PROVE content'[p] \in {Untouched, content[p]}
    BY <1>2, <2>3 DEF Edit, Leave, StopEditing
  <2>4. ASSUME NEW s \in DOMAIN jobs, Finish(s) PROVE content'[p] \in {Untouched, content[p]}
    BY <1>2, <2>4 DEF Finish
  <2>. QED
    BY <1>1, <1>4, <2>1, <2>2, <2>3, <2>4 DEF Next, Press, Answer, Await, Refuse,
           vars
<1>. QED  BY <1>3, <1>4

(* Texts are numbered in the order they are typed.                        *)
LEMMA StepNumbered ==
  ASSUME TypeOK, Placed, Numbered, [Next]_vars
  PROVE  Numbered'
<1>1. case' = case /\ (Press \/ Carried(jobs'))
  BY StepCarries
<1>2. \A p \in case.parts : content[p] # Untouched => content[p].id \in Nat
  BY DEF TypeOK, Contents, Text
<1>3. \A s \in DOMAIN jobs : jobs[s].content \in Contents
  <2>1. \A s \in DOMAIN jobs : jobs[s] \in Job
    BY DEF TypeOK
  <2>. QED  BY <2>1 DEF Job
<1>4. \A s \in DOMAIN jobs : \A p \in case.parts :
        jobs[s].content[p] # Untouched => jobs[s].content[p].id \in Nat
  BY <1>3 DEF Contents, Text
<1>5. ASSUME NEW p \in case.parts, content'[p] # Untouched PROVE content'[p].id <= texts'
  <2>1. CASE content'[p] = content[p]
    BY <1>2, <1>5, <2>1, StepTexts DEF Numbered
  <2>2. CASE content'[p] # content[p]
    BY <1>5, <2>2, StepTexts
  <2>. QED  BY <2>1, <2>2
<1>6. ASSUME NEW s \in DOMAIN jobs', NEW p \in case.parts, jobs'[s].content[p] # Untouched
      PROVE  jobs'[s].content[p].id <= texts'
  <2>1. CASE Carried(jobs')
    BY <1>4, <1>6, <2>1, StepTexts DEF Carried, Numbered
  <2>2. CASE Press
    <3>1. jobs' = Append(jobs, Pressed) /\ target # Closed /\ content' = content
      BY <2>2 DEF Press, Pressed
    <3>2. Pressed.content = content
      BY DEF Pressed
    <3>3. \/ s \in DOMAIN jobs /\ jobs'[s] = jobs[s]
          \/ jobs'[s].content = content'
      BY <1>6, <3>1, <3>2, PressFacts
    <3>. QED  BY <1>4, <1>5, <1>6, <3>3, StepTexts DEF Numbered
  <2>. QED  BY <1>1, <2>1, <2>2
<1>. QED  BY <1>1, <1>5, <1>6 DEF Numbered

LEMMA InitNumbered == Init => Numbered
BY DEF Init, Numbered

-----------------------------------------------------------------------------
(* What is done, and told to be done, is still in a form only where the    *)
(* dialog has been closed since.                                           *)
ToldGone ==
  \A s \in DOMAIN jobs : \A p \in case.parts :
    jobs[s].state = "told" /\ content[p] # Untouched /\ content[p] = jobs[s].content[p]
      => ~p.resets /\ target # New

(* Each step keeps the form fresh while it is closed.                     *)
LEMMA StepFresh ==
  ASSUME TypeOK, Placed, Numbered, ToldGone, [Next]_vars,
         Fresh(case), case.leavable, case.new # <<>>
  PROVE  ToldGone'
<1>1. /\ case' = case /\ (Press \/ Carried(jobs')) /\ ~case.edits /\ Rest = Closed /\ New # Closed
      /\ content \in Contents
      /\ \A p \in case.parts : p.resets \/ (p.new /\ case.ends)
  BY StepCarries, Places DEF Fresh, Rest, TypeOK
<1>2. SUFFICES ASSUME NEW s \in DOMAIN jobs', NEW p \in case.parts, jobs'[s].state = "told",
                      content'[p] # Untouched, content'[p] = jobs'[s].content[p]
               PROVE  ~p.resets /\ target' # New
  BY <1>1 DEF ToldGone
<1>3. CASE Press
  <2>1. jobs' = Append(jobs, Pressed) /\ target # Closed /\ content' = content /\ target' = target
    BY <1>3 DEF Press, Pressed
  <2>2. Pressed.state # "told"
    BY DEF Pressed
  <2>3. s \in DOMAIN jobs /\ jobs'[s] = jobs[s]
    BY <1>2, <2>1, <2>2, PressFacts
  <2>. QED  BY <1>2, <2>1, <2>3 DEF ToldGone
<1>4. CASE ~Press
  <2>1. /\ Carried(jobs') /\ s \in DOMAIN jobs
        /\ jobs'[s].content[p] = jobs[s].content[p]
    BY <1>1, <1>4 DEF Carried
  <2>2. content'[p] = content[p]
    BY <1>2, <2>1, StepTexts DEF Numbered
  <2>3. jobs[s].state = "told" => ~p.resets /\ target # New
    BY <1>2, <2>1, <2>2 DEF ToldGone
  <2>4. ASSUME NEW t \in Targets, Choose(t) PROVE ~p.resets /\ target' # New
    <3>1. ~p.resets
      BY <2>3, <2>4, <1>2 DEF Choose
    <3>2. t # New
      <4>. SUFFICES ASSUME t = New PROVE FALSE
        OBVIOUS
      <4>1. p.new
        BY <1>1, <3>1
      <4>2. content'[p] = Untouched
        BY <1>1, <2>4, <4>1, ResetFacts, PartsFacts DEF Choose
      <4>. QED  BY <1>2, <4>2
    <3>. QED  BY <2>4, <3>1, <3>2 DEF Choose
  <2>5. CASE Leave
    <3>1. jobs[s].state = "told" /\ target' = Rest
      BY <1>2, <2>1, <2>5, LeaveJobs DEF Leave
    <3>. QED  BY <1>1, <2>3, <3>1
  <2>6. ASSUME NEW r \in DOMAIN jobs, Finish(r) PROVE ~p.resets /\ target' # New
    <3>1. ~p.resets
      BY <1>1, <1>2, <2>6, ResetFacts, PartsFacts DEF Finish
    <3>2. target' = Rest
      BY <1>1, <2>6, <3>1 DEF Finish
    <3>. QED  BY <1>1, <3>1, <3>2
  <2>7. ASSUME NEW r \in DOMAIN jobs, Answer(r) \/ Await(r) \/ Refuse(r)
        PROVE  ~p.resets /\ target' # New
    <3>1. jobs[s].state = "told"
      BY <1>2, <2>1, <2>7, AnswerJobs, AwaitJobs, RefuseJobs
    <3>. QED  BY <2>3, <2>7, <3>1 DEF Answer, Await, Refuse
  <2>8. CASE jobs' = jobs /\ target' = target
    BY <1>2, <2>3, <2>8
  <2>. QED
    BY <1>4, <2>4, <2>5, <2>6, <2>7, <2>8 DEF Next, Edit, StopEditing, Type, vars
<1>. QED  BY <1>3, <1>4

(* A dialog that is opened for something new shows nothing that has been   *)
(* added, for the dialogs that are not in ShowsLast: each of their fields  *)
(* is reset with the good news, or whenever the dialog opens, which it     *)
(* must do again because the news has closed it.                           *)
THEOREM FormsOpensFresh == Spec => []OpensFresh
<1>. DEFINE L == case.leavable /\ case.new # <<>> /\ ~case.showsLast
     I == L => Fresh(case) /\ ToldGone
<1>1. Init => I
  <2>. SUFFICES ASSUME Init, L PROVE Fresh(case) /\ ToldGone
    OBVIOUS
  <2>1. Fresh(case)
    BY CasesFit DEF Init
  <2>. QED  BY <2>1 DEF Init, ToldGone
<1>2. TypeOK /\ Placed /\ Numbered /\ I /\ [Next]_vars => I'
  <2>. SUFFICES ASSUME TypeOK, Placed, Numbered, I, [Next]_vars, L
                PROVE  (Fresh(case) /\ ToldGone)'
    BY StepCarries
  <2>. QED  BY StepCarries, StepFresh
<1>3. TypeOK /\ I => OpensFresh
  BY Places DEF OpensFresh, ToldGone, TypeOK
<1>. QED
  BY <1>1, <1>2, <1>3, InitTyped, StepTyped, InitNumbered, StepNumbered, PTL DEF Spec

-----------------------------------------------------------------------------
(* While a call is under way its form is either the one that sent it, and  *)
(* its button disabled, or mounted anew since, and filled in anew.         *)
Apart ==
  \A s, t \in DOMAIN jobs :
    s # t /\ jobs[s].state = "sent" /\ jobs[t].state = "sent"
      => jobs[s].content # jobs[t].content
Forgotten ==
  \A s \in DOMAIN jobs :
    jobs[s].state = "sent" /\ ~jobs[s].mine =>
      /\ case.mounted
      /\ target # Closed =>
           \A p \in case.parts : content[p] # Untouched => content[p] # jobs[s].content[p]
NoneLate == \A s \in DOMAIN jobs : jobs[s].state # "late"

(* A form whose every call is guarded, and that begins empty when mounted  *)
GuardHolds(c) ==
  /\ c.guarded /\ ~c.late
  /\ c.mounted => ~c.edits /\ \A p \in c.parts : p.new /\ p.row

(* Each step keeps what a call under way carries out of the form mounted  *)
(* since.                                                                 *)
LEMMA StepForgotten ==
  ASSUME TypeOK, Placed, Numbered, Forgotten, GuardHolds(case), [Next]_vars
  PROVE  Forgotten'
<1>1. case' = case /\ (Press \/ Carried(jobs')) /\ content \in Contents
  BY StepCarries DEF TypeOK
<1>2. SUFFICES ASSUME NEW s \in DOMAIN jobs', jobs'[s].state = "sent", ~jobs'[s].mine
               PROVE  /\ case.mounted
                      /\ target' # Closed => \A p \in case.parts :
                            content'[p] # Untouched => content'[p] # jobs'[s].content[p]
  BY <1>1 DEF Forgotten
<1>3. CASE Press
  <2>1. jobs' = Append(jobs, Pressed) /\ target # Closed /\ content' = content /\ target' = target
    BY <1>3 DEF Press, Pressed
  <2>2. Pressed.mine
    BY DEF Pressed
  <2>3. s \in DOMAIN jobs /\ jobs'[s] = jobs[s]
    BY <1>2, <2>1, <2>2, PressFacts
  <2>. QED  BY <1>2, <2>1, <2>3 DEF Forgotten
<1>4. CASE ~Press
  <2>1. Carried(jobs') /\ s \in DOMAIN jobs /\ jobs'[s].content = jobs[s].content
    BY <1>1, <1>4 DEF Carried
  <2>2. \A p \in case.parts :
          content'[p] = jobs[s].content[p] /\ content'[p] # Untouched => content'[p] = content[p]
    BY <2>1, StepTexts DEF Numbered
  <2>3. ASSUME jobs[s].state = "sent", ~jobs[s].mine, target # Closed
        PROVE  /\ case.mounted
               /\ \A p \in case.parts :
                    content'[p] # Untouched => content'[p] # jobs'[s].content[p]
    BY <2>1, <2>2, <2>3 DEF Forgotten
  <2>4. ASSUME NEW t \in Targets, Choose(t), target = Closed, case.mounted,
               NEW p \in case.parts
        PROVE  content'[p] = Untouched
    <3>1. p.new /\ p.row /\ ~case.edits
      BY <2>4 DEF GuardHolds
    <3>. QED  BY <1>1, <2>4, <3>1, ResetFacts, PartsFacts DEF Choose
  <2>5. ASSUME NEW t \in Targets, Choose(t)
        PROVE  /\ case.mounted
               /\ \A p \in case.parts :
                    content'[p] # Untouched => content'[p] # jobs'[s].content[p]
    <3>1. jobs[s].state = "sent" /\ ~jobs[s].mine /\ case.mounted
      BY <1>2, <2>1, <2>5 DEF Choose, Forgotten
    <3>. QED  BY <2>3, <2>4, <2>5, <3>1
  <2>6. CASE Leave
    <3>1. \/ jobs[s].state = "sent" /\ ~jobs[s].mine
          \/ case.mounted
      BY <1>2, <2>1, <2>6, LeaveJobs
    <3>2. case.mounted
      BY <2>1, <2>6, <3>1, LeaveJobs, <1>2 DEF Forgotten
    <3>3. target' = Closed
      BY <1>1, <2>6, <3>2, CasesSend DEF Leave, Rest, TypeOK
    <3>. QED  BY <3>2, <3>3
  <2>7. ASSUME NEW r \in DOMAIN jobs, Finish(r)
        PROVE  /\ case.mounted
               /\ target' # Closed => \A p \in case.parts :
                     content'[p] # Untouched => content'[p] # jobs'[s].content[p]
    <3>1. jobs[s].state = "sent" /\ (~jobs[s].mine \/ (case.mounted /\ case.ends))
      BY <1>2, <2>1, <2>7, FinishJobs
    <3>2. case.mounted
      BY <2>1, <3>1 DEF Forgotten
    <3>3. case.ends => target' = Closed
      BY <2>7, <3>2, CasesSend DEF Finish, Rest, TypeOK, GuardHolds
    <3>4. ~case.ends => target' = target
      BY <2>7 DEF Finish
    <3>. QED  BY <2>3, <3>1, <3>2, <3>3, <3>4
  <2>8. ASSUME NEW r \in DOMAIN jobs, Answer(r) \/ Await(r) \/ Refuse(r)
        PROVE  jobs[s].state = "sent" /\ ~jobs[s].mine /\ target' = target
    BY <1>2, <2>1, <2>8, AnswerJobs, AwaitJobs, RefuseJobs DEF Answer, Await, Refuse
  <2>9. ASSUME jobs[s].state = "sent", ~jobs[s].mine, target' = target
        PROVE  /\ case.mounted
               /\ target' # Closed => \A p \in case.parts :
                     content'[p] # Untouched => content'[p] # jobs'[s].content[p]
    BY <2>1, <2>3, <2>9 DEF Forgotten
  <2>10. CASE jobs' = jobs /\ target' = target
    BY <1>2, <2>9, <2>10
  <2>. QED
    BY <1>4, <2>5, <2>6, <2>7, <2>8, <2>9, <2>10 DEF Next, Edit, StopEditing, Type,
           vars
<1>. QED  BY <1>3, <1>4

(* Two jobs of one text only where the first was refused.                 *)
LEMMA StepApart ==
  ASSUME TypeOK, Placed, Forgotten, Apart, NoneLate, GuardHolds(case), [Next]_vars
  PROVE  Apart' /\ NoneLate'
<1>1. case' = case
  BY StepCarries
<1>2. CASE Press
  <2>1. /\ jobs' = Append(jobs, Pressed) /\ target # Closed /\ ~Pending
        /\ \E p \in case.parts : content[p] # Untouched
    BY <1>2 DEF Press, Pressed, GuardHolds
  <2>2. Pressed.state = "sent" /\ Pressed.content = content
    BY DEF Pressed
  <2>3. \A s \in DOMAIN jobs : jobs[s].state = "sent" => jobs[s].content # content
    BY <2>1 DEF Pending, Forgotten
  <2>4. Apart'
    BY <2>1, <2>2, <2>3, PressFacts DEF Apart
  <2>5. NoneLate'
    BY <2>1, <2>2, PressFacts DEF NoneLate
  <2>. QED  BY <2>4, <2>5
<1>3. CASE ~Press
  <2>1. Carried(jobs')
    BY <1>3, StepCarries
  <2>2. \A s \in DOMAIN jobs :
          jobs'[s].state = jobs[s].state \/ jobs'[s].state \in {"told", "refused"}
    <3>1. \A s \in DOMAIN jobs : ~Await(s)
      BY DEF Await, GuardHolds
    <3>. QED
      BY <1>3, <3>1, LeaveJobs, AnswerJobs, RefuseJobs, FinishJobs
         DEF Next, Choose, Edit, StopEditing, Type, vars
  <2>. QED  BY <2>1, <2>2 DEF Carried, Apart, NoneLate
<1>. QED  BY <1>2, <1>3

(* What has been filled in once is asked for once, until its visitor is    *)
(* told, for the forms that are not in AsksAgain.                          *)
THEOREM FormsAskedOnce == Spec => []AskedOnce
<1>. DEFINE L == ~case.asksAgain /\ GuardHolds(case)
     I == L => Forgotten /\ Apart /\ NoneLate
<1>1. Init => I
  BY DEF Init, Forgotten, Apart, NoneLate
<1>2. TypeOK /\ Placed /\ Numbered /\ I /\ [Next]_vars => I'
  <2>. SUFFICES ASSUME TypeOK, Placed, Numbered, I, [Next]_vars, L
                PROVE  (Forgotten /\ Apart /\ NoneLate)'
    BY StepCarries
  <2>. QED  BY StepForgotten, StepApart
<1>3. TypeOK /\ I => AskedOnce
  <2>. SUFFICES ASSUME TypeOK, I, ~case.asksAgain,
                       NEW s \in DOMAIN jobs, NEW t \in DOMAIN jobs,
                       s # t, jobs[s].content = jobs[t].content,
                       NEW i \in Asked(jobs[s]) \cap Asked(jobs[t])
                PROVE  FALSE
    BY DEF AskedOnce
  <2>1. \A u \in DOMAIN jobs :
          /\ jobs[u] \in Job /\ jobs[u].at \in DOMAIN jobs[u].calls
          /\ jobs[u].calls \in {case.new, case.row}
    <3>1. \A u \in DOMAIN jobs : jobs[u] \in Job /\ jobs[u].at \in DOMAIN jobs[u].calls
      BY DEF TypeOK
    <3>. QED  BY <3>1 DEF Job
  <2>2. Once(case)
    BY CasesFit DEF TypeOK
  <2>3. \A q \in Single : \A k \in DOMAIN q : k = 1
    BY DEF Single
  <2>4. CASE case.new = <<>> /\ case.row = <<"set">>
    <3>1. jobs[s].calls = <<"set">> \/ jobs[s].calls = <<>>
      BY <2>1, <2>4
    <3>. QED  BY <3>1 DEF Asked
  <2>5. CASE ~(case.new = <<>> /\ case.row = <<"set">>)
    <3>1. L /\ case.new \in Single /\ case.row \in Single
      BY <2>2, <2>5 DEF Once, GuardHolds
    <3>2. \A u \in {s, t} : i = 1 /\ jobs[u].at = 1
      BY <2>1, <2>3, <3>1 DEF Asked
    <3>3. \A u \in {s, t} : jobs[u].state \notin {"told", "refused", "late"}
      BY <3>1, <3>2 DEF Asked, NoneLate
    <3>4. jobs[s].state = "sent" /\ jobs[t].state = "sent"
      BY <2>1, <3>3 DEF Job
    <3>. QED  BY <3>1, <3>4 DEF Apart
  <2>. QED  BY <2>4, <2>5
<1>. QED
  BY <1>1, <1>2, <1>3, InitTyped, StepTyped, InitNumbered, StepNumbered, PTL DEF Spec

-----------------------------------------------------------------------------
(* Navigation: its accounts stand for their roles.                         *)

-----------------------------------------------------------------------------
(* Everything a redirect leads to is a page of the router.                 *)
LEMMA RoutedPages ==
  /\ {"/dashboard", "/analytics/hr", "/analytics/finance", "/employee/self-service",
      "/superadmin", "/setup/templates"} \subseteq router \ {"/login"}
  /\ "/login" \in router
BY DEF router, SuperArea, AuthArea, Insights, SelfService

LEMMA HomeRouted ==
  ASSUME NEW role \in Role
  PROVE  getDefaultPathForRole(role) \in router \ {"/login"}
<1>1. CASE role \in Unrestricted
  BY <1>1, RoutedPages DEF getDefaultPathForRole, Unrestricted
<1>2. CASE role = "hr"
  BY <1>2, RoutedPages DEF getDefaultPathForRole, Unrestricted
<1>3. CASE role = "accountant"
  BY <1>3, RoutedPages DEF getDefaultPathForRole, Unrestricted
<1>4. CASE role = "employee"
  BY <1>4, RoutedPages DEF getDefaultPathForRole, Unrestricted
<1>. QED  BY <1>1, <1>2, <1>3, <1>4 DEF Role, Unrestricted

LEMMA ForwardRouted ==
  ASSUME NEW p \in DOMAIN Forward
  PROVE  Forward[p] \in router \ {"/login"}
BY RoutedPages DEF Forward

LEMMA HomeIsRole == ASSUME NEW u PROVE resolvePrimaryRole(u) \in Role
BY DEF resolvePrimaryRole, Role

LEMMA TargetRouted ==
  ASSUME NavTypeOK, NEW p
  PROVE  Target(p) \in router
<1>1. Home \in router
  BY HomeRouted, HomeIsRole DEF Home
<1>2. from \in router
  BY DEF NavTypeOK
<1>. QED  BY <1>1, <1>2, ForwardRouted, RoutedPages, Zenon DEF Target

-----------------------------------------------------------------------------
(* Type correctness                                                        *)
Fetched == asks' \in Account \cup {NoOne, NoFetch} /\ failed' \in BOOLEAN

LEMMA UseMeTyped ==
  ASSUME NavTypeOK, NEW p, NEW t \in Account \cup {NoOne}, useMe(p, t)
  PROVE  Fetched
BY DEF NavTypeOK, useMe, Fetched

LEMMA LoadTyped ==
  ASSUME NavTypeOK, NEW p \in Path, NEW t \in Account \cup {NoOne}, Load(p, t),
         tokens' \in Account \cup {NoOne}
  PROVE  NavTypeOK'
<1>1. "/" \in router \ {"/login"}
  BY DEF router, AuthArea
<1>. QED  BY <1>1 DEF NavTypeOK, Load

LEMMA NavInitTyped == NavInit => NavTypeOK
<1>1. "/" \in router \ {"/login"} /\ "/login" \in Path
  BY DEF router, AuthArea, Path
<1>. QED  BY <1>1 DEF NavInit, NavTypeOK

LEMMA NavStepTyped ==
  ASSUME NavTypeOK, [NavNext]_navVars
  PROVE  NavTypeOK'
<1>1. "/" \in router \ {"/login"} /\ "/login" \in Path /\ router \subseteq Path
  BY DEF router, AuthArea, Path
<1>2. CASE Redirect
  <2>1. path' \in router
    BY <1>2, TargetRouted DEF Redirect
  <2>2. Fetched
    BY <1>2, UseMeTyped DEF Redirect, NavTypeOK
  <2>3. from' \in router \ {"/login"}
    BY <1>1, <1>2 DEF Redirect, Guarded
  <2>. QED  BY <1>1, <1>2, <2>1, <2>2, <2>3 DEF Redirect, NavTypeOK, Fetched
<1>3. CASE MeOk
  BY <1>3 DEF MeOk, NavTypeOK, nav
<1>4. CASE MeFail
  BY <1>4 DEF MeFail, NavTypeOK, nav
<1>5. CASE MeResent
  BY <1>5 DEF MeResent, NavTypeOK, nav
<1>6. CASE Refused
  BY <1>1, <1>6, LoadTyped DEF Refused
<1>7. CASE Stale
  BY <1>7 DEF Stale, NavTypeOK, nav
<1>8. CASE Collect
  BY <1>8 DEF Collect, NavTypeOK, nav
<1>9. CASE SignOut
  BY <1>1, <1>9 DEF SignOut, NavTypeOK
<1>10. ASSUME NEW u \in Account, SignIn(u) PROVE NavTypeOK'
  <2>1. Fetched
    BY <1>10, UseMeTyped DEF SignIn
  <2>2. path' \in Path
    BY <1>1, <1>10 DEF SignIn, NavTypeOK
  <2>. QED  BY <1>1, <1>10, <2>1, <2>2 DEF SignIn, NavTypeOK, Fetched
<1>11. ASSUME NEW p \in Path, Enter(p) PROVE NavTypeOK'
  BY <1>11, LoadTyped DEF Enter, NavTypeOK
<1>12. ASSUME NEW l \in Path \cup {"/admin"}, Click(l) PROVE NavTypeOK'
  <2>1. l \in Path
    BY DEF Path, router, AuthArea, Forward
  <2>2. Fetched
    BY <1>12, UseMeTyped DEF Click, NavTypeOK
  <2>. QED  BY <1>12, <2>1, <2>2 DEF Click, NavTypeOK, Fetched
<1>13. CASE UNCHANGED navVars
  BY <1>13 DEF navVars, nav, NavTypeOK
<1>. QED
  BY <1>2, <1>3, <1>4, <1>5, <1>6, <1>7, <1>8, <1>9, <1>10, <1>11, <1>12, <1>13
     DEF NavNext, MeAnswer

(* Every reachable state of a tab is well typed; in particular a redirect  *)
(* of a guard only ever leads to a page of the router.                     *)
THEOREM NavigationTypes == NavSpec => []NavTypeOK
BY NavInitTyped, NavStepTyped, PTL DEF NavSpec

-----------------------------------------------------------------------------
(* The answer in the cache, and the one to come, are the visitor's.  When  *)
(* nobody is signed in neither is anybody's, so that the next to sign in   *)
(* finds no role of another.                                               *)
OwnJudged ==
  ~reused => me \in {NoOne, tokens} /\ asks \in {NoOne, NoFetch, tokens}

LEMMA InitOwn == NavInit => OwnJudged
BY DEF NavInit, OwnJudged

LEMMA UseMeOwn ==
  ASSUME NEW p, NEW t, useMe(p, t)
  PROVE  asks' \in {asks, t}
BY DEF useMe

LEMMA StepOwn ==
  ASSUME NavTypeOK, OwnJudged, [NavNext]_navVars
  PROVE  OwnJudged'
<1>. USE NavigationAssumption DEF NavigationAssumption
<1>1. CASE Redirect
  BY <1>1, UseMeOwn DEF Redirect, OwnJudged
<1>2. CASE MeOk
  BY <1>2 DEF MeOk, OwnJudged, NavTypeOK
<1>3. CASE MeFail
  BY <1>3 DEF MeFail, OwnJudged
<1>4. CASE MeResent
  BY <1>4 DEF MeResent, OwnJudged
<1>5. CASE Refused
  BY <1>5 DEF Refused, Load, OwnJudged
<1>6. CASE Stale
  BY <1>6 DEF Stale, OwnJudged
<1>7. CASE Collect
  BY <1>7 DEF Collect, OwnJudged
<1>8. CASE SignOut
  BY <1>8 DEF SignOut, OwnJudged
<1>9. ASSUME NEW u \in Account, SignIn(u) PROVE OwnJudged'
  BY <1>9, UseMeOwn DEF SignIn, OwnJudged
<1>10. ASSUME NEW p \in Path, Enter(p) PROVE OwnJudged'
  BY <1>10 DEF Enter, Load, OwnJudged
<1>11. ASSUME NEW l \in Path \cup {"/admin"}, Click(l) PROVE OwnJudged'
  BY <1>11, UseMeOwn DEF Click, OwnJudged
<1>12. CASE UNCHANGED navVars
  BY <1>12 DEF navVars, OwnJudged
<1>. QED
  BY <1>1, <1>2, <1>3, <1>4, <1>5, <1>6, <1>7, <1>8, <1>9, <1>10, <1>11, <1>12
     DEF NavNext, MeAnswer

(* The guards and menus judge a visitor by his own role, unless he signed  *)
(* in after a sign-out in the same document: useMe keeps the answer to /me *)
(* over it, and nothing else carries a role from one account to another.   *)
THEOREM NavigationJudgedByOwnRole ==
  NavSpec => []JudgedByOwnRole
<1>1. OwnJudged => JudgedByOwnRole
  BY DEF OwnJudged, JudgedByOwnRole
<1>. QED  BY <1>1, NavInitTyped, NavStepTyped, InitOwn, StepOwn, PTL DEF NavSpec

(* RequireSuperUser and the paths that roleAccess.ts reserves let nobody   *)
(* of a company see the platform's pages, the same exception made.         *)
THEOREM NavigationPlatformOnly ==
  NavSpec => []PlatformOnly
<1>1. ASSUME NavTypeOK, OwnJudged
      PROVE  PlatformOnly
  <2>. SUFFICES ASSUME Shown(path), path \in SuperArea \cup {"/admin/audit-logs"},
                       ~reused
                PROVE  tokens = "superuser"
    BY DEF PlatformOnly, Settled
  <2>1. path # "/login"
    BY DEF SuperArea
  <2>2. tokens # NoOne /\ me # NoOne /\ Allows(path)
    BY <2>1 DEF Shown
  <2>3. me = "superuser"
    BY <2>2 DEF Allows, isPathAllowedForRole, StartsWithAdmin
  <2>. QED  BY <2>2, <2>3, <1>1 DEF OwnJudged
<1>. QED  BY <1>1, NavInitTyped, NavStepTyped, InitOwn, StepOwn, PTL DEF NavSpec

-----------------------------------------------------------------------------
(* The pages that the guards let a role see, and where a link leads        *)
Reach(role) == ROLE_ALLOWED_PATHS(role) \cup ROLE_ALLOWED_PREFIXES(role)
HrReach == SelfService \cup HrPages
  \cup {"/analytics/hr", "/users", "/hr/employees/:id", "/payroll/periods/:id"}
BooksReach == SelfService \cup BookPages
  \cup {"/analytics/finance", "/analytics/alerts", "/analytics/cash-forecast",
        "/accounting/journal-entries/:id", "/customers/:id/edit", "/invoices/:id",
        "/invoices/:id/edit"}

LEMMA Reaches ==
  /\ ROLE_ALLOWED_PATHS("hr") \subseteq HrReach /\ Reach("hr") = HrReach
  /\ ROLE_ALLOWED_PATHS("accountant") \subseteq BooksReach /\ Reach("accountant") = BooksReach
  /\ ROLE_ALLOWED_PATHS("employee") = SelfService /\ Reach("employee") = SelfService
BY DEF Reach, HrReach, BooksReach, ROLE_ALLOWED_PATHS, ROLE_ALLOWED_PREFIXES,
       Unrestricted

(* A page of the router that everybody who may see it can stay on          *)
Plain == AuthArea \ (DOMAIN Forward \cup {"/", "/admin/audit-logs"})

LEMMA PlainPages ==
  /\ Plain \subseteq Guarded /\ Plain \cap SuperArea = {}
  /\ Plain \cap (DOMAIN Forward \cup {"/"}) = {} /\ Plain \cap StartsWithAdmin = {}
<1>1. Plain \cap SuperArea = {}
  BY DEF Plain, AuthArea, SuperArea, SelfService, HrPages, BookPages,
         Reports, Insights, Parametric, Forward
<1>2. "/login" \notin Plain
  BY DEF Plain, AuthArea, SelfService, HrPages, BookPages, Reports,
         Insights, Parametric, Forward
<1>. QED  BY <1>1, <1>2 DEF Plain, Guarded, router, Forward, StartsWithAdmin

LEMMA PlainSets ==
  /\ SelfService \subseteq Plain /\ HrPages \subseteq Plain /\ BookPages \subseteq Plain
  /\ Insights \subseteq Plain /\ Parametric \subseteq Plain
  /\ {"/dashboard", "/users", "/setup/templates", "/setup/progress"} \subseteq Plain
BY DEF Plain, AuthArea, SelfService, HrPages, BookPages, Reports,
       Insights, Parametric, Forward

LEMMA PlainReach == HrReach \subseteq Plain /\ BooksReach \subseteq Plain
BY PlainSets DEF HrReach, BooksReach, Insights, Parametric

-----------------------------------------------------------------------------
(* The lists of the three roles that do not see everything                 *)
LEMMA Lists ==
  /\ \A s : HrOr("hr", s) = buildHrSidebarLinks /\ Own("hr", s) = buildHrSidebarLinks
  /\ \A s : HrOr("accountant", s) = s /\ HrOr("employee", s) = s
  /\ \A s : Own("accountant", s) = Narrowed(s, "accountant") /\ Own("employee", s) = SelfService
  /\ \A s : Narrowed(s, "accountant") \subseteq BooksReach
  /\ \A s : Narrowed(s, "employee") \subseteq SelfService
BY Reaches DEF HrOr, Own, EmployeeLinks, Narrowed, Unrestricted

LEMMA HrLinks ==
  ASSUME NEW p \in HrReach
  PROVE  Links(p, "hr") \subseteq HrReach
<1>1. p \notin SuperArea
  BY DEF HrReach, SuperArea, SelfService, HrPages
<1>2. Sidebar(p, "hr") = buildHrSidebarLinks
  BY <1>1, Lists
     DEF HrReach, SelfService, HrPages, Sidebar, SelfAttendanceLinks,
         LeaveBalanceLinks, LeaveMyRequestsLinks, LeaveRequestLinks,
         UsersLinks, AttendanceLinks, EmployeesLinks, HRActionsLinks,
         HRDashboardLinks, LeaveInboxLinks, PoliciesLinks, JobTitlesLinks,
         ShellLinks
<1>3. buildHrSidebarLinks \subseteq HrReach
  BY DEF buildHrSidebarLinks, HrReach
<1>4. Buttons(p) \subseteq HrReach
  BY <1>1 DEF HrReach, SelfService, HrPages, Buttons
<1>5. TopbarQuickActions \subseteq HrReach
  BY DEF TopbarQuickActions, Personal, HrReach, SelfService
<1>. QED  BY <1>2, <1>3, <1>4, <1>5 DEF Links

LEMMA BooksLinks ==
  ASSUME NEW p \in BooksReach
  PROVE  Links(p, "accountant") \subseteq BooksReach
<1>1. p \notin SuperArea
  BY DEF BooksReach, SuperArea, SelfService, BookPages, Reports
<1>2. Sidebar(p, "accountant") \subseteq BooksReach
  BY <1>1, Lists
     DEF BooksReach, SelfService, BookPages, Reports, Sidebar,
         SelfAttendanceLinks, LeaveBalanceLinks, LeaveMyRequestsLinks,
         LeaveRequestLinks, ShellLinks, TrialBalanceLinks,
         GeneralLedgerLinks, ProfitLossLinks, BalanceSheetLinks,
         ExpensesLinks, JournalEntriesLinks, JournalEntryLinks,
         CollectionsLinks, FinanceDashboardLinks, CashForecastLinks
<1>3. Buttons(p) \subseteq BooksReach
  BY <1>1 DEF BooksReach, SelfService, BookPages, Reports, Buttons
<1>4. TopbarQuickActions \subseteq BooksReach
  BY DEF TopbarQuickActions, Personal, BooksReach, SelfService
<1>. QED  BY <1>2, <1>3, <1>4 DEF Links

LEMMA OwnLinks ==
  ASSUME NEW p \in SelfService
  PROVE  Links(p, "employee") \subseteq SelfService
<1>1. p \notin SuperArea
  BY DEF SuperArea, SelfService
<1>2. Sidebar(p, "employee") \subseteq SelfService
  BY <1>1, Lists
     DEF SelfService, Sidebar, SelfAttendanceLinks, LeaveBalanceLinks,
         LeaveMyRequestsLinks, LeaveRequestLinks, ShellLinks
<1>3. Buttons(p) \subseteq SelfService
  BY <1>1 DEF SelfService, Buttons
<1>4. TopbarQuickActions \subseteq SelfService
  BY DEF TopbarQuickActions, Personal, SelfService
<1>. QED  BY <1>2, <1>3, <1>4 DEF Links

(* The lists of those who see everything name pages of the router, or      *)
(* former ones; those of the platform only on its own pages, or as /admin  *)
(* on the dashboard of a superuser.                                        *)
Offered == Plain \cup Unrouted \cup {"/admin/audit-logs"}

LEMMA OfferedSets ==
  /\ Everywhere \subseteq Offered /\ Selling \subseteq Offered /\ Personal \subseteq Offered
  /\ AccountingSetup \subseteq Offered /\ FormerReports \subseteq Offered
  /\ Complete \subseteq Offered /\ buildHrSidebarLinks \subseteq Offered
  /\ \A s : s \subseteq Offered => Former(s) \subseteq Offered
<1>1. Everywhere \subseteq Offered
  BY PlainSets DEF Everywhere, Offered
<1>2. Selling \subseteq Offered /\ Personal \subseteq Offered
  BY PlainSets DEF Selling, Personal, Offered, SelfService, BookPages
<1>3. AccountingSetup \subseteq Offered /\ FormerReports \subseteq Offered
  BY DEF Offered, Unrouted
<1>4. buildHrSidebarLinks \subseteq Offered
  BY PlainSets DEF buildHrSidebarLinks, Offered
<1>. QED  BY <1>1, <1>2, <1>3, <1>4 DEF Complete, Former

LEMMA SidebarOffered ==
  ASSUME NEW p, NEW role
  PROVE  \/ Sidebar(p, role) \subseteq Offered
         \/ p = "/dashboard" /\ Sidebar(p, role) = DashboardLinks(role)
         \/ p \in SuperArea /\ Sidebar(p, role) = SuperAdminLinks
<1>1. ASSUME NEW s, s \subseteq Offered
      PROVE  HrOr(role, s) \subseteq Offered /\ Narrowed(s, role) \subseteq Offered
  BY <1>1, OfferedSets DEF HrOr, Narrowed
<1>2. ASSUME NEW s, s \subseteq Offered
      PROVE  Own(role, s) \subseteq Offered
  BY <1>1, <1>2, PlainSets DEF Own, EmployeeLinks, Offered
<1>3. SetupLinks(role) \subseteq Offered
  BY OfferedSets DEF SetupLinks, Offered, Unrouted
<1>4. JobTitlesNavLinks \subseteq Offered
  BY OfferedSets DEF JobTitlesNavLinks, Offered, Unrouted
<1>5. /\ SelfAttendanceLinks(role) \subseteq Offered /\ LeaveBalanceLinks(role) \subseteq Offered
      /\ LeaveMyRequestsLinks(role) \subseteq Offered /\ LeaveRequestLinks(role) \subseteq Offered
  BY <1>2, OfferedSets
     DEF SelfAttendanceLinks, LeaveBalanceLinks, LeaveMyRequestsLinks,
         LeaveMyRequestsNavLinks, LeaveRequestLinks, LeaveRequestNavLinks
<1>6. /\ UsersLinks(role) \subseteq Offered /\ AttendanceLinks(role) \subseteq Offered
      /\ EmployeesLinks(role) \subseteq Offered /\ HRActionsLinks(role) \subseteq Offered
      /\ HRDashboardLinks(role) \subseteq Offered /\ LeaveInboxLinks(role) \subseteq Offered
      /\ PoliciesLinks(role) \subseteq Offered /\ JobTitlesLinks(role) \subseteq Offered
      /\ ShellLinks(role) \subseteq Offered /\ CEODashboardLinks(role) \subseteq Offered
  BY <1>1, <1>4, OfferedSets
     DEF UsersLinks, AttendanceLinks, EmployeesLinks, EmployeesNavLinks,
         HRActionsLinks, HRActionsNavLinks, HRDashboardLinks,
         HRDashboardNavLinks, LeaveInboxLinks, LeaveInboxNavLinks,
         PoliciesLinks, JobTitlesLinks, ShellLinks, CEODashboardLinks
<1>7. /\ TrialBalanceLinks(role) \subseteq Offered /\ GeneralLedgerLinks(role) \subseteq Offered
      /\ ProfitLossLinks(role) \subseteq Offered /\ BalanceSheetLinks(role) \subseteq Offered
      /\ ExpensesLinks(role) \subseteq Offered /\ JournalEntriesLinks(role) \subseteq Offered
      /\ JournalEntryLinks(role) \subseteq Offered /\ CollectionsLinks(role) \subseteq Offered
      /\ FinanceDashboardLinks(role) \subseteq Offered /\ CashForecastLinks(role) \subseteq Offered
  BY <1>1, OfferedSets
     DEF TrialBalanceLinks, TrialBalanceNavLinks, GeneralLedgerLinks,
         GeneralLedgerNavLinks, ProfitLossLinks, ProfitLossNavLinks,
         BalanceSheetLinks, BalanceSheetNavLinks, ExpensesLinks,
         ExpensesNavLinks, JournalEntriesLinks, JournalEntriesNavLinks,
         JournalEntryLinks, JournalEntryNavLinks, CollectionsLinks,
         CollectionsNavLinks, FinanceDashboardLinks,
         FinanceDashboardNavLinks, CashForecastLinks, CashForecastNavLinks
<1>. QED  BY <1>3, <1>5, <1>6, <1>7 DEF Sidebar

-----------------------------------------------------------------------------
(* Where a link leads, and that a role may stay there                      *)
Dest(l) == IF l \in DOMAIN Forward THEN Forward[l] ELSE l
Stays(p, role) ==
  /\ p \in Guarded
  /\ IF p \in SuperArea THEN role = "superuser"
     ELSE isPathAllowedForRole(p, role) /\ p \notin DOMAIN Forward \cup {"/"}
Leads(l, role) ==
  /\ l \in Guarded /\ Stays(Dest(l), role)
  /\ l \in DOMAIN Forward => l \notin SuperArea /\ isPathAllowedForRole(l, role)

LEMMA PlainLeads ==
  ASSUME NEW l \in Plain, NEW role, role \in Unrestricted \/ l \in Reach(role)
  PROVE  Leads(l, role)
<1>1. isPathAllowedForRole(l, role)
  BY PlainPages DEF isPathAllowedForRole, Reach
<1>. QED  BY <1>1, PlainPages DEF Leads, Stays, Dest

LEMMA PlatformLeads ==
  /\ \A l \in SuperArea : Leads(l, "superuser")
  /\ Leads("/admin", "superuser") /\ Leads("/admin/audit-logs", "superuser")
<1>1. /\ "/admin" \in Guarded /\ "/admin/audit-logs" \in Guarded /\ SuperArea \subseteq Guarded
      /\ "/admin" \in DOMAIN Forward /\ Forward["/admin"] \in SuperArea
      /\ "/admin" \notin SuperArea /\ "/admin/audit-logs" \notin SuperArea
      /\ "/admin/audit-logs" \notin DOMAIN Forward \cup {"/"}
      /\ SuperArea \cap DOMAIN Forward = {}
  BY DEF Guarded, router, SuperArea, AuthArea, Forward
<1>2. /\ isPathAllowedForRole("/admin", "superuser")
      /\ isPathAllowedForRole("/admin/audit-logs", "superuser")
  BY DEF isPathAllowedForRole, StartsWithAdmin
<1>. QED  BY <1>1, <1>2 DEF Leads, Stays, Dest

LEMMA OfferedLeads ==
  ASSUME NEW l \in Offered \ Unrouted, NEW role \in Unrestricted,
         l = "/admin/audit-logs" => role = "superuser"
  PROVE  Leads(l, role)
BY PlainLeads, PlatformLeads DEF Offered

LEMMA LinksLeadWhole ==
  ASSUME NEW p, NEW role \in Unrestricted, p \in SuperArea => role = "superuser",
         NEW l \in Links(p, role) \ Unrouted, l = "/admin/audit-logs" => role = "superuser"
  PROVE  Leads(l, role)
<1>1. CASE l \in Buttons(p) \cup TopbarQuickActions
  <2>1. Buttons(p) \subseteq Offered
    BY PlainSets, Zenon DEF Buttons, Offered, SelfService, HrPages,
                            BookPages, Parametric
  <2>2. TopbarQuickActions \subseteq Offered
    BY OfferedSets DEF TopbarQuickActions
  <2>. QED  BY <1>1, <2>1, <2>2, OfferedLeads
<1>2. CASE l \in Sidebar(p, role)
  <2>1. CASE Sidebar(p, role) \subseteq Offered
    BY <1>2, <2>1, OfferedLeads
  <2>2. CASE Sidebar(p, role) = DashboardLinks(role)
    <3>1. l \in Offered \/ l = "/catalog" \/ (l = "/admin" /\ role = "superuser")
      BY <1>2, <2>2, OfferedSets
         DEF DashboardLinks, DashboardNavLinks, isNavLinkVisibleForRole,
             StartsWithAdmin
    <3>2. "/catalog" \in Offered
      BY OfferedSets DEF Selling
    <3>. QED  BY <3>1, <3>2, OfferedLeads, PlatformLeads
  <2>3. CASE p \in SuperArea /\ Sidebar(p, role) = SuperAdminLinks
    BY <1>2, <2>3, PlainSets, PlainLeads, PlatformLeads DEF SuperAdminLinks
  <2>. QED  BY <2>1, <2>2, <2>3, SidebarOffered
<1>. QED  BY <1>1, <1>2 DEF Links

LEMMA LinksLeadSomewhere ==
  ASSUME NEW p, NEW role \in Role, Stays(p, role),
         NEW l \in Links(p, role) \ Unrouted, l = "/admin/audit-logs" => role = "superuser"
  PROVE  Leads(l, role)
<1>1. CASE role \in Unrestricted
  BY <1>1, LinksLeadWhole DEF Stays
<1>2. CASE role \notin Unrestricted
  <2>1. p \in Reach(role)
    BY <1>2 DEF Stays, isPathAllowedForRole, Unrestricted, Reach
  <2>2. role \in {"hr", "accountant", "employee"}
    BY <1>2 DEF Role, Unrestricted
  <2>3. l \in Reach(role) /\ l \in Plain
    BY <2>1, <2>2, Reaches, HrLinks, BooksLinks, OwnLinks, PlainReach, PlainSets
  <2>. QED  BY <2>3, PlainLeads
<1>. QED  BY <1>1, <1>2

-----------------------------------------------------------------------------
(* Between a link and the page that it leads to: the visitor is at the     *)
(* link, at the page, or at the login page with one of them to go back to. *)
OnTheWay ==
  (goal # NoPath /\ tokens # NoOne /\ ~reused /\ goal \notin Unrouted
     /\ (goal = "/admin/audit-logs" => tokens = "superuser")) =>
    /\ Leads(goal, tokens)
    /\ \/ path \in {goal, Dest(goal)}
       \/ path = "/login" /\ from \in {goal, Dest(goal)}

LEMMA ShownStays ==
  ASSUME NEW p, Shown(p), p # "/login"
  PROVE  Stays(p, me) /\ me # NoOne /\ tokens # NoOne
BY DEF Shown, Allows, Stays

LEMMA StepOnTheWay ==
  ASSUME NavTypeOK, OwnJudged, OnTheWay, [NavNext]_navVars
  PROVE  OnTheWay'
<1>. USE NavigationAssumption DEF NavigationAssumption
<1>1. NoPath \notin Path
  OBVIOUS
<1>2. CASE Redirect
  <2>1. /\ ~Shown(path) /\ ~Held(path) /\ path' = Target(path)
        /\ from' = (IF path' = "/login" /\ path \in Guarded THEN path ELSE "/")
        /\ tokens' = tokens /\ goal' = goal /\ reused' = reused /\ me' = me
    BY <1>2 DEF Redirect
  <2>2. SUFFICES ASSUME goal # NoPath, tokens # NoOne, ~reused, goal \notin Unrouted,
                        goal = "/admin/audit-logs" => tokens = "superuser"
                 PROVE  /\ Leads(goal, tokens)
                        /\ \/ path' \in {goal, Dest(goal)}
                           \/ path' = "/login" /\ from' \in {goal, Dest(goal)}
    BY <2>1 DEF OnTheWay
  <2>3. /\ Leads(goal, tokens)
        /\ \/ path \in {goal, Dest(goal)}
           \/ path = "/login" /\ from \in {goal, Dest(goal)}
    BY <2>2 DEF OnTheWay
  <2>4. "/login" \in router /\ "/login" \notin Guarded /\ Guarded \subseteq router
    BY RoutedPages DEF Guarded
  <2>5. CASE path = "/login"
    BY <2>1, <2>3, <2>4, <2>5 DEF Target, Leads, Stays
  <2>6. CASE path # "/login"
    <3>1. path \in {goal, Dest(goal)} /\ path \in Guarded
      BY <2>3, <2>6 DEF Leads, Stays
    <3>2. CASE failed \/ me = NoOne
      <4>1. path' = "/login"
        BY <2>1, <2>4, <3>1, <3>2 DEF Target
      <4>. QED  BY <2>1, <2>3, <3>1, <4>1
    <3>3. CASE ~(failed \/ me = NoOne)
      <4>1. me = tokens
        BY <2>2, <3>3 DEF OwnJudged
      <4>2. ~Stays(path, tokens)
        BY <2>1, <2>2, <2>4, <3>1, <3>3, <4>1 DEF Shown, Allows, Stays
      <4>3. path = goal /\ goal \in DOMAIN Forward /\ Dest(goal) = Forward[goal]
        BY <2>3, <3>1, <4>2 DEF Leads, Dest
      <4>4. path \notin SuperArea /\ isPathAllowedForRole(path, me)
        BY <2>3, <4>1, <4>3 DEF Leads
      <4>5. path' = Forward[path]
        BY <2>1, <2>2, <2>4, <3>1, <3>3, <4>3, <4>4, Zenon DEF Target
      <4>. QED  BY <2>3, <4>3, <4>5
    <3>. QED  BY <3>2, <3>3
  <2>. QED  BY <2>5, <2>6
<1>3. ASSUME NEW l \in Path \cup {"/admin"}, Click(l) PROVE OnTheWay'
  <2>1. /\ Shown(path) /\ path # "/login" /\ l \in Links(path, me) /\ path' = l /\ goal' = l
        /\ tokens' = tokens /\ reused' = reused
    BY <1>3 DEF Click, Settled
  <2>2. SUFFICES ASSUME ~reused, l \notin Unrouted, l = "/admin/audit-logs" => tokens = "superuser"
                 PROVE  Leads(l, tokens)
    BY <2>1 DEF OnTheWay
  <2>3. Stays(path, me) /\ me = tokens /\ me \in Role
    BY <2>1, <2>2, ShownStays DEF OwnJudged, NavTypeOK
  <2>. QED  BY <2>1, <2>2, <2>3, LinksLeadSomewhere
<1>4. CASE goal' = NoPath
  BY <1>4 DEF OnTheWay
<1>5. CASE tokens' = NoOne
  BY <1>5 DEF OnTheWay
<1>6. CASE UNCHANGED <<path, from, goal, tokens, reused>>
  BY <1>6 DEF OnTheWay
<1>. QED
  BY <1>2, <1>3, <1>4, <1>5, <1>6
     DEF NavNext, MeAnswer, MeOk, MeFail, MeResent, Refused, Load,
         Stale, Collect, SignOut, SignIn, Enter, nav, navVars

(* A link that a page shows leads where it says, for everybody who is      *)
(* judged by his own role: the lists of every page, cut down to what the   *)
(* role may see, name only pages at which the guards let that role stay,   *)
(* and an answer to /me that fails on the way brings the visitor back.     *)
THEOREM NavigationLinksLead ==
  NavSpec => []LinksLead
<1>1. NavInit => OnTheWay
  BY DEF NavInit, OnTheWay
<1>2. NavTypeOK /\ OwnJudged /\ OnTheWay => LinksLead
  <2>. SUFFICES ASSUME NavTypeOK, OwnJudged, OnTheWay, Settled, goal # NoPath, tokens # NoOne,
                       ~reused, ~Misleading(goal)
                PROVE  path = Dest(goal)
    BY DEF LinksLead, Dest
  <2>1. path # "/login" /\ Stays(path, me) /\ me = tokens
    <3>1. path # "/login"
      BY DEF Settled, Shown
    <3>. QED  BY <3>1, ShownStays DEF Settled, OwnJudged
  <2>2. Leads(goal, tokens) /\ path \in {goal, Dest(goal)}
    BY <2>1 DEF OnTheWay, Misleading
  <2>3. goal \in DOMAIN Forward => path # goal
    BY <2>1, <2>2 DEF Leads, Stays
  <2>. QED  BY <2>2, <2>3 DEF Dest
<1>. QED
  BY <1>1, <1>2, NavInitTyped, NavStepTyped, InitOwn, StepOwn, StepOnTheWay, PTL DEF NavSpec
=============================================================================
