---------------------------- MODULE PlatformLists ---------------------------
(***************************************************************************)
(* The pages of the platform's owner: shared/superadmin/hooks.ts and       *)
(* pages/superadmin.  Their lists do not go through React Query.  Each     *)
(* hook keeps the last answer in a useState, asks again when its filters   *)
(* change or a handler calls refetch, and cancels nothing: whichever       *)
(* answer comes last is the one shown.                                     *)
(*                                                                         *)
(* One visitor.  What the server holds is the number of changes it has     *)
(* made; an answer is the filters it was asked with and that number when   *)
(* the server read.  Only the list of a page is here, not the unfiltered   *)
(* lists its dialogs offer.                                                *)
(***************************************************************************)
EXTENDS Naturals, Sequences, SequencesExt, FiniteSets

CONSTANTS Filter,       \* what the filters of a page can be set to
          NoFilter,     \* ... when it opens
          PageNumbers,  \* of the one list that is split into pages
          MaxFlights, MaxJobs, MaxChanges

ASSUME ListAssumption ==
  /\ NoFilter \in Filter /\ 1 \in PageNumbers /\ PageNumbers \subseteq Nat
  /\ {MaxFlights, MaxJobs, MaxChanges} \subseteq Nat

-----------------------------------------------------------------------------
(* The list hooks: what they depend on                                     *)
ListOf(filters, numbers) == [filter : filters, number : numbers]
useSuperAdminCompanies == ListOf(Filter, {1})
useSuperAdminUsers == ListOf(Filter, {1})
useSuperAdminRoles == ListOf(Filter, {1})
useSuperAdminPermissions == ListOf({NoFilter}, {1})
useSuperAdminSubscriptionCodes == ListOf(Filter, {1})
useSuperAdminBackups == ListOf(Filter, {1})
useSuperAdminAuditLogs == ListOf(Filter, PageNumbers)
useSuperAdminStats == ListOf({NoFilter}, {1})

(* The mutation hooks: whether the page's list changes with them           *)
Mutation == [changes |-> TRUE]
Silent == [changes |-> FALSE]
useCreateSuperAdminCompany == Mutation
useUpdateSuperAdminCompany == Mutation
useDeleteSuperAdminCompany == Mutation
useToggleCompanyActive == Mutation
useExtendCompanySubscription == Mutation
useCreateSuperAdminUser == Mutation
useUpdateSuperAdminUser == Mutation
useDeleteSuperAdminUser == Mutation
useResetUserPassword == Silent
useAssignUserRole == Mutation
useCreateSuperAdminRole == Mutation
useUpdateSuperAdminRole == Mutation
useDeleteSuperAdminRole == Mutation
useGenerateSuperAdminSubscriptionCode == Mutation
useDownloadSuperAdminBackup == Silent
useRestoreSuperAdminBackup == Mutation

-----------------------------------------------------------------------------
(* The dialogs of the pages.  Each sends one form at a time, and closes    *)
(* when its handler has answered, but for the one that then shows a code.  *)
(* A button of a row is there while the rows are.                          *)
SuperAdminDataTable == "row"
CompanyFormModal == "company"
ExtendSubscriptionModal == "extend"
UserFormModal == "user"
ResetPasswordModal == "password"
AssignRoleModal == "assign"
RoleFormModal == "role"
GenerateCodeModal == "code"
NoDialog == "no dialog"

(* The handlers of a page: from which dialog they run, or from a row, and  *)
(* whether the list is asked for once the mutation has answered            *)
Handler(hook, dialog, refetch) ==
  [call |-> hook, dialog |-> dialog, refetch |-> refetch]

companies_handleFormSubmit ==
  {Handler(hook, CompanyFormModal, TRUE) :
     hook \in {useCreateSuperAdminCompany, useUpdateSuperAdminCompany}}
companies_handleDelete == {Handler(useDeleteSuperAdminCompany, SuperAdminDataTable, TRUE)}
handleToggleActive == {Handler(useToggleCompanyActive, SuperAdminDataTable, TRUE)}
handleExtendSubmit ==
  {Handler(useExtendCompanySubscription, ExtendSubscriptionModal, TRUE)}

users_handleFormSubmit ==
  {Handler(hook, UserFormModal, TRUE) :
     hook \in {useCreateSuperAdminUser, useUpdateSuperAdminUser}}
users_handleDelete == {Handler(useDeleteSuperAdminUser, SuperAdminDataTable, TRUE)}
handleResetSubmit == {Handler(useResetUserPassword, ResetPasswordModal, FALSE)}
handleAssignSubmit == {Handler(useAssignUserRole, AssignRoleModal, TRUE)}

roles_handleFormSubmit ==
  {Handler(hook, RoleFormModal, TRUE) :
     hook \in {useCreateSuperAdminRole, useUpdateSuperAdminRole}}
roles_handleDelete == {Handler(useDeleteSuperAdminRole, SuperAdminDataTable, TRUE)}

(* The code is shown in the dialog; the list is asked for on closing it.   *)
handleGenerate == {Handler(useGenerateSuperAdminSubscriptionCode, GenerateCodeModal, FALSE)}
handleDownload == {Handler(useDownloadSuperAdminBackup, SuperAdminDataTable, FALSE)}
handleRestore == {Handler(useRestoreSuperAdminBackup, SuperAdminDataTable, TRUE)}

Page(name, list, handlers) == [name |-> name, list |-> list, handlers |-> handlers]
SuperAdminCompaniesPage ==
  Page("companies", useSuperAdminCompanies, companies_handleFormSubmit
         \cup companies_handleDelete \cup handleToggleActive \cup handleExtendSubmit)
SuperAdminUsersPage ==
  Page("users", useSuperAdminUsers, users_handleFormSubmit \cup users_handleDelete
         \cup handleResetSubmit \cup handleAssignSubmit)
RolesTab == Page("roles", useSuperAdminRoles, roles_handleFormSubmit \cup roles_handleDelete)
PermissionsTab == Page("permissions", useSuperAdminPermissions, {})
SuperAdminSubscriptionsPage == Page("codes", useSuperAdminSubscriptionCodes, handleGenerate)
SuperAdminBackupsPage == Page("backups", useSuperAdminBackups, handleDownload \cup handleRestore)
SuperAdminAuditLogsPage == Page("audit logs", useSuperAdminAuditLogs, {})
SuperAdminDashboardPage == Page("overview", useSuperAdminStats, {})
Pages ==
  {SuperAdminCompaniesPage, SuperAdminUsersPage, RolesTab, PermissionsTab,
   SuperAdminSubscriptionsPage, SuperAdminBackupsPage, SuperAdminAuditLogsPage,
   SuperAdminDashboardPage}

-----------------------------------------------------------------------------
VARIABLES page,     \* the page shown
          asked,    \* its filters
          shown,    \* data: the answer it keeps
          loading,  \* isLoading
          error,    \* error # null
          dialog,   \* the dialog that is open
          flights,  \* the fetches under way, in the order they were sent
          jobs,     \* the handlers under way
          changes,  \* made by the server since the page was opened
          told,     \* ghost: of which this page has answered for
          behind    \* ghost: a late answer, or one to other filters, is shown

listsVars == <<page, asked, shown, loading, error, dialog, flights, jobs, changes,
          told, behind>>
list == <<shown, error, behind>>

Nothing == [asked |-> [filter |-> NoFilter, number |-> 1], saw |-> 0]
Handlers == UNION {p.handlers : p \in Pages}
Dialogs == {h.dialog : h \in Handlers} \ {SuperAdminDataTable}
Flight == [asked : ListOf(Filter, PageNumbers), read : BOOLEAN,
           saw : 0..MaxChanges, late : BOOLEAN]
Job == [handler : Handlers, asked : ListOf(Filter, PageNumbers),
        ran : BOOLEAN]

ListsTypeOK ==
  /\ page \in Pages /\ asked \in page.list
  /\ shown \in [asked : ListOf(Filter, PageNumbers), saw : 0..MaxChanges]
  /\ loading \in BOOLEAN /\ error \in BOOLEAN /\ behind \in BOOLEAN
  /\ dialog \in Dialogs \cup {NoDialog}
  /\ flights \in Seq(Flight) /\ Len(flights) <= MaxFlights + 1
  /\ jobs \in Seq(Job) /\ Len(jobs) <= MaxJobs
  /\ changes \in 0..MaxChanges /\ told \in 0..changes

(* A call of the callback of a render with the filters q                   *)
Fetch(q, late) == [asked |-> q, read |-> FALSE, saw |-> 0, late |-> late]
Free == Len(flights) < MaxFlights

Mount(p) ==
  LET q == [filter |-> NoFilter, number |-> 1] IN
  /\ page' = p /\ asked' = q /\ shown' = Nothing
  /\ loading' = TRUE /\ error' = FALSE /\ behind' = TRUE /\ dialog' = NoDialog
  /\ flights' = <<Fetch(q, FALSE)>> /\ jobs' = <<>> /\ changes' = 0 /\ told' = 0

ListsInit ==
  /\ page \in Pages /\ asked = [filter |-> NoFilter, number |-> 1] /\ shown = Nothing
  /\ loading = TRUE /\ error = FALSE /\ behind = TRUE /\ dialog = NoDialog
  /\ flights = <<Fetch(asked, FALSE)>> /\ jobs = <<>> /\ changes = 0 /\ told = 0

-----------------------------------------------------------------------------
(* The state of a page ends with it, and what its handlers still do shows  *)
(* on no other: a page begins as if it were the first.                     *)
Open(p) ==
  /\ p # page
  /\ Mount(p)

Ask(fetches) ==
  /\ flights' = flights \o fetches
  /\ loading' = TRUE /\ error' = FALSE

(* A filter changes.  The audit log asks for the page it is on and then,   *)
(* back on the first, once more.                                           *)
SetFilter(f) ==
  LET same == [asked EXCEPT !.filter = f]
      first == [same EXCEPT !.number = 1] IN
  /\ Free /\ dialog = NoDialog /\ f # asked.filter /\ same \in page.list
  /\ asked' = first
  /\ Ask(IF same = first THEN <<Fetch(first, FALSE)>>
         ELSE <<Fetch(same, TRUE), Fetch(first, FALSE)>>)
  /\ UNCHANGED <<page, shown, dialog, jobs, changes, told, behind>>

setPage(n) ==
  LET q == [asked EXCEPT !.number = n] IN
  /\ Free /\ n # asked.number /\ q \in page.list
  /\ asked' = q
  /\ Ask(<<Fetch(q, FALSE)>>)
  /\ UNCHANGED <<page, shown, dialog, jobs, changes, told, behind>>

(* The button beside the error of the overview                             *)
Retry ==
  /\ Free /\ error /\ page = SuperAdminDashboardPage
  /\ Ask(<<Fetch(asked, FALSE)>>)
  /\ UNCHANGED <<page, asked, shown, dialog, jobs, changes, told, behind>>

OpenDialog(d) ==
  /\ dialog = NoDialog /\ \E h \in page.handlers : h.dialog = d
  /\ dialog' = d
  /\ UNCHANGED <<page, asked, list, loading, flights, jobs, changes, told>>

(* The cross and the backdrop work while the form is being sent.           *)
CloseDialog ==
  /\ dialog # NoDialog /\ dialog' = NoDialog
  /\ IF dialog = GenerateCodeModal
     THEN Free /\ Ask(<<Fetch(asked, FALSE)>>)
     ELSE UNCHANGED <<flights, loading, error>>
  /\ UNCHANGED <<page, asked, shown, jobs, changes, told, behind>>

(* A handler keeps the filters of the render that it was made in.  The     *)
(* button of a form is disabled while the form is being sent.              *)
Start(h) ==
  /\ h \in page.handlers /\ Len(jobs) < MaxJobs
  /\ IF h.dialog = SuperAdminDataTable THEN ~loading
     ELSE h.dialog = dialog /\ \A i \in DOMAIN jobs : jobs[i].handler.dialog # dialog
  /\ jobs' = Append(jobs, [handler |-> h, asked |-> asked, ran |-> FALSE])
  /\ UNCHANGED <<page, asked, list, loading, dialog, flights, changes, told>>

-----------------------------------------------------------------------------
(* The server                                                              *)
Run(i) ==
  /\ ~jobs[i].ran /\ (jobs[i].handler.call.changes => changes < MaxChanges)
  /\ jobs' = [jobs EXCEPT ![i].ran = TRUE]
  /\ changes' = IF jobs[i].handler.call.changes THEN changes + 1 ELSE changes
  /\ UNCHANGED <<page, asked, list, loading, dialog, flights, told>>

Read(i) ==
  /\ ~flights[i].read
  /\ flights' = [flights EXCEPT ![i].read = TRUE, ![i].saw = changes]
  /\ UNCHANGED <<page, asked, list, loading, dialog, jobs, changes, told>>

-----------------------------------------------------------------------------
(* The answers: to a fetch ...                                             *)
Landed(i) ==
  /\ flights' = [j \in 1..(Len(flights) - 1) |->
                   IF j < i THEN [flights[j] EXCEPT !.late = TRUE] ELSE flights[j + 1]]
  /\ loading' = FALSE

FetchOk(i) ==
  /\ flights[i].read
  /\ Landed(i)
  /\ shown' = [asked |-> flights[i].asked, saw |-> flights[i].saw]
  /\ behind' = flights[i].late
  /\ UNCHANGED <<page, asked, error, dialog, jobs, changes, told>>

FetchFailed(i) ==
  /\ Landed(i)
  /\ error' = TRUE
  /\ UNCHANGED <<page, asked, shown, dialog, jobs, changes, told, behind>>

(* ... and to a mutation                                                   *)
(* mutant: the list is not asked for                                       *)
DoneWithoutRefetch(i) ==
  LET h == jobs[i].handler IN
  /\ jobs[i].ran
  /\ jobs' = RemoveAt(jobs, i)
  /\ dialog' = IF h.dialog = dialog THEN NoDialog ELSE dialog
  /\ told' = IF h.refetch THEN changes ELSE told
  /\ UNCHANGED <<page, asked, list, loading, flights, changes>>
Done(i) ==
  LET h == jobs[i].handler IN
  /\ jobs[i].ran /\ Free
  /\ jobs' = RemoveAt(jobs, i)
  /\ dialog' = IF h.dialog = dialog /\ dialog # GenerateCodeModal THEN NoDialog ELSE dialog
  /\ told' = IF h.refetch \/ dialog = GenerateCodeModal THEN changes ELSE told
  /\ IF h.refetch
     THEN Ask(<<Fetch(jobs[i].asked, jobs[i].asked # asked)>>)
     ELSE UNCHANGED <<flights, loading, error>>
  /\ UNCHANGED <<page, asked, shown, changes, behind>>

(* Refused, or the answer is lost: the message is shown, in the dialog.    *)
Failed(i) ==
  /\ jobs' = RemoveAt(jobs, i)
  /\ UNCHANGED <<page, asked, list, loading, dialog, flights, changes, told>>

ListsAnswer == \E i \in DOMAIN flights : FetchOk(i) \/ FetchFailed(i)
Finish == \E i \in DOMAIN jobs : Done(i) \/ Failed(i)

ListsNext ==
  \/ \E p \in Pages : Open(p)
  \/ \E f \in Filter : SetFilter(f)
  \/ \E n \in PageNumbers : setPage(n)
  \/ Retry \/ CloseDialog
  \/ \E d \in Dialogs : OpenDialog(d)
  \/ \E h \in Handlers : Start(h)
  \/ \E i \in DOMAIN jobs : Run(i)
  \/ \E i \in DOMAIN flights : Read(i)
  \/ ListsAnswer \/ Finish

ListsSpec == ListsInit /\ [][ListsNext]_listsVars

-----------------------------------------------------------------------------
(* Once nothing is under way, and no error is shown, the list is that of   *)
(* the filters on the page and holds every change the page has reported as *)
(* done: although nothing is cancelled, only two orders of events get past *)
(* the refetch of the handlers.  They are those of behind: an answer       *)
(* overtaken by that of a later fetch, and the refetch of a handler that   *)
(* began under other filters.                                              *)
ListIsRight ==
  (flights = <<>> /\ ~error /\ ~behind /\ dialog = NoDialog) =>
     shown.asked = asked /\ shown.saw >= told
=============================================================================
