# Managora: a TLA+ model of its books and of its web client

Managora ("Company OS") is a Django REST application with a PostgreSQL database,
Celery workers on Redis and a React client: HR, attendance, payroll, accounting
and dashboards for small companies. This directory holds TLA+ modules of two sides
of it:

* the parts of the backend that keep books, i.e. whose rows have a life of their own and
  must agree with one another: leave requests and balances, attendance records and
  penalties, payroll periods and their journal entries, invoices, expenses and theirs, the
  stock;
* the parts of the web client that keep state between the visitor and the API: calls and
  tokens, navigation by role, the cache of answers behind the company pages, the lists of
  the platform pages, the forms, and the pay that pages compute by themselves.

TLC checks the modules on small instances, TLAPS proves the main properties for
every value of the constants. `PROJECT.json` maps every definition to the lines it
stands for, and every hazard to the properties that are about it.

Paths below are relative to the repository; `hr/...`, `accounting/...`, `core/...`
are under `backend/`, `app/...`, `shared/...`, `pages/...`, `modules/...` under
`frontend/src/`.

## How the system runs, and what that makes hard

The backend:

* Requests are served by several gunicorn worker processes
  (`backend/entrypoint.prod.sh`, `GUNICORN_WORKERS`, 3 by default). `ATOMIC_REQUESTS` is
  not set and the database runs at PostgreSQL's default, READ COMMITTED. A view that
  loads a row, decides on it and saves it later therefore works on a *copy*;
  `transaction.atomic` makes its writes appear together but does not protect what it
  read. Only `select_for_update` does, and only leave approval uses it
  (`hr/services/leaves.py`).
* `save()` writes every column of the copy, `save(update_fields=...)` some of them.
  The modules keep the two apart, as the first undoes what others wrote.
* Generations of a payroll run in Celery workers: queued, possibly long after the
  request; retried up to three times; acknowledged when they start (no
  `CELERY_TASK_ACKS_LATE`), so lost if their worker is killed; ended by a soft and a
  hard time limit (`config/settings/base.py` 306-307).
* Several operations consist of statements that commit one by one (editing an
  invoice), others of a transaction after a read outside it (issuing it, deciding
  about an attendance record, locking a period).

So these modules have one action per database step at which another process can come
in between, and every copy that a request carries from one step to the next is a
variable. What is one step in the model is one in the database: a transaction
whose reads are protected by locks or whose writes do not depend on what it read.

The client:

* JavaScript runs a callback to its end, so a step is an answer (or a click) with all
  that happens before the code waits again. What is hard is what comes between a
  request and its answer: other answers, a sign-out, another page, another click.
* Some state outlives what it belongs to: the tokens outlive the document, the cache and
  the refresh under way outlive a sign-out that only navigates, a handler outlives the
  dialog it was started from.
* The company pages read through React Query (`app/providers.tsx`: an answer is stale at
  once unless a hook says otherwise), the platform pages through hooks with `useState`
  that cancel nothing. Both refresh after a change only what their handlers name.

## Inventory

| Part | State it keeps | Operations | Interacts with |
|---|---|---|---|
| Roles and approval policy (`core/rbac.py`, `core/permissions.py`, `_user_can_approve*` in `hr/api_views.py`) | roles of users, seeded codes, an employee's manager | primary role, permission check, may-approve | asked by every decision |
| Leave (`hr/services/leaves.py`, `hr/leaves/`) | `LeaveRequest.status`, `decided_by`; `LeaveBalance`; active leave types | submit, approve, reject, cancel, edit balances, switch types | policy, notifications, payroll (unpaid days) |
| Attendance (`hr/services/attendance.py`, `hr/attendance/`) | `AttendanceRecord`: two times, two approvals and deciders, status, lateness | check in and out by GPS, QR, OTP, code or by hand; approve, reject, delete | rules, payroll |
| Policy rules (`hr/services/policies.py`) | `HRAction` | penalise a late record, too many late records | attendance, salary components |
| Payroll (`hr/payroll/`, `hr/services/generator.py`, `hr/services/lock.py`) | `PayrollPeriod.status`, `PayrollRun`, `PayrollTaskRun` | request and run a generation, retry, lock, pay a run | attendance, leave, components; the journal by a call and by the event `payroll.approved` |
| Invoices and payments (`accounting/views.py`, `accounting/serializers.py`, `accounting/services/invoices.py`, `payments.py`) | `Invoice`, its lines, `Payment`, its `JournalEntry` | create, edit, issue, pay, change and delete payments, record a sale, delete | journal, stock, expenses |
| Stock and catalogue (`accounting/views.py`) | stock quantity, `StockTransaction` | add, remove, sell, edit, soft-delete | recorded sales |
| Expenses and journal (`accounting/services/expenses.py`, `journal.py`) | `Expense.status`, entries and lines | create, edit, approve, post, delete | invoices, payroll, sales |
| Salary structures, components, loans, commissions (`hr/services/actions.py`, `hr/api_views.py`) | amounts, loan balance, commission status | edit, decide, sync a penalty | input of payroll |
| Reference cache (`hr/common/cache.py`) | cached lists per company | fill, invalidate on save | leave types, departments, job titles |
| Tenancy, subscriptions, users, 2FA, throttles (`core/`) | company, users, tokens and counters in a cache | log in, switch, activate | every request |
| Messaging, notifications, audit log (`core/`) | messages, notifications, log rows | append | leave and payroll send notifications |
| Backups, platform administration (`core/`) | files, `CompanyBackup` | dump, restore, report | all tables |
| Analytics, copilot (`analytics/`, `core/services/copilot.py`) | daily facts, alert events, job rows | aggregate, detect, ask | reads HR and expenses |
| Client: calls and tokens (`shared/api/http.ts`, `shared/auth/tokens.ts`) | the stored tokens; `isRefreshing`, `refreshPromise`, `requestQueue` | send, queue, refresh, retry, give up and leave for the login page | every call of every page |
| Client: navigation (`app/`, `shared/auth/`, `pages/LoginPage.tsx`, the menus of the pages) | the path; the cached answer to `/me` | guard, redirect, sign in and out, follow a link | calls and tokens |
| Client: data of the company pages (`shared/*/hooks.ts`, `pages/`, `modules/`) | the query cache; a handler under way | show, fetch, call, invalidate | calls; the cache outlives the visitor |
| Client: platform pages (`shared/superadmin/hooks.ts`, `pages/superadmin/`) | per page: filters, rows, dialog | list, filter, page, change, refetch | calls |
| Client: forms (of the pages) | what is filled in, for which record, what was sent | open, type, send, reset, close | the handlers of the pages |
| Client: payslips and previews (`modules/hr/payroll/`, `modules/hr/employee-profile/`, `pages/accounting/employee/EmployeeSelfServicePage.tsx`, `pages/accounting/ExpensesPage.tsx`) | payables per run, the load under way | list the runs, load, add up, preview | repeats in the browser what the generator computes |

What makes the parts correct, in the order of their weight:

* **Leave.** Days are deducted exactly once for exactly the requests that are granted;
  a balance is not overdrawn by concurrent approvals; nobody is booked twice for a
  day; a decision is final, and made by somebody entitled to it.
* **Payroll.** The runs of a period appear together or not at all; closing a period
  posts exactly its runs, once, and from then on a run can only be paid; every task
  ends, and says truly how. What a page says an employee is paid is what is paid.
* **Invoices.** At most one entry per invoice, none missing for an issued one, and
  for its total; the status shows what was paid.
* **Stock and expenses.** A stock is never negative and is what its transactions say; money
  is booked for an expense once it is approved, once, and as much as was approved.
* **Attendance.** What payroll counts was decided by somebody entitled to; lateness
  is penalised once; no stale save loses an arrival or a decision.
* **Calls and navigation.** Every call is answered once and in the end; one refresh serves
  all calls; who signed out stays signed out; redirects end; links lead where they say;
  everybody is judged by the own role.
* **Pages.** When all is quiet a page shows what its visitor was told is done, and what he
  asked for himself. What is typed once is asked for once, for the record it was typed for.

## Modules

Backend:

| Module | Models | State |
|---|---|---|
| `ApprovalPolicy` | `get_user_role`, `user_has_permission`, `_user_can_approve`, `_user_can_approve_commission` as constant operators | none; extended by `LeaveWorkflow` |
| `LeaveWorkflow` | the leave handlers | `status`, `decided_by`, `balance`, `rows`, `active` and the five in-flight sets |
| `LeaveContract` | what leave promises: book, grant, decline | refined by `LeaveWorkflow` |
| `PayrollCycle` | one period, its tasks, lock requests and payments | `period`, `pay`, the runs, `entries`, and per task and locker where it is |
| `PayrollContract` | what payroll promises: compute, close, pay | refined by `PayrollCycle` |
| `InvoiceBook` | invoices, lines, payments, entries | `status`, `total`, `lines`, `paid`, `entries`, `gone`, per clerk its `job`, and the `mode` of the behaviour |
| `SalesBook` | stock, expenses and `record_sale` as a whole; extends `InvoiceBook`, whose `Sale` is a part of its `SaleCommit` | the state of `InvoiceBook`, `stock`, `expense`, `booked`, per clerk the copies on the `desk`, and two ghosts: `ledger` and `doubled` |
| `AttendanceBook` | records, decisions, penalties | `rec`, `actions`, `today`, `period`, and per request its `job` |

Client:

| Module | Models | State |
|---|---|---|
| `HttpClient` | both interceptors of `http.ts` over the tokens | `call`, `isRefreshing`, `refreshPromise`, `requestQueue`, `tokens`, `leaving` and three ghosts of what the server and the visitor did |
| `CallContract` | what a caller is promised: one answer, in the end | refined by `HttpClient` |
| `RouteAccess` | the router and the access of roles, as constant operators | none; used by the next two |
| `Sidebars` | the menu of every page, by role | none; used by `Navigation` |
| `Navigation` | the guards, the login page, the cached `/me` | `path`, `tokens`, `me` and how fresh it is, the fetch under way |
| `QueryHooks` | every query and call hook of the company pages: keys, what they read and change, what they invalidate | none |
| `PageHandlers` | what each company page shows, what its handlers call and refresh | none; over `QueryHooks` |
| `Screens` | one query of the cache and one handler, for every such pair of `PageHandlers` | `case`, `page`, `entry`, `job`, `changes`, `told` |
| `PageForms` | every form: fields, what is refused, sent and reset | none |
| `Forms` | a visitor of one form of `PageForms`, for every form | `case`, `target`, `edited`, `content`, `jobs`, `texts` |
| `PlatformLists` | the hooks, filters, dialogs and handlers of the platform pages | `page`, `asked`, `shown`, `loading`, `error`, `dialog`, `flights`, `jobs` |
| `Payslips` | the lines of a run, the payable of three pages, the two previews | the rows, the runs, the page, its list and its load |

`MC*` are small instances of these for TLC; `*_proofs` hold their theorems, and `SetSums` the
lemmas on sums that three of them rest on. Three of them hold the theorems of two components each,
`HttpAndLists_proofs`, `FormsAndNavigation_proofs` and `PayrollAndPayslips_proofs`; for that, the
names of `PlatformLists`, `Navigation` and `Payslips` that others have too begin with `Lists`, `Nav`
and `Slip`.

How the state corresponds to the code:

* **LeaveWorkflow.** A request is its row; its draft (who, which type, which days) is
  a constant function, so a behaviour is about what happens to given submissions.
  `SubmitCheck`/`SubmitInsert` are the two halves of `_request_leave`: all checks, then
  the INSERT. `Approve` is one action because `approve_leave` locks the request and
  the balance before reading them. `RejectRead`/`RejectWrite`,
  `CancelRead`/`CancelWrite`/`CancelStamp` (the view saves `decided_by` after the
  service saved the status) and `BalanceRead`/`BalanceWrite` (the endpoint saves every
  column of its copy) have no lock. `HandlerFails` rolls any of them back: a failing
  notification, a database error, a killed worker.
* **PayrollCycle.** `RequestGeneration` queues the task and `RecordTask` inserts its row
  afterwards, as the view does, so a worker may finish first. A generation is
  `TaskStarts` (the copy of the period on which the lock is tested, and the report),
  one `GenerateEmployee` per employee (written but uncommitted: the row is locked, which
  makes the other generation, a lock or a payment wait), `CommitRuns`, the success
  report, the notification, and `TaskEnds`, the report of the Celery signal handlers.
  `TaskFails` is any exception or the soft time limit, with its retry, `WorkerDies` a
  killed worker. `lock_period` is `LockRead` (the copy), `LockJournal` (the entry, not
  visible yet), `LockCommit`, and `LockEvent`, the handler that runs after the commit and
  asks for the entry again.
* **InvoiceBook.** An edit is up to six statements (`EditRead` ... `EditBook`), each
  committed by itself; `IssueWrite` and `PayInsert`/`PayCommit` are transactions on a copy
  read before; `Sale` is the invoice's part of `record_sale`; `Repay` is an update or
  deletion of a payment, which looks at nothing but the payment. Prices and payments are
  small numbers; only the sum of the lines is kept.
* **SalesBook.** Adding and removing stock are `Correct` (the copy that is tested), `CorrectSave`
  and `CorrectLog`, an edit of the item is `EditItem`/`EditItemSave`; `ledger` is the quantity entered
  by hand last and the sum of the `StockTransaction`s since. An expense is saved, its entry
  looked for (`BookExpenseLook`) and then made or refreshed (`BookExpense`), in statements of
  their own; an edit also reads twice, as the view and the serializer have different copies
  (`EditExpense`, `EditExpenseCheck`). `SaleRead` is `record_sale` up to its transaction, `SaleCommit` that
  transaction: invoice, entry, stock, stock transactions and the expense with its entry.
* **AttendanceBook.** Every operation is `Arrive`, `Leave` or `Decide` (the read) followed
  by its write, with what it saves: the whole row for OTPs and decisions, a list of
  fields for the others. The rules are evaluated inside the arrival's transaction
  (`Penalise`), where a violated constraint rolls the arrival back (`RollBack`). Deleted
  rows are hidden from queries (`Visible`) and still count in the constraint (`Store`).
* **HttpClient.** A call is where its request is: sent, held before it is sent, queued
  behind a refresh, leading one, waiting out a 429, or answered; with the token it carries
  and its two retry counts. `Issue` is the request interceptor, `Succeed`, `Queue`, `Lead`,
  `GiveUp`, `Limit` and `Fail` the branches of the response interceptor, `Granted` and
  `Denied` the end of the refresh. `SignOut`, `OtherTab`, `Expire` and `Bar` are what others
  do to the tokens and accounts, `Unload` the new document that `redirectToLogin` asks for.
* **Navigation.** `Redirect` is one effect of a render that navigates: of a guard or of the
  login page. `MeOk`, `MeFail` and `MeResent` end a fetch of `/me` (which React Query sends
  once more after a failure), `Stale` is time, `Collect` the removal of an unused cache
  entry. A link is clicked on a page that has settled.
* **QueryHooks, PageHandlers, Screens.** A query is its key, what of the server's state it
  depends on and how long it is fresh; a handler is its calls and what it refreshes.
  `Screens` takes each pair in turn (the constant set `Cases`, chosen in `Init`): the server's
  state is the number of changes made to what the query reads, an answer is that number
  when it was read.
* **PageForms, Forms.** Texts are numbered; a field keeps which text, typed while which
  record was shown. `Press` is the button when the form lets it, `Answer` the server's,
  `Await` a handler that awaits a refresh before it resets, `Finish` what the handler does
  at its end, `Refuse` an error.
* **PlatformLists.** A fetch is the filters it was asked with and, once the server has read,
  how many changes it saw. `Ask` is the callback of every list hook; `FetchOk` sets the rows
  whichever fetch it belongs to. `Done` is the rest of a handler after its mutation, with
  the filters of the render it was made in.
* **Payslips.** Rows (attendance by day, components, penalties, loans, commissions) come and
  go by `Attend` and `Adjust`, `Generate` makes runs of them by `Lines`, the generator's
  selection. `ReadRun`, `ReadAttendance` and `ReadFails` are the requests of
  a page's load, `Land` sets their results unless the load was cancelled.

Left abstract in them: names, texts, reasons and amounts beyond what decides a
branch; dates other than their order and year; the computation of lateness and distance
(inputs: any outcome is possible); the lifetime of OTPs and codes (any one used
is taken to be valid). In `AttendanceBook`, "present" also stands for "incomplete" and
"early_leave", the rules are fixed at the start of a behaviour, the rule that counts
absences is left out (nothing in the modelled code evaluates a record as absent), and
the salary component of a penalty is not kept. `MarkAbsent` and manual records are
limited to days up to today. `Sidebars` leaves out the filter by permission, which can
only hide more. `Forms` leaves out answers lost after the server executed the call, and
late fetches that fill a form (see the gaps below). `LeaveWorkflow` switches types on and off
and keeps the other fields of a type as they are. The several reads that an issue or a recorded
sale makes before its transaction are one step (`IssueRead`, `SaleRead`), an edited
invoice counts its tax among the lines (`EditKeep`), and in `AttendanceBook` whoever may decide, by role or by a
permission `approvals.*`, is a `Decider`. `Payslips` leaves out the rounding to cents; of a
penalty's span it keeps how it lies to the period, not its days.

## Runs

| Run | Instance | What it shows |
|---|---|---|
| `leave` | employee, HR officer, manager. One setting is serial: 4 requests, of which two overlap and two exceed the balance together, and a balance edit. The other lets handlers overlap: employee and manager, 3 requests on one balance of 3 days, no edit; 526,352 states | serially used days equal the days of approved paid requests, and `LeaveContract` is implemented (decisions are final, nobody is booked twice for a day), through every failure; under all races approved is charged, nothing is overdrawn, and who approved was entitled to |
| `payroll` | 2 employees, 2 tasks, 1 retry, dying workers. One setting is serial: pay 0 or 2, 2 lock requests. In the other workers overlap: pay 2, one lock request; 1,648,281 states, with liveness | serially journal and runs agree and `PayrollContract` is implemented, with tasks and retries that outlive the request; under all races generation is all or nothing, once none is at work on a locked period its figures are frozen, and every task ends |
| `invoices` | `SalesBook` with 2 clerks. In three modes 1 invoice, prices 0 to 2: overlapping with failures, serial with deletions, serial with payments that move between invoices. In three more, sales of 1 or 2 lines for 2 invoices, 1 item, 1 expense: serial, serial with failures, overlapping with failures; 2,144,520 states | with every interleaving and failure at most one entry, and issued is posted; serially the entry has the total of an issued invoice and payments show in the status. No race makes a stock negative; serially stock and transactions agree, and an expense is booked as approved wherever a request fails |
| `attendance` | 1 employee, 1 decider, 2 requests, 2 days; behaviours of three kinds: serial with warnings, serial with deductions, overlapping with warnings; 2,156,257 states | what payroll counts was decided, lateness is penalised, no arrival is lost; serially decisions stand and repeated lateness is penalised |
| `http` | 2 calls at a time of 2 accounts; 240,804 states, with liveness | one refresh serves all who wait, no call is sent more than four times, a sign-out lasts, and `CallContract` is implemented: every call is answered once, and in the end |
| `navigation` | accounts of all five roles, every route and every menu; 38,497 states, with liveness | links lead where they say, everybody is judged by the own role, redirects end |
| `screens` | every pair of a handler and a query it changes, 2 changes; 527,342 states | quiet pages are up to date and show their visitor's own data |
| `forms` | every form, 2 records, 3 texts, 3 sends; 1,433,016 states | what is typed is asked for once, for the record it was typed for, and dialogs open fresh |
| `platform_lists` | every platform page, 2 filters, 2 page numbers, 2 fetches, 2 handlers, 2 changes; 5,867,914 states | a quiet list is the one asked for and holds what was reported as done |
| `payslips` | 2 employees of any pay kind, a month of one day, a row of each way a page may count one otherwise than the generator, 2 changes; 1,016,757 states, with liveness | what pages compute is the net the server pays, where the gaps below allow it; payables come in the end |
| `attendance_null` | the instance of `attendance` | *violated*: a docstring says that undecided check-ins count (finding 1) |
| `payslips_profile` | the instance of `payslips` with no row but a mirrored penalty | *violated*: a comment says that the profile deducts what the generation does (finding 2) |

Why these bounds are enough to be interesting. Nearly every hazard the runs cover is a
race of two requests (or answers, or clicks), or of one with a failure or a later one, on
one row or on two that must agree; each instance has two or more of them on the state in
question, and values chosen so that both outcomes of every test occur: balances that
cover one request and not both, payments that do and do not settle, pay of zero, which the
journal refuses, a threshold that is met on the second of two days. On the client's
side:

* `http`: two calls are what it takes for one to lead the refresh and one to wait, or to be
  refused late for a token that was already replaced; two accounts for an answer to come
  when somebody else is signed in.
* `navigation` bounds nothing: the router, the roles and the menus are finite.
* `screens`: with two changes an answer can hold none, the first, or both, so a page can be
  right about one call of a handler and not about the next. Each pair of a handler and
  a query is on its own, as nothing in the client relates two entries of the cache.
* `forms`: of two records one is typed for and another is shown; three sends let a repeated
  one be repeated again.
* `platform_lists`: fetches of different filters overtake each other, before, between and
  after two changes, so that two handlers can complete on one visit. `SetFilter` may exceed `MaxFlights` by one, as the audit log asks twice.
* `payslips`: of two employees one has every row and a salary or commissions, the other is paid by the day,
  may be on unpaid leave, and makes a list of runs longer than one, so that a load has a part done.
  The rows are a table given by the CONSTANTS `Component`, `Action`, `Loan`, `UnpaidLeave` and
  `Commission`; their amounts are such that no two cancel each other out. One day is enough because
  pay and payable count the days of each status one by one.

Bounds in guards: `MaxPaid` (no payments beyond it) in `InvoiceBook`; in `SalesBook` `MaxStock`, and
`Trading` and `Booked`, which keep apart the behaviours in which invoices are edited and those in
which they are only sold (without a payment at once, which `InvoiceBook`'s `Sale` has); `LastDay`,
`LastRaced` (days when requests overlap) and `LastLeft` (last day with departures) in
`AttendanceBook`, and there penalties are forgiven and a payroll period is opened only in
serial behaviours, each marked "bound" in the module; `MaxFlights`, `MaxJobs`, `MaxChanges`,
`MaxTexts` and `MaxSends` in the client's modules. Requests in `attendance` and clerks in `invoices` are
interchangeable, so these two are checked up to symmetry; they have no liveness property. Each property of a
run that passes has a mutant in `PROJECT.json`: a plausible mistake in the code for which the same run fails.

Two settings are worth separating. *Overlapping* behaviours, and theorems without an
assumption, speak of the system as deployed. *Serial* ones let one handler, task or
lock request finish before the next starts, while queued tasks, retries, open requests,
deletions and failures still come in any order; they show that the logic is right, and
that what breaks under load breaks because copies are stale. In `leave` and `payroll` a behaviour
chooses its setting at the start from the CONSTANT `Settings` (with the requests, edits, amounts or
lock requests it has) and keeps it; a property that is about one setting says so in its
premise (`~Overlapping`, `Edit = {}`). The client has no
serial setting: its properties hold under every order of answers, and where they do not, the
exception is named in the property. Deadlock checking is off where a behaviour may simply have
nothing left to do (all tasks done, the invoice deleted, the last day over, the bound on
changes reached); in `leave` HR can always switch a type, so it stays on there.

**Fairness.** Only the liveness properties need it, and each what the code justifies:

* `EveryTaskEnds`: weak fairness of a task's own steps (a worker that has started goes on),
  of the view's insertion of the task row, and of `TaskFails`, per task. The last is what
  the soft time limit gives: a task that hangs in `generating`, e.g. waiting for a row that
  another generation has written, is ended by an exception.
* `Contract` (its liveness part): every request sent gets an answer or an error of the network,
  the refresh too, and the timer of a 429 fires.
* `Settles`: the effects of a render run, and a fetch of `/me` ends.
* `PayablesCome`: the requests of each employee's load are answered or fail, and what is answered
  is handled.

Nothing is assumed about visitors: nobody has to do anything.

## Proofs

All theorems are about the modules' specifications for all values of the constants that
satisfy the modules' assumptions. TLC evaluates those assumptions in every run.

* `LeaveWorkflow_proofs`. Types and `ApprovedOnce` are inductive as they stand (an approval
  tests the status under the lock). `ApprovedByApprover` needs `StampedIsDecided`: a pending
  save of `decided_by` belongs to a request that is decided for good, so it cannot
  overwrite an approver. `NoOverdraft` needs what the lock gives, that an approval
  compares with the balance it changes; it speaks of settings in which nobody edits balances
  (`Edit = {}`), since an edit may lower the allotment. For serial behaviours `SerialInv`
  says that whoever is in flight is alone (`InFlightAlone`) and that its copy is still
  current (`CopiesCurrent`); with it `NoDoubleBooking` holds and every step is a step of
  `LeaveContract` or a stutter (`LeaveImplementsContract`). These assume of `Settings` that no payload sets
  `used_days` (`GrantsOnly`). The two properties about sums use `SetSums`: an approval adds one summand
  to what a balance owes and charges exactly that (`ApproveOwes`, `ApproveDeducts`), every
  other step leaves the approved requests alone. `BalanceMatchesApproved` is serial, as
  a save of a stale row undoes a deduction; `ApprovedIsCharged` is under all interleavings with `Edit =
  {}`, and needs that a request filed is for a day at least (`SubmittedLong`), so that whatever
  takes a request out of the approved ones can only lower what is owed.
* `SetSums`. The library defines a sum over a set by a recursive function under a CHOOSE and
  proves nothing of it, and its induction theorems take an operator as a parameter, which the
  provers here cannot instantiate. What they can use is that the subsets of a finite set are well
  ordered by strict inclusion (`FS_StrictSubsetOrderingWellFounded`, `WFMin`): a set of counterexamples
  has a least one (`LeastSubset`), and at that one a single step of the function refutes it. So the
  function exists (`SumsExist`), two of them agree (`SumsAgree`), and a sum may be taken
  apart at any element (`SumRemove`, `SumAdd`), not only the one the library chooses. The sum over
  two disjoint sets is that of their sums (`SumUnion`), and renaming what is summed over changes nothing (`SumRenamed`).
* `PayrollAndPayslips_proofs`, on `PayrollCycle`. `GeneratedTogether` needs that payments under way are for existing
  runs, `PostedIsLocked` that an event comes after its lock; both hold under all races, and
  so does `FrozenOnceQuiet`: a generation that starts after the lock reads the lock.
  For serial behaviours `SerialInv` has again the two parts *alone* and *current*, the
  second now with the uncommitted entry of a lock equal to the earnings; from it follow
  `JournalMatchesRuns`, `LockedIsSettled`, `PaidIsFinal` and `PayrollImplementsContract`.
  On `Payslips`, for any finitely many employees and days and any table of rows: first what the
  lines of a run are worth. They are nine parts, disjoint by their codes (`LinesAre`,
  `LinesSplit`), so the sums of generator and page differ only in the basic line, which the
  page pays by presence instead; on settled days the two are equal (`PresencePays`, `RateRead`,
  `PayableIsNet`). `PreviewIsNet` compares the rows each preview counts with the rows the generator
  would (`PayrollRows`, `ProfileRows`, `LateDays`), row by row from its dates, period, state and
  remaining amount, but for those of `payroll_misses` and `profile_misses`, and needs of the states only their types and that
  a run was made by `Lines` of some rows (`Slips`). `SlipIsNet` needs to know what three
  kinds of loads have in hand while the runs may change under them: `Pagewise` says, of every run
  untouched since the page opened, that what its load has read, the payable it led to and the
  listed net are the run's, and that a closed page holds nothing.
* `InvoiceBook_proofs`. `OneEntryPerInvoice` and `IssuedIsPosted` under all races, with the
  assumption that entries are not deleted by hand. The strengthening `Kept` says what the
  copies of requests know: one that read "issued" reads an invoice with an entry
  (`CopiesPosted`), and an edit that will write a status writes one it has read
  (`EditsPosted`); without it an edit could restore "issued" out of nowhere. The second
  part is about serial behaviours: who is at work is `Alone`, its `CopiesCurrent`, and at
  each of its statements `EntriesRight` says how far the entry may lag behind the total,
  `Shown` how far the status may lag behind the payments (where payments do not move);
  `JournalMatchesIssued`, `PaidIsShown` and `NeverUnissued` follow.
  The third part is about `SalesBook`, first that it refines `InvoiceBook` (`SalesRefineInvoices`), so
  that all of the above holds of it. `StockNeverNegative`, under all races, needs that whatever
  a request will write back was tested on its copy (`Reserved`). `ExpenseIsBooked`: who is
  at work is the only one, its copy agrees with the row (`CopyRight`), what is posted agrees with
  the row (`HeadRight`), and an approved expense that nobody is posting has been (`AwaitsNothing`).
  `StockIsRecorded` needs that copies are current, which is where one request at a time that does not
  fail comes in, and follows the one step in which stock and transactions differ, a correction between
  its two writes (`ToRecord`). A sale writes each line's item once unless it is in `doubled`, so what
  it records of an item is a sum with one summand (`SumOfOne`).
* `AttendanceBook_proofs`. `PayableIsDecided`, `LatePenalised` and `ArrivalIsKept` under all
  races. A stale row may be written back at any time, so the invariant is put on rows
  and on copies alike: each is *sound* (no approval without its decider, no departure
  without an arrival) and *covered* (if it is late beyond the threshold, its penalty
  exists), and a request's copy is kept to what its row can be
  (`IInv == Typed /\ RowsKept /\ JobsKept`).
  The second part is serial: with one request at a time rows have their deciders
  (`RowsDecided`), who is at work is `Alone` and its copy fresh (`JobsFresh`), which gives
  `DecisionStands`. `OftenLatePenalised` counts: late rows have an arrival, days to come
  have no row, a job is about today, and therefore a new arrival adds at most one day to
  the window the rule counts; that a subset's cardinality is not larger is the library's.
* `HttpAndLists_proofs`, on `HttpClient`. The inductive invariant is `RefreshIsShared` itself with the types: one
  leader if and only if a refresh is under way, and nobody waits without one.
  `AtMostFourSends` bounds the sends by the two retry counts at each phase of a call,
  `SignedOutStays` needs in addition that no refresh begins while nobody is signed in
  (`StaysOut`). `HttpKeepsPromises` is the safety part of `Contract`: every step is
  one of `CallContract` or a stutter.
  On `PlatformLists`: `ListIsRight` speaks of quiet pages only, so the invariant `ListRight`
  says of every state what the *newest* fetch under way will bring: the filters of the page
  and, if it has been read, every change told of; older ones are made late when it lands.
  While the dialog with the code is open it may lag, as closing it asks again.
* `Screens_proofs`. `OwnData` is inductive once it says of a fetch under way what it will say of the
  data (`Owned`). `UpToDate` speaks of quiet pages; `Informing` says of every state that the
  entry brings every change told (`Brings`: it has them, or a fetch under way has read or will read
  them), that an entry kept for another page does or is marked invalid (`Spares`), and that
  from the moment the handler has refreshed the query after its last call that changes it, the entry
  brings *all* changes so far, not only those told (`Covered`). A refresh in the middle may be
  outrun by a later call; that one after the last call comes, is what the tables must give
  (`RefreshedLast`), and `TablesAssumption` states: it is about the constant tables of
  `PageHandlers` and `QueryHooks` alone, so TLC evaluates it for every handler and query there is.
  Everything else holds for any tables that satisfy it, and any `MaxChanges`.
* `FormsAndNavigation_proofs`, on `Forms`. First the table of `PageForms`, form by form: each is written so that what
  it sends is addressed (`Addressed`), what opens is empty (`Emptied`) and one press sends one
  request (`AsksOnce`), or is named among the exceptions (`FormsFit`, from which `CasesFit`).
  Nothing is assumed of the table here. Then three invariants over any rows, texts and presses. `SentWhereTyped`: what is in a
  form was typed for the record it shows, and while it shows none, what is left in it goes
  when the next is chosen (`RightFor`). `OpensFresh`: what has been reported as done is in a
  form only while its dialog is not open for something new (`ToldGone`), which needs the texts
  numbered in the order they are typed (`Numbered`). `AskedOnce`: a form mounted anew holds
  nothing that a call still under way carries (`Forgotten`), two calls under way carry different
  contents (`Apart`), and no call is late (`NoneLate`).
  On `Navigation`: the invariant `OwnJudged` says that, unless the cache was reused, the
  cached `/me` and every fetch of it under way are of who is signed in; `JudgedByOwnRole`
  and, by what the guards let through, `PlatformOnly` follow. `LinksLead` has two halves. One is about the
  tables: every list of links, narrowed to a role as its page does, names only pages at which the
  guards let that role stay or that forward it to one (`OfferedLeads`, page by page:
  `Lists`, `SidebarOffered`, `PlainLeads`, `PlatformLeads`). The other is about the steps
  (`StepOnTheWay`): while a link is followed the visitor is where it names, where that forwards,
  or waiting for `/me` at one of them.

Only proved, and checked in no run: `ApprovedOnce`, `NoDoubleBooking` (with one handler at a time; of
what overlaps see the gaps), `PostedIsLocked`, `LockedIsSettled`, `PaidIsFinal`, `NeverUnissued` and `PlatformOnly`,
which the runs' other properties rest on or imply.

Every safety invariant and action property the runs check is stated by a theorem. Only model-checked
is liveness, which is out of the prover's reach: `EveryTaskEnds`, the second part of `Contract`,
`Settles` and `PayablesCome`.

## Findings

Two sentences of the code say something else than what it does. Each is stated as a property that
TLC refutes.

1. The docstring of `approved_attendance_queryset` (`hr/services/attendance.py:653-656`): payroll and analytics
   include records whose times are approved "(or legacy NULL)". The query asks for
   `check_in_approval_status__in=[APPROVED, None]`, and an IN list matches no NULL: a check-in by GPS or QR, whose
   approval stays NULL until somebody decides, does not count. `Payable` has what the query does, `NullIsPayable`
   what the docstring says; the run `attendance_null` refutes it with one check-in.
2. The profile adds components, penalties and lateness up as deductions, and says above that sum: "This ensures consistency
   with Payroll Generation and Employee Profile for the same period"
   (`modules/hr/employee-profile/pages/EmployeeProfilePage.tsx:1210-1211`). A penalty is an `HRAction` and is mirrored by a
   component (`hr/services/actions.py:54`, 79), which the generator leaves out (`hr/services/generator.py:335`)
   and the profile does not. `ProfileDeductionsAgree` states the comment for periods worked in
   full; the run `payslips_profile` refutes it with one penalty.

## Gaps: why properties are restricted

What the code does not keep was met while stating the properties. Each item is why a
property excludes a case, is checked serially only, or is not stated.

Backend:

* A rejection or cancellation overlapping an approval leaves the deduction behind
  (`hr/services/leaves.py`, `reject_leave`). Two overlapping submissions book a day twice; a
  balance edit overwrites a deduction made since.
* The generator tests the lock on a copy of the period and rewrites the runs of a period that
  was locked since (`hr/services/generator.py:194`), although
  `docs/PAYROLL_ENGINE_SPEC_PART1.md:133-135` and `README.md:43` say that a lock ends
  generations; `FrozenOnceQuiet` is what remains. Two overlapping lock requests post two
  entries.
* A generation refused for the lock is first reported as failed by the task, which then
  returns; the `task_postrun` handler takes that for success and says so
  (`core/celery_signals.py:27`). The row of a task is inserted after the task is queued, and
  stays pending if the worker ends first (`hr/api_views.py:1891`).
* Two simultaneous payments each see only their own (`accounting/services/payments.py:10`).
  A payment that is edited, deleted or moved leaves the status of its invoice alone. A
  draft that is paid becomes paid without ever being posted; an edit of a partially paid
  invoice does not refresh its entry; issue and edit write a stale status over a payment.
* The second deduction of a rule, employee and payroll period violates a constraint of
  `HRAction`, which refuses the late check-in itself (`hr/services/policies.py:113`), and a
  forgiven penalty blocks the next one of its period.
* A decision about attendance, and an OTP check-out, save a whole stale row over a
  concurrent check-out, decision or deletion.
* Records whose approval is NULL do not count for payroll, although they are said to (finding 1);
  `PayableIsDecided` is about those that do count.
* A soft-deleted attendance row keeps the employee from checking in that day
  (`hr/attendance/models.py:121-124`). A check-out after midnight looks for a record of the
  new day.
* `test_lock_creates_payroll_journal_entry` and `test_invoices` expect entries with two
  sides; entries now have one line.
* `docs/PAYROLL_ENGINE_SPEC_PART1.md:134` blocks changes to attendance and leave of a locked
  month, which nothing implements.
* Loans are never reduced by payroll; commissions and penalties are paid in every period
  whose dates contain them (`hr/services/generator.py:445-528`).
* A recorded sale with the same item on two lines writes the stock it computed from
  one copy of the item per line, so one of the two deltas is lost (`accounting/views.py:377`):
  `doubled` in `StockIsRecorded`. Two overlapping sales or corrections lose one as well: two sales of the
  last unit both succeed and leave a stock of 0. A
  correction that fails after its first statement leaves no transaction.
* An expense is saved before its entry: a zero amount, which the entry refuses, or a failure
  in between leaves it approved and unbooked, and it can neither be approved nor edited again
  (`accounting/views.py:541`). The entry of a deleted expense stays.

Client:

* A refresh under way at a sign-out stores its token when it is answered
  (`shared/api/http.ts:282`); `SignedOutStays` is about every other sign-out.
* The cache, the answer to `/me` and so the role, survive a sign-out that only navigates.
  `JudgedByOwnRole` excludes who signs in after it (`reused`), `OwnData` what a hook keeps for a
  time.
* Menus have names the router no longer has, and all but one show the audit log to managers
  (`Misleading`). While the refetch of a cached `/me` keeps failing, guard and login page
  exchange the visitor (`Settles`).
* `Forgotten` in `Screens` lists the queries a handler changes and never refreshes on its own page;
  e.g. `AlertsCenterPage` invalidates `["alerts"]` while its list is kept under
  `["analyticsAlerts"]` (`pages/analytics/AlertsCenterPage.tsx:192`,
  `shared/analytics/hooks.ts:43`). A refresh that joins a first fetch the server had read
  already brings nothing new (`joined`).
* In the platform lists an answer overtaken by that of a later fetch, and the refetch of a
  handler begun under other filters, are shown as they come (`behind`). In
  `pages/admin/SuperAdminPage.tsx:397-399` the answer about one company closes the dialog of
  whichever is open.
* `AsksAgain` lists the forms that can send twice what was filled in once, `Misdirects` those
  that can send a text for another record, `ShowsLast` the dialogs that open with what was
  already added. A late fetch overwrites what was typed into an employee's profile
  (`modules/hr/employee-profile/pages/EmployeeProfilePage.tsx:951-976`), which `Forms` leaves out.
* The payable of a run is computed again in the browser: undecided days count as present, a
  monthly employee's absence is charged twice, and the salary expense books that
  amount. `SlipIsNet` is about settled days, and about runs and days that do not change while
  the page is open.
* The previews of the payroll page and of the profile do not count all rows as the generator does (finding 2).
  Both charge a mirrored penalty twice, count the installment of an advance of which less remains, if anything, and leave
  out unpaid leave of who has a salary by month, commissions on top of a salary, and what was made after the first
  instant of the period's last day. The payroll page leaves out lateness,
  takes in allowances that come later and penalties that only reach into the period, and goes by when
  a penalty was made and not by its day. The profile leaves out loans and older allowances and
  takes in what was made for a shorter period. `payroll_misses` and `profile_misses` name these rows, and `PreviewIsNet` is about employees
  who have none of them.

## Not modelled, and why

Backend: the decision of commission requests, and the fill and invalidation of the reference
cache, which are in the plan; the soft deletion of catalogue items, the attachments of expenses,
and entries made and posted by hand; everything without a life
of its own: rows edited one at a time (employees, departments, documents, catalogue
entries, users, roles), appends (messages, notifications, audit and export logs), reports,
exports and charts, copilot questions, the reports of the platform. Tokens, throttles and one-time
codes rest on the cache and on library code. Backups and restores are file transfers
whose result depends on the models' fields. Editing a payroll period by hand (its status
included), the other edits of a leave type and its deletion, and edits of rules and penalties belong to modelled parts but are not actions
yet, so these parts are listed as *partly* modelled.

Client: charts, exports and layout; the progress pages of setup templates; the unfiltered lists
that dialogs of the platform pages offer; the values that pages show. Code that no route reaches
is left out on purpose: `pages/CopilotPage.tsx`, the old `src/App.tsx`, the dashboard components
and company switcher that only they use, `modules/hr/employee-profile/components/`, and
files that only re-export others.

## Plan

Written in this order: leave, payroll, invoices and attendance with their contracts, then the
client from the calls outwards (calls, navigation, data, platform lists, forms, payslips), each
followed by its proofs, and last the sales that join invoices, stock and expenses. What is left, most behaviour per line first:

1. `CommissionDesk`: the decision view with `UserCanApproveCommission`, and role changes as a
   variable for `RolesOf`.
2. `ReferenceCache` (fill and invalidation), `AlertJobs` (anomaly detection and its cool-down), the
   application of a setup template and its progress page.
3. In `Forms`, lost answers and fetches that fill a form late; in `Payslips`, rounding.

Each comes with its proofs, as the modules before it; the sum lemmas of `SetSums` are what the rounding
in `Payslips` would need bounded next (cents lost per line against cents lost per run).
