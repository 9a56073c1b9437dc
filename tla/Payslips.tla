------------------------------ MODULE Payslips -------------------------------
(***************************************************************************)
(* What the browser says an employee is paid for a period, and what the    *)
(* server pays.  The generator turns rows into the lines of a run, whose   *)
(* net total is earnings less deductions.  The pages do not show that net: *)
(*   - the period's details, the employee's self service and the salary    *)
(*     expense load each run with the attendance of its days and add up a  *)
(*     payable of their own, once per run and visit;                       *)
(*   - the payroll page and the employee's profile preview the pay from    *)
(*     the rows before anything is generated.                              *)
(*                                                                         *)
(* One period; amounts are whole, the rounding to cents is left out.  What *)
(* may write the rows is any change here, AttendanceBook has it in detail; *)
(* when a generation is allowed is in PayrollCycle.                        *)
(***************************************************************************)
EXTENDS Integers, FiniteSets, Functions, TLC

CONSTANTS Employee, Me,  \* who has runs, and who is at his self service
          Day,           \* the days of the period
          MonthDays,     \* WORKING_DAYS_PER_MONTH: what a salary is divided by
          Starting,      \* how the employees may be paid
          Worth,         \* the rows there may be, with their amounts: among them
          Component,     \* SalaryComponent
          Action,        \* HRAction, the deductions
          Loan,          \* LoanAdvance; its amount is the installment
          UnpaidLeave,   \* approved requests: the days in the period
          Commission,    \* approved requests earned in the period
          Rows,          \* the rows each employee may get
          MaxChanges,    \* changes of rows in a behaviour
          Unset

Kind == {"monthly", "weekly", "daily", "commission"}
ASSUME PayslipAssumption ==
  /\ Me \in Employee /\ MonthDays \in Nat \ {0} /\ MaxChanges \in Nat
  /\ IsFiniteSet(Employee) /\ IsFiniteSet(Day)
  /\ Starting \subseteq [Employee -> Kind]

VARIABLES kind,      \* SalaryStructure.salary_type
          days,      \* the attendance record of each day
          items,     \* the other rows that may count
          run,       \* PayrollRun with its lines, and the days it was made from
          page,      \* the page that is open
          listed,    \* its list of runs: their net totals
          payables,  \* runPayables
          job,       \* what the load under way has read
          moved,     \* whose days or run have changed since the page opened
          changes

rowVars == <<kind, days, items>>
pageVars == <<page, listed, payables, job>>
slipVars == <<rowVars, run, pageVars, moved, changes>>

-----------------------------------------------------------------------------
(* The rows.  An undecided record (pending, or rejected) has an arrival.   *)
Status == {"none", "present", "late", "absent", "undecided"}
Rate == 480
LateMinutes == 5

(* Dates are told apart by where they fall: before the period, in it, on   *)
(* its last day past midnight, later.                                      *)
Date == {"before", "in", "last", "later"}
InPeriod == {"in", "last"}
(* The period a component was made for; "within" is a shorter one in this. *)
ComponentRow == [type: {"earning", "deduction"}, recurring: BOOLEAN,
                 period: {"none", "this", "within", "other"}, created: Date]
(* A penalty is for the day of a record, for a span of days, or both; the  *)
(* span ends in the period or only reaches into it.                        *)
ActionRow == [day: {"none", "in", "out"}, span: {"none", "in", "into", "out"},
              created: Date]
LoanRow == [type: {"loan", "advance"}, starts: Date, active: BOOLEAN, remaining: Nat]

Item == DOMAIN Worth
(* A penalty and the component that mirrors it are one element of Item.    *)
ASSUME RowsAssumption ==
  /\ IsFiniteSet(Item) /\ Worth \in [Item -> Nat \ {0}]
  /\ Component \in [DOMAIN Component -> ComponentRow]
  /\ Action \in [DOMAIN Action -> ActionRow]
  /\ Loan \in [DOMAIN Loan -> LoanRow]
  /\ UnpaidLeave \in [DOMAIN UnpaidLeave -> Nat]
  /\ DOMAIN Component \cup DOMAIN Action \cup DOMAIN Loan \cup DOMAIN UnpaidLeave
       \cup Commission \subseteq Item
  /\ Rows \in [Employee -> SUBSET Item]
TotalWorth(its) == SumFunctionOnSet(Worth, its)

Days(r, statuses) == Cardinality({d \in Day : r[d] \in statuses})
AttendanceBased(k) == k \in {"daily", "weekly"}

-----------------------------------------------------------------------------
(* The generator                                                           *)
Line(code, type, amount) == [code |-> code, type |-> type, amount |-> amount]

DailyRate(k) == IF k = "commission" THEN 0 ELSE Rate
BasicAmount(k, r) ==
  IF AttendanceBased(k) THEN Rate * Days(r, {"present", "late"})
  ELSE IF k = "monthly" THEN Rate * MonthDays ELSE 0

generator_components(its) ==
  {i \in (its \cap DOMAIN Component) \ DOMAIN Action :
     LET c == Component[i]
     IN \/ c.period = "this"
        \/ c.period = "none" /\ c.recurring /\ c.created # "later"
        \/ c.period = "none" /\ ~c.recurring /\ c.created \in InPeriod}
policy_deductions(its) ==
  {i \in its \cap DOMAIN Action :
     LET a == Action[i]
     IN \/ a.day = "in" \/ a.span = "in"
        \/ a.day = "none" /\ a.span = "none" /\ a.created \in InPeriod}
generator_loans(its) ==
  {i \in its \cap DOMAIN Loan :
     /\ Loan[i].active /\ Loan[i].remaining > 0
     /\ Loan[i].type = "advance" => Loan[i].starts \in InPeriod}
installment ==
  [i \in DOMAIN Loan |-> IF Worth[i] <= Loan[i].remaining THEN Worth[i]
                                                         ELSE Loan[i].remaining]
unpaid_leave_days(its) == SumFunctionOnSet(UnpaidLeave, its \cap DOMAIN UnpaidLeave)

ItemLines(code, type, its, amount) == {Line(<<code, i>>, type, amount[i]) : i \in its}

Lines(k, r, its) ==
  LET rate == DailyRate(k)
      own == generator_components(its)
      late == (rate \div 480) * LateMinutes * Days(r, {"late"})
      ByRate(n) == IF AttendanceBased(k) THEN 0 ELSE rate * n
      computed == {Line(<<"BASIC", rate>>, "earning", BasicAmount(k, r)),
                   Line(<<"LATE", rate>>, "deduction", late),
                   Line(<<"ABSENT", rate>>, "deduction", ByRate(Days(r, {"absent"}))),
                   Line(<<"UNPAID_LEAVE", rate>>, "deduction",
                        ByRate(unpaid_leave_days(its)))}
  IN {l \in computed : l.amount > 0}
     \cup {Line(<<"COMP", i>>, Component[i].type, Worth[i]) : i \in own}
     \cup ItemLines("COMM", "earning", its \cap Commission, Worth)
     \cup ItemLines("POLICY", "deduction", policy_deductions(its), Worth)
     \cup ItemLines("LOAN", "deduction", generator_loans(its), installment)

Amounts(lines) == SumFunction([l \in lines |-> l.amount])
Earnings(lines) == {l \in lines : l.type = "earning"}
Deductions(lines) == {l \in lines : l.type = "deduction"}
net_total(lines) == Amounts(Earnings(lines)) - Amounts(Deductions(lines))

-----------------------------------------------------------------------------
(* The payable the pages compute from the lines and the attendance         *)
Coded(lines, code) == {l \in lines : l.code[1] = code}

(* Every record that is not an absence is a day of presence.               *)
presentDays(r) == Days(r, Status \ {"none", "absent"})
(* The rate comes with the basic line; without it there is none.           *)
dailyRate(lines) ==
  IF Coded(lines, "BASIC") = {} THEN 0
  ELSE (CHOOSE l \in Coded(lines, "BASIC") : TRUE).code[2]

(* mutant: commissions are bonuses as well                                 *)
BonusesWithCommissions(lines) == Amounts(Earnings(lines) \ Coded(lines, "BASIC"))
bonuses(lines) ==
  Amounts(Earnings(lines) \ (Coded(lines, "BASIC") \cup Coded(lines, "COMM")))
commissions(lines) == Amounts(Earnings(lines) \cap Coded(lines, "COMM"))
deductions(lines) == Amounts(Deductions(lines) \ Coded(lines, "LOAN"))
advances(lines) == Amounts(Deductions(lines) \cap Coded(lines, "LOAN"))

calculatePayableTotal(lines, r) ==
  presentDays(r) * dailyRate(lines) + bonuses(lines) + commissions(lines)
    - deductions(lines) - advances(lines)

-----------------------------------------------------------------------------
(* The previews                                                            *)
(* mutant: the period a component was made for is not looked at            *)
AnyPeriod(c) == c.recurring \/ c.created = "in"
(* The browser takes the period to end with the first instant of its last  *)
(* day.                                                                    *)
isComponentInRange(c) ==
  IF c.period # "none" THEN c.period = "this" ELSE c.recurring \/ c.created = "in"

resolveDailyRate(k) == IF k = "commission" THEN 0 ELSE Rate

(* The payroll page asks for all components, actions and loans.            *)
payroll_components(its) ==
  {i \in its \cap DOMAIN Component : isComponentInRange(Component[i])}
isHrActionInRange(a) ==
  IF a.span # "none" THEN a.span \in {"in", "into"} ELSE a.created = "in"
payroll_advances(its) ==
  {i \in its \cap DOMAIN Loan :
     Loan[i].active /\ (Loan[i].type = "advance" => Loan[i].starts \in InPeriod)}
summaryStats_netPay(k, r, its) ==
  LET own == payroll_components(its)
      earned == {i \in own : Component[i].type = "earning"}
      actions == {i \in its \cap DOMAIN Action : isHrActionInRange(Action[i])}
  IN (IF k = "commission" THEN TotalWorth(its \cap Commission)
                          ELSE resolveDailyRate(k) * presentDays(r))
     + TotalWorth(earned) - TotalWorth(own \ earned) - TotalWorth(actions)
     - TotalWorth(payroll_advances(its))

(* The profile asks for those of the period's days.                        *)
profile_fetched(c) ==
  c.period \in {"this", "within"} \/ (c.period = "none" /\ c.created \in InPeriod)
profile_isComponentInRange(c) ==
  IF c.period # "none" THEN c.period \in {"this", "within"}
  ELSE c.recurring \/ c.created = "in"
profile_components(its) ==
  {i \in its \cap DOMAIN Component :
     profile_fetched(Component[i]) /\ profile_isComponentInRange(Component[i])}
profile_advances(its) ==
  {i \in its \cap DOMAIN Loan :
     Loan[i].active /\ Loan[i].type = "advance" /\ Loan[i].starts \in InPeriod}
adjustmentTotals(k, r, its) ==
  LET own == profile_components(its)
      earned == {i \in own : Component[i].type = "earning"}
      late == (resolveDailyRate(k) \div 480) * LateMinutes * Days(r, {"late"})
  IN [bonuses |-> TotalWorth(earned),
      deductions |-> TotalWorth(own \ earned) + TotalWorth(policy_deductions(its)) + late,
      advances |-> TotalWorth(profile_advances(its)),
      commissions |-> TotalWorth(its \cap Commission)]
profile_netPay(k, r, its) ==
  LET totals == adjustmentTotals(k, r, its)
  IN (IF k = "commission" THEN totals.commissions
                          ELSE resolveDailyRate(k) * presentDays(r))
     + totals.bonuses - (totals.deductions + totals.advances)

-----------------------------------------------------------------------------
(* The pages that load the runs                                            *)
NoList == Unset
NoJob == <<>>
Unread == [lines |-> Unset, days |-> Unset, failed |-> FALSE]

(* The self service reads the days after the run, the others along with it.*)
service_loadRunPayables == [sees |-> {Me}, sequential |-> TRUE, total |-> FALSE]
details_loadPayables == [sees |-> Employee, sequential |-> FALSE, total |-> FALSE]
expense_loadPayables == [sees |-> Employee, sequential |-> FALSE, total |-> TRUE]
Pages == [service |-> service_loadRunPayables, details |-> details_loadPayables,
          expense |-> expense_loadPayables]

WithRun == {e \in Employee : run[e] # Unset}
Net(e) == net_total(run[e].lines)

(* missingRuns: a run that has its payable is not loaded again.            *)
Launch(list, known) ==
  [e \in {e \in DOMAIN list : known[e] = Unset} |-> Unread]

SlipInit ==
  /\ kind \in Starting
  /\ days = [e \in Employee |-> [d \in Day |-> "none"]]
  /\ items = [e \in Employee |-> {}]
  /\ run = [e \in Employee |-> Unset]
  /\ page = "closed" /\ listed = NoList /\ job = NoJob
  /\ payables = [e \in Employee |-> Unset]
  /\ moved = {} /\ changes = 0

MayChange == changes < MaxChanges /\ changes' = changes + 1

Attend(e, d) ==
  /\ MayChange
  /\ \E s \in Status \ {days[e][d]} : days' = [days EXCEPT ![e][d] = s]
  /\ moved' = moved \cup {e}
  /\ UNCHANGED <<kind, items, run, pageVars>>

(* Lines are kept with the run: a row that comes later is not in it.       *)
Adjust(e, i) ==
  /\ MayChange
  /\ items' = [items EXCEPT ![e] = IF i \in @ THEN @ \ {i} ELSE @ \cup {i}]
  /\ UNCHANGED <<kind, days, run, pageVars, moved>>

Generate ==
  /\ run' = [e \in Employee |->
               [lines |-> Lines(kind[e], days[e], items[e]), made |-> days[e]]]
  /\ run' # run
  /\ moved' = Employee
  /\ UNCHANGED <<rowVars, pageVars, changes>>

Open(p) ==
  /\ page = "closed"
  /\ page' = p /\ moved' = {}
  /\ UNCHANGED <<rowVars, run, listed, payables, job, changes>>

(* The list answers, first or again.  New data runs the effect: its        *)
(* cleanup cancels the load under way and another one begins.              *)
(* mutant: a load is under way, so none is begun                           *)
RestartWhenIdle(list) == IF job = NoJob THEN Launch(list, payables) ELSE NoJob
Restart(list) == Launch(list, payables)
ListAnswers ==
  /\ page # "closed"
  /\ listed' = [e \in WithRun \cap Pages[page].sees |-> Net(e)]
  /\ listed' # listed
  /\ job' = Restart(listed')
  /\ UNCHANGED <<rowVars, run, page, payables, moved, changes>>

Reading(e) == e \in DOMAIN job /\ ~job[e].failed
Read(e) == job[e].lines # Unset /\ job[e].days # Unset

ReadRun(e) ==
  /\ Reading(e) /\ job[e].lines = Unset
  /\ job' = [job EXCEPT ![e].lines = run[e].lines]
  /\ UNCHANGED <<rowVars, run, page, listed, payables, moved, changes>>

ReadAttendance(e) ==
  /\ Reading(e) /\ job[e].days = Unset
  /\ Pages[page].sequential => job[e].lines # Unset
  /\ job' = [job EXCEPT ![e].days = days[e]]
  /\ UNCHANGED <<rowVars, run, page, listed, payables, moved, changes>>

ReadFails(e) ==
  /\ Reading(e) /\ ~Read(e)
  /\ job' = [job EXCEPT ![e].failed = TRUE]
  /\ UNCHANGED <<rowVars, run, page, listed, payables, moved, changes>>

(* Promise.all: the payables come together.  A failed load falls back to   *)
(* the net of the list.                                                    *)
RunPayable(e) == IF job[e].failed THEN listed[e]
              ELSE calculatePayableTotal(job[e].lines, job[e].days)
Land ==
  /\ job # NoJob
  /\ \A e \in DOMAIN job : job[e].failed \/ Read(e)
  /\ payables' = [e \in Employee |-> IF e \in DOMAIN job THEN RunPayable(e) ELSE payables[e]]
  /\ job' = NoJob
  /\ UNCHANGED <<rowVars, run, page, listed, moved, changes>>

(* Left, or the expense was saved and its form reset.                      *)
Leave ==
  /\ page # "closed"
  /\ page' = "closed" /\ listed' = NoList /\ job' = NoJob
  /\ payables' = [e \in Employee |-> Unset]
  /\ UNCHANGED <<rowVars, run, moved, changes>>

(* The amount of the salary expense: nothing until every run has its own.  *)
payrollPeriodTotal ==
  IF page # "expense" \/ listed = NoList \/ \E e \in DOMAIN listed : payables[e] = Unset
  THEN Unset
  ELSE SumFunctionOnSet(payables, DOMAIN listed)

Load(e) == ReadRun(e) \/ ReadAttendance(e) \/ ReadFails(e)
SlipNext ==
  \/ \E e \in Employee :
       \/ \E d \in Day : Attend(e, d)
       \/ \E i \in Rows[e] : Adjust(e, i)
       \/ ReadRun(e) \/ ReadAttendance(e) \/ ReadFails(e)
  \/ Generate \/ ListAnswers \/ Land \/ Leave
  \/ \E p \in DOMAIN Pages : Open(p)

SlipSpec == SlipInit /\ [][SlipNext]_slipVars
(* Requests are answered or fail, and what is answered is handled.         *)
SlipFairSpec == SlipSpec /\ WF_slipVars(Land) /\ \A e \in Employee : WF_slipVars(Load(e))

-----------------------------------------------------------------------------
(* What is paid by the day is paid by days that are decided; a month is    *)
(* paid whole, which presence makes up only day by day.                    *)
ByPresence(e) ==
  CASE kind[e] = "commission" -> TRUE
    [] kind[e] = "monthly" ->
         Cardinality(Day) = MonthDays /\ \A d \in Day : days[e][d] \in {"present", "late"}
    [] OTHER -> \A d \in Day : days[e][d] # "undecided"
Settled(e) == ByPresence(e) /\ days[e] = run[e].made

(* The payable a page shows for a run is the net the server pays, however  *)
(* its two readings, failures and refetches fall, as long as neither the   *)
(* run nor its attendance has changed since the page was opened or the run *)
(* was made; and so is the salary expense of the whole period.             *)
SlipIsNet ==
  /\ \A e \in WithRun :
       payables[e] # Unset /\ e \notin moved /\ Settled(e) => payables[e] = Net(e)
  /\ payrollPeriodTotal # Unset /\ moved = {} /\ (\A e \in WithRun : Settled(e))
       => payrollPeriodTotal = SumFunction([e \in WithRun |-> Net(e)])

(* A page that has its list shows every payable in the end, although every *)
(* change of the list cancels the load it interrupts.                      *)
PayablesCome ==
  page # "closed" /\ listed # NoList
    ~> \/ page = "closed"
       \/ listed # NoList /\ \A e \in DOMAIN listed : payables[e] # Unset

(* The rows a preview counts otherwise than the generator: penalties with  *)
(* a component; loans and advances of which less than an installment       *)
(* remains; what the browser's last day or the fetch cuts off or lets in;  *)
(* commissions of who has a salary; unpaid leave of who is paid by month.  *)
Mirrored == DOMAIN Component \cap DOMAIN Action
RunDown == {i \in DOMAIN Loan : Loan[i].active /\ Loan[i].remaining < Worth[i]}
Unlisted(e) == (IF kind[e] = "commission" THEN {} ELSE Commission)
                 \cup (IF kind[e] = "monthly" THEN DOMAIN UnpaidLeave ELSE {})
Undated(recurring, when) ==
  {i \in DOMAIN Component :
     LET c == Component[i]
     IN c.period = "none" /\ c.recurring = recurring /\ c.created = when}
payroll_misses(e) ==
  Mirrored \cup RunDown \cup Unlisted(e)
    \cup Undated(TRUE, "later") \cup Undated(FALSE, "last")
    \cup {i \in DOMAIN Action :
            LET a == Action[i]
            IN \/ a.span = "into" /\ a.day # "in"
               \/ a.span = "out" /\ a.day = "in"
               \/ a.span = "none" /\ a.created = "last"
               \/ a.span = "none" /\ a.day = "in" /\ a.created # "in"
               \/ a.span = "none" /\ a.day = "out" /\ a.created = "in"}
profile_misses(e) ==
  Mirrored \cup RunDown \cup Unlisted(e)
    \cup Undated(TRUE, "before") \cup Undated(FALSE, "last")
    \cup {i \in DOMAIN Component : Component[i].period = "within"}
    \cup {i \in DOMAIN Loan : Loan[i].active /\ Loan[i].type = "loan"}
NeverLate(e) == kind[e] = "commission" \/ \A d \in Day : days[e][d] # "late"

(* Before a generation the payroll page and the profile say what it would  *)
(* pay, as far as they count the same rows.  Of the rows named above they  *)
(* do not: neither has the unpaid leave, the last day of the period, a     *)
(* commission on top of a salary or what remains of an advance, both       *)
(* charge a mirrored penalty twice; the payroll page leaves out lateness,  *)
(* takes in allowances that come after the period and penalties that only  *)
(* reach into it, and goes by when a penalty was made and not by its day;  *)
(* the profile leaves out loans and older allowances and takes in what was *)
(* made for a shorter period.                                              *)
PreviewIsNet ==
  \A e \in Employee :
    LET net == net_total(Lines(kind[e], days[e], items[e]))
    IN ByPresence(e) =>
         /\ NeverLate(e) /\ items[e] \cap payroll_misses(e) = {}
              => summaryStats_netPay(kind[e], days[e], items[e]) = net
         /\ items[e] \cap profile_misses(e) = {}
              => profile_netPay(kind[e], days[e], items[e]) = net

(* What the comment on the profile's total says of it: regular deductions  *)
(* and lateness are what the generation deducts, installments aside, in a  *)
(* period that was worked in full.  The code does not keep it for the rows *)
(* of profile_misses.                                                      *)
ProfileDeductionsAgree ==
  \A e \in Employee :
    ByPresence(e) =>
      adjustmentTotals(kind[e], days[e], items[e]).deductions
        = deductions(Lines(kind[e], days[e], items[e]))
=============================================================================
