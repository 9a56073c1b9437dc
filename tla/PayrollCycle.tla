---------------------------- MODULE PayrollCycle -----------------------------
(***************************************************************************)
(* One payroll period: its generation by Celery workers                    *)
(* (hr/payroll/tasks.py, hr/services/generator.py), its locking with the   *)
(* journal posting (hr/services/lock.py,                                   *)
(* accounting/services/payroll_journal.py) and the paying of its runs      *)
(* (hr/api_views.py), on PostgreSQL READ COMMITTED.                        *)
(*                                                                         *)
(* A generation is one transaction that writes the employees' runs one     *)
(* after another: what it has written is locked, and visible to others     *)
(* only when it commits.  Everything else that reads the period or a run   *)
(* reads it without a lock and acts on that copy later.                    *)
(***************************************************************************)
EXTENDS Integers, Sequences, Folds, Functions

CONSTANTS Payable,     \* employees the period applies to, with a salary
          Task,        \* the generation requests of a behaviour
          Locker,      \* the lock requests
          MaxRetries,  \* max_retries of the task
          Settings,    \* what a behaviour may be made of, see setting
          MayDie,      \* workers may be killed
          NotYet

ASSUME PayrollAssumption ==
  /\ MaxRetries \in Nat
  /\ MayDie \in BOOLEAN
  /\ \A s \in Settings : /\ s.overlapping \in BOOLEAN
                         /\ s.amounts \subseteq Nat
                         /\ s.lockers \subseteq Locker
  /\ NotYet \notin Nat

VARIABLES period,     \* PayrollPeriod.status
          pay,        \* what the generator would compute for an employee now
          run_status, \* PayrollRun.status, "none" before the INSERT
          earnings,   \* PayrollRun.earnings_total
          entries,    \* the period's journal entries: the earnings they sum
          stage,      \* where each generation task is
          retries,    \* how often it has been retried
          drafted,    \* the runs it has written and not committed
          row,        \* PayrollTaskRun.status, "none" before the INSERT
          locker,     \* where each lock request is
          posting,    \* its uncommitted journal entry, as a sequence
          announced,  \* has_runs, read before its transaction
          paying,     \* runs that a payment has read as not paid
          setting     \* chosen once: whether several workers run at a time,
                      \* the gross pay a generation may compute for an
                      \* employee and the lock requests that may be made

runVars == <<run_status, earnings>>
taskVars == <<stage, retries, drafted, row>>
lockVars == <<locker, posting, announced>>
cycleVars == <<period, pay, runVars, entries, taskVars, lockVars, paying>>
vars == <<cycleVars, setting>>

Overlapping == setting.overlapping

RunStatus == {"none", "draft", "approved", "paid"}
RowStatus == {"none", "pending", "running", "success", "failed"}
Stage == {"idle", "queued", "refused", "generating", "committed",
          "notifying", "returning", "raising", "done", "dead"}
Bill == [Payable -> Nat]

TypeOK ==
  /\ period \in {"draft", "locked"}
  /\ pay \in [Payable -> Nat]
  /\ run_status \in [Payable -> RunStatus]
  /\ earnings \in Bill
  /\ entries \in Seq(Bill)
  /\ stage \in [Task -> Stage]
  /\ retries \in [Task -> 0..MaxRetries]
  /\ drafted \in [Task -> [Payable -> Nat \cup {NotYet}]]
  /\ row \in [Task -> RowStatus]
  /\ locker \in [Locker -> {"idle", "read", "ready", "event", "done"}]
  /\ posting \in [Locker -> Seq(Bill)]
  /\ announced \in [Locker -> BOOLEAN]
  /\ paying \subseteq Payable
  /\ setting \in Settings

Executing == {"refused", "generating", "committed", "notifying",
              "returning", "raising"}
Idle == /\ \A t \in Task : stage[t] \notin Executing
        /\ \A l \in Locker : locker[l] \in {"idle", "done"}
        /\ paying = {}
MayStart == Overlapping \/ Idle

Nothing == [e \in Payable |-> NotYet]
Written(t) == {e \in Payable : drafted[t][e] # NotYet}
Unlocked(e) == \A t \in Task : e \notin Written(t)
Existing == {e \in Payable : run_status[e] # "none"}
Total(bill) == FoldFunction(+, 0, bill)

Init ==
  /\ period \in {"draft", "locked"}  \* the serializer lets HR set either
  /\ setting \in Settings
  /\ pay \in [Payable -> setting.amounts]
  /\ run_status = [e \in Payable |-> "none"]
  /\ earnings = [e \in Payable |-> 0]
  /\ entries = <<>>
  /\ stage = [t \in Task |-> "idle"]
  /\ retries = [t \in Task |-> 0]
  /\ drafted = [t \in Task |-> Nothing]
  /\ row = [t \in Task |-> "none"]
  /\ locker = [l \in Locker |-> "idle"]
  /\ posting = [l \in Locker |-> <<>>]
  /\ announced = [l \in Locker |-> FALSE]
  /\ paying = {}

-----------------------------------------------------------------------------
(* PayrollPeriodGenerateView: the task is queued first, its row comes next *)
RequestGeneration(t) ==
  /\ stage[t] = "idle"
  /\ period = "draft"
  /\ stage' = [stage EXCEPT ![t] = "queued"]
  /\ UNCHANGED <<period, pay, runVars, entries, retries, drafted, row,
                 lockVars, paying>>

RecordTask(t) ==
  /\ stage[t] # "idle" /\ row[t] = "none"
  /\ row' = [row EXCEPT ![t] = "pending"]
  /\ UNCHANGED <<period, pay, runVars, entries, stage, retries, drafted,
                 lockVars, paying>>

(* filter(task_id = t).update(status = s): no row, no effect               *)
Report(t, s) ==
  row' = [row EXCEPT ![t] = IF @ = "none" THEN @ ELSE s]

-----------------------------------------------------------------------------
(* The task                                                                *)
(* mutant: the generator forgets the lock                                  *)
RefusesNothing(s) == FALSE
Refuses(s) == s = "locked"

(* The worker reads the period and reports RUNNING; the guard of the       *)
(* generator then looks at that copy.                                      *)
TaskStarts(t) ==
  /\ MayStart
  /\ stage[t] = "queued"
  /\ stage' = [stage EXCEPT ![t] = IF Refuses(period) THEN "refused"
                                                      ELSE "generating"]
  /\ Report(t, "running")
  /\ UNCHANGED <<period, pay, runVars, entries, retries, drafted, lockVars,
                 paying>>

(* ValidationError: reported, never retried; the task returns normally.    *)
TaskRefused(t) ==
  /\ stage[t] = "refused"
  /\ stage' = [stage EXCEPT ![t] = "returning"]
  /\ Report(t, "failed")
  /\ UNCHANGED <<period, pay, runVars, entries, retries, drafted, lockVars,
                 paying>>

GenerateEmployee(t, e) ==
  /\ stage[t] = "generating"
  /\ Unlocked(e)
  /\ drafted' = [drafted EXCEPT ![t][e] = pay[e]]
  /\ UNCHANGED <<period, pay, runVars, entries, stage, retries, row,
                 lockVars, paying>>

(* mutant: every employee is committed on its own                          *)
SomeWritten(t) == Written(t) # {}
AllWritten(t) == Written(t) = Payable

CommitRuns(t) ==
  /\ stage[t] = "generating"
  /\ AllWritten(t)
  /\ run_status' = [e \in Payable |->
                      IF e \in Written(t) THEN "draft" ELSE run_status[e]]
  /\ earnings' = [e \in Payable |->
                    IF e \in Written(t) THEN drafted[t][e] ELSE earnings[e]]
  /\ drafted' = [drafted EXCEPT ![t] = Nothing]
  /\ stage' = [stage EXCEPT ![t] = "committed"]
  /\ UNCHANGED <<period, pay, entries, retries, row, lockVars, paying>>

TaskSucceeds(t) ==
  /\ stage[t] = "committed"
  /\ stage' = [stage EXCEPT ![t] = "notifying"]
  /\ Report(t, "success")
  /\ UNCHANGED <<period, pay, runVars, entries, retries, drafted, lockVars,
                 paying>>

TaskNotifies(t) ==
  /\ stage[t] = "notifying"
  /\ stage' = [stage EXCEPT ![t] = "returning"]
  /\ UNCHANGED <<period, pay, runVars, entries, retries, drafted, row,
                 lockVars, paying>>

(* core/celery_signals.py: task_postrun reports whatever has returned as a *)
(* success, task_failure what has raised for good as a failure.            *)
TaskEnds(t) ==
  /\ stage[t] \in {"returning", "raising"}
  /\ stage' = [stage EXCEPT ![t] = "done"]
  /\ Report(t, IF stage[t] = "returning" THEN "success" ELSE "failed")
  /\ UNCHANGED <<period, pay, runVars, entries, retries, drafted, lockVars,
                 paying>>

(* mutant: the retries are not counted                                     *)
RetryUncounted(n) == n
CountRetry(n) == n + 1
MayRetry(t) == retries[t] < MaxRetries

(* Any other exception, the soft time limit and a failing notification     *)
(* included: the transaction is rolled back, the failure reported and the  *)
(* whole task queued again.                                                *)
TaskFails(t) ==
  /\ stage[t] \in {"generating", "committed", "notifying"}
  /\ drafted' = [drafted EXCEPT ![t] = Nothing]
  /\ Report(t, "failed")
  /\ IF MayRetry(t)
       THEN /\ stage' = [stage EXCEPT ![t] = "queued"]
            /\ retries' = [retries EXCEPT ![t] = CountRetry(@)]
       ELSE /\ stage' = [stage EXCEPT ![t] = "raising"]
            /\ UNCHANGED retries
  /\ UNCHANGED <<period, pay, runVars, entries, lockVars, paying>>

(* The worker process is killed: its message was acknowledged when it      *)
(* started, so nobody runs the task again or touches its row.              *)
WorkerDies(t) ==
  /\ MayDie
  /\ stage[t] \in Executing
  /\ stage' = [stage EXCEPT ![t] = "dead"]
  /\ drafted' = [drafted EXCEPT ![t] = Nothing]
  /\ UNCHANGED <<period, pay, runVars, entries, retries, row, lockVars,
                 paying>>

-----------------------------------------------------------------------------
(* lock_period                                                             *)
LockRead(l) ==
  /\ MayStart
  /\ l \in setting.lockers
  /\ locker[l] = "idle"
  /\ period # "locked"
  /\ locker' = [locker EXCEPT ![l] = "read"]
  /\ UNCHANGED <<period, pay, runVars, entries, taskVars, posting, announced,
                 paying>>

(* create_payroll_journal_entry: the entry a period without one is given   *)
NewEntry == IF entries = <<>> THEN <<earnings>> ELSE <<>>

(* has_runs, then the first half of the transaction; a total of zero is a  *)
(* ValidationError and ends the request.                                   *)
LockJournal(l) ==
  /\ locker[l] = "read"
  /\ announced' = [announced EXCEPT ![l] = Existing # {}]
  /\ IF Existing = {} THEN
       /\ locker' = [locker EXCEPT ![l] = "ready"]
       /\ UNCHANGED posting
     ELSE
       /\ entries = <<>> => Total(earnings) > 0
       /\ locker' = [locker EXCEPT ![l] = "ready"]
       /\ posting' = [posting EXCEPT ![l] = NewEntry]
  /\ UNCHANGED <<period, pay, runVars, entries, taskVars, paying>>

ApproveRun(s) == IF s = "none" THEN s ELSE "approved"
(* mutant: "status" is missing from update_fields                          *)
NotSaved == "draft"
LockedStatus == "locked"

(* The rest of it: the period is locked, the committed runs are approved   *)
(* (the UPDATE waits for a generation that holds one of them) and the      *)
(* entry becomes visible.                                                  *)
LockCommit(l) ==
  /\ locker[l] = "ready"
  /\ \A e \in Existing : Unlocked(e)
  /\ period' = LockedStatus
  /\ run_status' = [e \in Payable |-> ApproveRun(run_status[e])]
  /\ entries' = entries \o posting[l]
  /\ posting' = [posting EXCEPT ![l] = <<>>]
  /\ locker' = [locker EXCEPT ![l] = IF announced[l] THEN "event" ELSE "done"]
  /\ UNCHANGED <<pay, earnings, taskVars, announced, paying>>

(* on_commit: the accounting handler of "payroll.approved" asks for the    *)
(* journal entry again.                                                    *)
LockEvent(l) ==
  /\ locker[l] = "event"
  /\ entries' = entries \o NewEntry
  /\ locker' = [locker EXCEPT ![l] = "done"]
  /\ UNCHANGED <<period, pay, runVars, taskVars, posting, announced, paying>>

(* A lock request ends in an error and is rolled back; it may be repeated. *)
LockFails(l) ==
  /\ locker[l] \in {"read", "ready"}
  /\ locker' = [locker EXCEPT ![l] = "idle"]
  /\ posting' = [posting EXCEPT ![l] = <<>>]
  /\ UNCHANGED <<period, pay, runVars, entries, taskVars, announced, paying>>

-----------------------------------------------------------------------------
(* mark_paid, twice in the code: no lock and no look at the period         *)
PayRead(e) ==
  /\ MayStart
  /\ run_status[e] \in {"draft", "approved"}
  /\ paying' = paying \cup {e}
  /\ UNCHANGED <<period, pay, runVars, entries, taskVars, lockVars>>

PayWrite(e) ==
  /\ e \in paying /\ Unlocked(e)
  /\ run_status' = [run_status EXCEPT ![e] = "paid"]
  /\ paying' = paying \ {e}
  /\ UNCHANGED <<period, pay, earnings, entries, taskVars, lockVars>>

PayFails(e) ==
  /\ e \in paying
  /\ paying' = paying \ {e}
  /\ UNCHANGED <<period, pay, runVars, entries, taskVars, lockVars>>

(* Attendance, leave, components ... change what an employee would earn.   *)
InputsChange(e) ==
  /\ MayStart
  /\ \E a \in setting.amounts : pay' = [pay EXCEPT ![e] = a]
  /\ UNCHANGED <<period, runVars, entries, taskVars, lockVars, paying>>

-----------------------------------------------------------------------------
TaskStep(t) ==
  \/ TaskStarts(t) \/ TaskRefused(t) \/ CommitRuns(t)
  \/ TaskSucceeds(t) \/ TaskNotifies(t) \/ TaskEnds(t)
  \/ \E e \in Payable \ Written(t) : GenerateEmployee(t, e)

LockStep(l) == LockJournal(l) \/ LockCommit(l) \/ LockEvent(l)

Step ==
  \/ \E t \in Task : \/ RequestGeneration(t) \/ RecordTask(t) \/ TaskStep(t)
                     \/ TaskFails(t) \/ WorkerDies(t)
  \/ \E l \in Locker : LockRead(l) \/ LockStep(l) \/ LockFails(l)
  \/ \E e \in Payable :
       PayRead(e) \/ PayWrite(e) \/ PayFails(e) \/ InputsChange(e)
Next == Step /\ UNCHANGED setting

Spec == Init /\ [][Next]_vars

(* A worker that has a task goes on with it, a view that queued one writes *)
(* its row, and a task that is stuck is ended by the soft time limit.      *)
Fairness ==
  \A t \in Task : /\ WF_cycleVars(TaskStep(t))
                  /\ WF_cycleVars(RecordTask(t))
                  /\ WF_cycleVars(TaskFails(t))
FairSpec == Spec /\ Fairness

-----------------------------------------------------------------------------
(* A period's runs appear together: a failing or killed generation never   *)
(* leaves some of the employees without a run.                             *)
GeneratedTogether == Existing \in {{}, Payable}

(* An entry is posted only with the lock of its period, and so never by a  *)
(* lock request that failed.                                               *)
PostedIsLocked == entries # <<>> => period = "locked"

(* With one worker at a time the journal says what the runs say, and says  *)
(* it once.                                                                *)
JournalMatchesRuns ==
  ~Overlapping =>
    /\ Len(entries) <= 1
    /\ period = "locked" /\ Existing # {} => entries = <<earnings>>

(* With one worker at a time a period is locked with all of its runs       *)
(* approved or paid.                                                       *)
LockedIsSettled ==
  ~Overlapping /\ period = "locked"
    => \A e \in Payable : run_status[e] # "draft"

(* With one worker at a time a run that is paid after the lock stays paid, *)
(* whatever tasks, retries and lock requests are still under way.          *)
PaidIsFinal ==
  [][\A e \in Payable :
       ~Overlapping /\ period = "locked" /\ run_status[e] = "paid"
         => run_status'[e] = "paid"]_vars

(* A generation that read the period before its lock still rewrites the    *)
(* runs of the locked period; nothing else does, and no later task, retry  *)
(* or lock request can start such a generation again.                      *)
NobodyGenerates == \A t \in Task : stage[t] # "generating"
FrozenOnceQuiet ==
  [][period = "locked" /\ NobodyGenerates
       => NobodyGenerates' /\ UNCHANGED earnings]_vars

(* With several workers every requested generation ends: it commits, is    *)
(* refused, gives up after its retries or is lost with its worker.         *)
EveryTaskEnds ==
  \A t \in Task :
    Overlapping /\ stage[t] = "queued" ~> stage[t] \in {"done", "dead"}

-----------------------------------------------------------------------------
(* Why they hold.  A payment is under way for an existing run only, and    *)
(* the event of a lock comes after the lock.                               *)
PaidExists == paying \subseteq Existing
EventAfterLock == \A l \in Locker : locker[l] = "event" => period = "locked"

(* With one worker at a time, whoever is at work is so alone ...           *)
Locking == {"read", "ready", "event"}
NoTaskRuns == \A t \in Task : stage[t] \notin Executing
NobodyLocks == \A l \in Locker : locker[l] \notin Locking
Alone ==
  /\ \A t \in Task : stage[t] \in Executing =>
       /\ NobodyLocks /\ paying = {}
       /\ \A u \in Task \ {t} : stage[u] \notin Executing
  /\ \A l \in Locker : locker[l] \in Locking =>
       /\ NoTaskRuns /\ paying = {}
       /\ \A m \in Locker \ {l} : locker[m] \notin Locking

(* ... and its copy of the period and of the runs is still what they are.  *)
CopiesCurrent ==
  /\ \A t \in Task : stage[t] = "generating" => period = "draft"
  /\ \A l \in Locker :
       /\ locker[l] \in {"read", "ready"} => period = "draft"
       /\ locker[l] # "ready" => posting[l] = <<>>
       /\ locker[l] = "ready" =>
            /\ announced[l] <=> Existing # {}
            /\ Existing = {} => posting[l] = <<>>
            /\ Existing # {} => posting[l] = <<earnings>> /\ Total(earnings) > 0
       /\ locker[l] = "event" => Existing # {}

SerialInv == /\ GeneratedTogether /\ PaidExists /\ PostedIsLocked
             /\ EventAfterLock
             /\ ~Overlapping => /\ Alone /\ CopiesCurrent
                                /\ JournalMatchesRuns /\ LockedIsSettled

-----------------------------------------------------------------------------
Contract == INSTANCE PayrollContract WITH
  Billable <- {bill \in Bill : Total(bill) > 0}

(* One worker at a time, the code keeps the contract although the          *)
(* generator, the lock and the payments all act on copies they read        *)
(* earlier and tasks and retries outlive the request that started them.    *)
ImplementsContract ==
  /\ ~Overlapping => Contract!Init
  /\ [][~Overlapping => Contract!Next]_<<period, run_status, earnings, entries>>
=============================================================================
