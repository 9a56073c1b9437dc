--------------------- MODULE PayrollAndPayslips_proofs ----------------------
(***************************************************************************)
(* Theorems about PayrollCycle, for every set of employees, amounts, tasks *)
(* and lock requests and every number of retries, and about Payslips, for  *)
(* any employees, days and rows and any number of changes.                 *)
(***************************************************************************)
EXTENDS PayrollCycle, Payslips, SetSums, TLAPS

-----------------------------------------------------------------------------
(* Type correctness.                                                       *)

LEMMA TypeOKInit == Init => TypeOK
<1>. SUFFICES ASSUME Init PROVE TypeOK
  OBVIOUS
<1>. USE PayrollAssumption DEF PayrollAssumption
<1>1. pay \in [Payable -> Nat] /\ earnings \in Bill
  BY DEF Init, Bill
<1>3. retries \in [Task -> 0..MaxRetries]
  BY DEF Init
<1>4. drafted \in [Task -> [Payable -> Nat \cup {NotYet}]]
  BY DEF Init, Nothing
<1>2. /\ entries \in Seq(Bill)
      /\ posting \in [Locker -> Seq(Bill)]
  BY DEF Init
<1>. QED  BY <1>1, <1>2, <1>3, <1>4 DEF Init, TypeOK, RunStatus, RowStatus, Stage

LEMMA NewEntryType == ASSUME TypeOK PROVE NewEntry \in Seq(Bill)
BY DEF TypeOK, NewEntry

LEMMA NothingType == Nothing \in [Payable -> Nat \cup {NotYet}]
BY DEF Nothing

LEMMA TypeOKStep == TypeOK /\ [Next]_vars => TypeOK'
<1>. SUFFICES ASSUME TypeOK, [Next]_vars PROVE TypeOK'
  OBVIOUS
<1>. USE DEF TypeOK, RowStatus, Stage, RunStatus, runVars, taskVars, lockVars
<1>0. setting' \in Settings
  BY DEF Next, vars
<1>. USE <1>0
<1>1. ASSUME NEW t \in Task, RequestGeneration(t) PROVE TypeOK'
  BY <1>1 DEF RequestGeneration
<1>2. ASSUME NEW t \in Task, RecordTask(t) PROVE TypeOK'
  BY <1>2 DEF RecordTask
<1>3. ASSUME NEW t \in Task, TaskStarts(t) PROVE TypeOK'
  BY <1>3 DEF TaskStarts, Report
<1>4. ASSUME NEW t \in Task, TaskRefused(t) PROVE TypeOK'
  BY <1>4 DEF TaskRefused, Report
<1>5. ASSUME NEW t \in Task, NEW e \in Payable, GenerateEmployee(t, e)
      PROVE TypeOK'
  BY <1>5 DEF GenerateEmployee
<1>6. ASSUME NEW t \in Task, CommitRuns(t) PROVE TypeOK'
  <2>1. drafted' \in [Task -> [Payable -> Nat \cup {NotYet}]]
    BY <1>6, NothingType DEF CommitRuns
  <2>2. earnings' \in Bill /\ run_status' \in [Payable -> RunStatus]
    BY <1>6 DEF CommitRuns, Bill, Written
  <2>. QED  BY <1>6, <2>1, <2>2 DEF CommitRuns
<1>7. ASSUME NEW t \in Task, TaskSucceeds(t) PROVE TypeOK'
  BY <1>7 DEF TaskSucceeds, Report
<1>8. ASSUME NEW t \in Task, TaskNotifies(t) PROVE TypeOK'
  BY <1>8 DEF TaskNotifies
<1>21. ASSUME NEW t \in Task, TaskEnds(t) PROVE TypeOK'
  BY <1>21 DEF TaskEnds, Report
<1>9. ASSUME NEW t \in Task, TaskFails(t) PROVE TypeOK'
  <2>1. drafted' \in [Task -> [Payable -> Nat \cup {NotYet}]]
    BY <1>9, NothingType DEF TaskFails
  <2>2. retries' \in [Task -> 0..MaxRetries]
    <3>1. CASE MayRetry(t)
      <4>1. retries[t] + 1 \in 0..MaxRetries
        BY <3>1, PayrollAssumption DEF MayRetry, PayrollAssumption
      <4>. QED  BY <1>9, <3>1, <4>1 DEF TaskFails, CountRetry
    <3>2. CASE ~MayRetry(t)
      BY <1>9, <3>2 DEF TaskFails
    <3>. QED  BY <3>1, <3>2
  <2>3. row' \in [Task -> RowStatus] /\ stage' \in [Task -> Stage]
    BY <1>9 DEF TaskFails, Report
  <2>. QED  BY <1>9, <2>1, <2>2, <2>3 DEF TaskFails
<1>10. ASSUME NEW t \in Task, WorkerDies(t) PROVE TypeOK'
  <2>1. drafted' \in [Task -> [Payable -> Nat \cup {NotYet}]]
    BY <1>10, NothingType DEF WorkerDies
  <2>. QED  BY <1>10, <2>1 DEF WorkerDies
<1>11. ASSUME NEW l \in Locker, LockRead(l) PROVE TypeOK'
  BY <1>11 DEF LockRead
<1>12. ASSUME NEW l \in Locker, LockJournal(l) PROVE TypeOK'
  <2>1. (Existing # {}) \in BOOLEAN
    OBVIOUS
  <2>. QED  BY <1>12, <2>1, NewEntryType DEF LockJournal
<1>13. ASSUME NEW l \in Locker, LockCommit(l) PROVE TypeOK'
  <2>1. entries' \in Seq(Bill) /\ posting' \in [Locker -> Seq(Bill)]
    BY <1>13 DEF LockCommit
  <2>2. run_status' \in [Payable -> RunStatus]
    BY <1>13 DEF LockCommit, ApproveRun
  <2>. QED  BY <1>13, <2>1, <2>2 DEF LockCommit, LockedStatus
<1>14. ASSUME NEW l \in Locker, LockEvent(l) PROVE TypeOK'
  <2>1. entries' \in Seq(Bill)
    BY <1>14, NewEntryType DEF LockEvent
  <2>. QED  BY <1>14, <2>1 DEF LockEvent
<1>15. ASSUME NEW l \in Locker, LockFails(l) PROVE TypeOK'
  BY <1>15 DEF LockFails
<1>16. ASSUME NEW e \in Payable, PayRead(e) PROVE TypeOK'
  BY <1>16 DEF PayRead
<1>17. ASSUME NEW e \in Payable, PayWrite(e) PROVE TypeOK'
  BY <1>17 DEF PayWrite
<1>18. ASSUME NEW e \in Payable, PayFails(e) PROVE TypeOK'
  BY <1>18 DEF PayFails
<1>19. ASSUME NEW e \in Payable, InputsChange(e) PROVE TypeOK'
  BY <1>19, PayrollAssumption DEF InputsChange
<1>20. CASE UNCHANGED vars
  BY <1>20 DEF vars, cycleVars
<1>. QED
  BY <1>1, <1>2, <1>3, <1>4, <1>5, <1>6, <1>7, <1>8, <1>9, <1>10, <1>11,
     <1>12, <1>13, <1>14, <1>15, <1>16, <1>17, <1>18, <1>19, <1>20,
     <1>21
  DEF Next, Step, cycleVars, TaskStep, LockStep

(* Every state the payroll code can reach is well typed; in particular no  *)
(* task is ever retried more than MaxRetries times.                        *)
THEOREM PayrollTypes == Spec => []TypeOK
BY TypeOKInit, TypeOKStep, PTL DEF Spec

-----------------------------------------------------------------------------
(* All or nothing: the runs of a period appear in one transaction.         *)

Together == GeneratedTogether /\ PaidExists

LEMMA TogetherStep == TypeOK /\ Together /\ [Next]_vars => Together'
<1>. SUFFICES ASSUME TypeOK, Together, [Next]_vars PROVE Together'
  OBVIOUS
<1>. USE DEF Together, GeneratedTogether, PaidExists, Existing, TypeOK
<1>1. ASSUME NEW t \in Task, CommitRuns(t) PROVE Together'
  <2>1. \A e \in Payable : run_status'[e] = "draft"
    BY <1>1 DEF CommitRuns, AllWritten
  <2>2. paying' = paying
    BY <1>1 DEF CommitRuns
  <2>. QED  BY <2>1, <2>2
<1>2. ASSUME NEW l \in Locker, LockCommit(l) PROVE Together'
  <2>1. \A e \in Payable : run_status'[e] = "none" <=> run_status[e] = "none"
    BY <1>2 DEF LockCommit, ApproveRun
  <2>2. paying' = paying
    BY <1>2 DEF LockCommit
  <2>. QED  BY <2>1, <2>2
<1>3. ASSUME NEW e \in Payable, PayRead(e) PROVE Together'
  BY <1>3 DEF PayRead, runVars
<1>4. ASSUME NEW e \in Payable, PayWrite(e) PROVE Together'
  <2>1. e \in Existing
    BY <1>4 DEF PayWrite
  <2>2. \A f \in Payable : run_status'[f] = "none" <=> run_status[f] = "none"
    BY <1>4, <2>1 DEF PayWrite
  <2>3. paying' \subseteq paying
    BY <1>4 DEF PayWrite
  <2>. QED  BY <2>2, <2>3
<1>5. ASSUME NEW e \in Payable, PayFails(e) PROVE Together'
  BY <1>5 DEF PayFails, runVars
<1>6. ASSUME UNCHANGED <<run_status, paying>> PROVE Together'
  BY <1>6
<1>. QED
  BY <1>1, <1>2, <1>3, <1>4, <1>5, <1>6
  DEF Next, Step, cycleVars, TaskStep, LockStep, RequestGeneration,
      RecordTask, TaskStarts, TaskRefused, GenerateEmployee, TaskSucceeds,
      TaskNotifies, TaskEnds, TaskFails, WorkerDies, LockRead, LockJournal,
      LockEvent, LockFails, InputsChange, runVars, vars

(* Whatever fails, dies, races or is retried, no state shows a period in   *)
(* which some employees have their run and others do not.                  *)
THEOREM PayrollGeneratedTogether == Spec => []GeneratedTogether
<1>1. Init => Together
  BY DEF Init, Together, GeneratedTogether, PaidExists, Existing
<1>2. Together => GeneratedTogether
  BY DEF Together
<1>. QED  BY <1>1, <1>2, TypeOKInit, TypeOKStep, TogetherStep, PTL DEF Spec

-----------------------------------------------------------------------------
(* No posting without the lock.                                            *)

Posted == PostedIsLocked /\ EventAfterLock

LEMMA PostedStep == TypeOK /\ Posted /\ [Next]_vars => Posted'
<1>. SUFFICES ASSUME TypeOK, Posted, [Next]_vars PROVE Posted'
  OBVIOUS
<1>. USE DEF Posted, PostedIsLocked, EventAfterLock, TypeOK
<1>1. ASSUME NEW l \in Locker, LockRead(l) PROVE Posted'
  BY <1>1 DEF LockRead
<1>2. ASSUME NEW l \in Locker, LockJournal(l) PROVE Posted'
  BY <1>2 DEF LockJournal
<1>3. ASSUME NEW l \in Locker, LockCommit(l) PROVE Posted'
  BY <1>3 DEF LockCommit, LockedStatus
<1>4. ASSUME NEW l \in Locker, LockEvent(l) PROVE Posted'
  BY <1>4 DEF LockEvent
<1>5. ASSUME NEW l \in Locker, LockFails(l) PROVE Posted'
  BY <1>5 DEF LockFails
<1>6. ASSUME UNCHANGED <<period, entries, locker>> PROVE Posted'
  BY <1>6
<1>. QED
  BY <1>1, <1>2, <1>3, <1>4, <1>5, <1>6
  DEF Next, Step, cycleVars, TaskStep, LockStep, RequestGeneration,
      RecordTask, TaskStarts, TaskRefused, GenerateEmployee, CommitRuns,
      TaskSucceeds, TaskNotifies, TaskEnds, TaskFails, WorkerDies, PayRead,
      PayWrite, PayFails, InputsChange, lockVars, vars

(* A journal entry is never seen without the lock of its period: posting   *)
(* and locking are one transaction, and the event only comes after it.     *)
THEOREM PayrollPostedIsLocked == Spec => []PostedIsLocked
<1>1. Init => Posted
  BY DEF Init, Posted, PostedIsLocked, EventAfterLock
<1>2. Posted => PostedIsLocked
  BY DEF Posted
<1>. QED  BY <1>1, <1>2, TypeOKInit, TypeOKStep, PostedStep, PTL DEF Spec

-----------------------------------------------------------------------------
(* One worker at a time.  Nobody is overtaken:                             *)

LEMMA AloneStep ==
  ASSUME ~Overlapping
  PROVE  TypeOK /\ Alone /\ [Next]_vars => Alone'
<1>. SUFFICES ASSUME TypeOK, Alone, [Next]_vars PROVE Alone'
  OBVIOUS
<1>. USE DEF Alone, NobodyLocks, NoTaskRuns, Executing, Locking, TypeOK
<1>1. ASSUME NEW t \in Task, TaskStarts(t) PROVE Alone'
  <2>1. NoTaskRuns /\ NobodyLocks /\ paying = {}
    BY <1>1 DEF TaskStarts, MayStart, Idle
  <2>2. /\ \A u \in Task \ {t} : stage'[u] = stage[u]
        /\ locker' = locker /\ paying' = paying
    BY <1>1 DEF TaskStarts, lockVars
  <2>. QED  BY <2>1, <2>2
<1>2. ASSUME NEW l \in Locker, LockRead(l) PROVE Alone'
  <2>1. NoTaskRuns /\ NobodyLocks /\ paying = {}
    BY <1>2 DEF LockRead, MayStart, Idle
  <2>2. /\ \A m \in Locker \ {l} : locker'[m] = locker[m]
        /\ stage' = stage /\ paying' = paying
    BY <1>2 DEF LockRead, taskVars
  <2>. QED  BY <2>1, <2>2
<1>3. ASSUME NEW e \in Payable, PayRead(e) PROVE Alone'
  <2>1. NoTaskRuns /\ NobodyLocks
    BY <1>3 DEF PayRead, MayStart, Idle
  <2>. QED  BY <1>3, <2>1 DEF PayRead, taskVars, lockVars
<1>4. ASSUME \A t \in Task : stage'[t] \in Executing => stage[t] \in Executing,
             \A l \in Locker : locker'[l] \in Locking => locker[l] \in Locking,
             paying' \subseteq paying
      PROVE Alone'
  BY <1>4
<1>5. ASSUME NEW t \in Task,
             RequestGeneration(t) \/ TaskRefused(t) \/ CommitRuns(t)
               \/ TaskSucceeds(t) \/ TaskNotifies(t) \/ TaskEnds(t) \/ WorkerDies(t)
      PROVE Alone'
  <2>1. /\ \A u \in Task : stage'[u] \in Executing => stage[u] \in Executing
        /\ locker' = locker /\ paying' = paying
    BY <1>5 DEF RequestGeneration, TaskRefused, CommitRuns, TaskSucceeds,
                TaskNotifies, TaskEnds, WorkerDies, lockVars
  <2>. QED  BY <1>4, <2>1
<1>6. ASSUME NEW t \in Task, TaskFails(t) PROVE Alone'
  <2>1. /\ \A u \in Task : stage'[u] \in Executing => stage[u] \in Executing
        /\ locker' = locker /\ paying' = paying
    BY <1>6 DEF TaskFails, lockVars
  <2>. QED  BY <1>4, <2>1
<1>7. ASSUME NEW l \in Locker, LockStep(l) \/ LockFails(l) PROVE Alone'
  <2>1. /\ \A m \in Locker : locker'[m] \in Locking => locker[m] \in Locking
        /\ stage' = stage /\ paying' = paying
    BY <1>7 DEF LockStep, LockJournal, LockCommit, LockEvent, LockFails,
                taskVars
  <2>. QED  BY <1>4, <2>1
<1>8. ASSUME NEW e \in Payable, PayWrite(e) \/ PayFails(e) PROVE Alone'
  BY <1>8, <1>4 DEF PayWrite, PayFails, taskVars, lockVars
<1>9. ASSUME UNCHANGED <<stage, locker, paying>> PROVE Alone'
  BY <1>9
<1>. QED
  BY <1>1, <1>2, <1>3, <1>5, <1>6, <1>7, <1>8, <1>9
  DEF Next, Step, cycleVars, TaskStep, RecordTask, GenerateEmployee,
      InputsChange, lockVars, taskVars, vars

(* No copy goes stale, the journal agrees with the runs and a locked       *)
(* period is settled.                                                      *)
Current == CopiesCurrent /\ JournalMatchesRuns /\ LockedIsSettled

LEMMA CurrentStep ==
  ASSUME ~Overlapping
  PROVE  TypeOK /\ Together /\ Posted /\ Alone /\ Current /\ [Next]_vars
           => Current'
<1>. SUFFICES ASSUME TypeOK, Together, Posted, Alone, Current, [Next]_vars
              PROVE  Current'
  OBVIOUS
<1>. USE DEF TypeOK, Current, CopiesCurrent, JournalMatchesRuns,
             LockedIsSettled, Existing, runVars, taskVars, lockVars
<1>1. ASSUME UNCHANGED <<period, runVars, entries, lockVars>>,
             \A t \in Task : stage'[t] = "generating" =>
               stage[t] = "generating" \/ period = "draft"
      PROVE  Current'
  BY <1>1
<1>2. ASSUME NEW t \in Task, RequestGeneration(t) PROVE Current'
  BY <1>2, <1>1 DEF RequestGeneration
<1>3. ASSUME NEW t \in Task, TaskStarts(t) PROVE Current'
  BY <1>3, <1>1 DEF TaskStarts, Refuses
<1>4. ASSUME NEW t \in Task, TaskRefused(t) \/ TaskSucceeds(t)
                               \/ TaskNotifies(t) \/ TaskEnds(t) \/ WorkerDies(t)
      PROVE Current'
  BY <1>4, <1>1 DEF TaskRefused, TaskSucceeds, TaskNotifies, TaskEnds, WorkerDies
<1>5. ASSUME NEW t \in Task, TaskFails(t) PROVE Current'
  BY <1>5, <1>1 DEF TaskFails
<1>6. ASSUME NEW t \in Task, CommitRuns(t) PROVE Current'
  <2>1. NobodyLocks /\ period = "draft"
    BY <1>6 DEF CommitRuns, Alone, Executing
  <2>2. entries = <<>>
    BY <2>1 DEF Posted, PostedIsLocked
  <2>3. UNCHANGED <<period, entries, lockVars>>
    BY <1>6 DEF CommitRuns
  <2>4. \A u \in Task : stage'[u] = "generating" => stage[u] = "generating"
    BY <1>6 DEF CommitRuns
  <2>5. CopiesCurrent'
    BY <2>1, <2>3, <2>4 DEF NobodyLocks, Locking
  <2>6. JournalMatchesRuns' /\ LockedIsSettled'
    BY <2>1, <2>2, <2>3
  <2>. QED  BY <2>5, <2>6
<1>7. ASSUME NEW l \in Locker, LockRead(l) PROVE Current'
  BY <1>7 DEF LockRead
<1>8. ASSUME NEW l \in Locker, LockJournal(l) PROVE Current'
  <2>1. period = "draft" /\ posting[l] = <<>>
    BY <1>8 DEF LockJournal
  <2>2. NewEntry = <<earnings>> /\ entries = <<>>
    BY <2>1 DEF Posted, PostedIsLocked, NewEntry
  <2>3. UNCHANGED <<period, runVars, entries, stage>>
    BY <1>8 DEF LockJournal
  <2>4. /\ locker'[l] = "ready"
        /\ announced'[l] <=> Existing # {}
        /\ Existing = {} => posting'[l] = <<>>
        /\ Existing # {} => posting'[l] = <<earnings>> /\ Total(earnings) > 0
    BY <1>8, <2>1, <2>2 DEF LockJournal
  <2>5. \A m \in Locker \ {l} : /\ locker'[m] = locker[m]
                                 /\ posting'[m] = posting[m]
                                 /\ announced'[m] = announced[m]
    BY <1>8 DEF LockJournal
  <2>6. Total(earnings') = Total(earnings) /\ Existing' = Existing
    BY <2>3
  <2>7. CopiesCurrent'
    BY <2>1, <2>3, <2>4, <2>5, <2>6
  <2>. QED  BY <2>3, <2>7
<1>9. ASSUME NEW l \in Locker, LockCommit(l) PROVE Current'
  <2>1. /\ NoTaskRuns
        /\ \A m \in Locker \ {l} : locker[m] \notin Locking
    BY <1>9 DEF LockCommit, Alone, Locking
  <2>2. /\ period' = "locked" /\ UNCHANGED <<earnings, stage, announced>>
        /\ entries' = posting[l]
    BY <1>9 DEF LockCommit, LockedStatus, Posted, PostedIsLocked
  <2>3. /\ Existing' = Existing
        /\ \A e \in Payable : run_status'[e] # "draft"
    BY <1>9 DEF LockCommit, ApproveRun
  <2>4. /\ locker'[l] \in {"event", "done"}
        /\ locker'[l] = "event" => Existing # {}
        /\ posting'[l] = <<>>
    BY <1>9 DEF LockCommit
  <2>5. \A m \in Locker \ {l} : /\ locker'[m] = locker[m]
                                 /\ posting'[m] = posting[m]
    BY <1>9 DEF LockCommit
  <2>6. CopiesCurrent'
    BY <2>1, <2>2, <2>3, <2>4, <2>5 DEF NoTaskRuns, Executing, Locking
  <2>7. /\ Existing = {} => entries' = <<>>
        /\ Existing # {} => entries' = <<earnings>>
    BY <1>9, <2>2 DEF LockCommit
  <2>8. JournalMatchesRuns'
    <3>1. CASE Existing = {}
      BY <3>1, <2>2, <2>3, <2>7
    <3>2. CASE Existing # {}
      <4>1. entries' = <<earnings'>> /\ Len(<<earnings'>>) = 1
        BY <3>2, <2>2, <2>7
      <4>. QED  BY <4>1
    <3>. QED  BY <3>1, <3>2
  <2>. QED  BY <2>3, <2>6, <2>8
<1>10. ASSUME NEW l \in Locker, LockEvent(l) PROVE Current'
  <2>1. period = "locked" /\ Existing # {}
    BY <1>10 DEF LockEvent, Posted, EventAfterLock
  <2>2. NewEntry = <<>> /\ entries' = entries
    BY <1>10, <2>1 DEF LockEvent, NewEntry
  <2>. QED  BY <1>10, <2>2 DEF LockEvent
<1>11. ASSUME NEW l \in Locker, LockFails(l) PROVE Current'
  BY <1>11 DEF LockFails
<1>12. ASSUME NEW e \in Payable, PayWrite(e) PROVE Current'
  <2>1. NobodyLocks /\ NoTaskRuns
    BY <1>12 DEF PayWrite, Alone, NobodyLocks, NoTaskRuns
  <2>2. UNCHANGED <<period, earnings, entries, taskVars, lockVars>>
    BY <1>12 DEF PayWrite
  <2>3. /\ Existing' = Existing
        /\ \A f \in Payable : run_status'[f] = "draft" => run_status[f] = "draft"
    BY <1>12 DEF PayWrite, Together, PaidExists
  <2>4. CopiesCurrent'
    BY <2>1, <2>2 DEF NobodyLocks, NoTaskRuns, Executing, Locking
  <2>. QED  BY <2>2, <2>3, <2>4
<1>13. ASSUME UNCHANGED <<period, runVars, entries, stage, lockVars>>
       PROVE  Current'
  BY <1>13
<1>. QED
  BY <1>2, <1>3, <1>4, <1>5, <1>6, <1>7, <1>8, <1>9, <1>10, <1>11, <1>12,
     <1>13
  DEF Next, Step, cycleVars, TaskStep, LockStep, RecordTask,
      GenerateEmployee, PayRead, PayFails, InputsChange, vars

LEMMA SerialInvInit == Init => SerialInv
<1>. SUFFICES ASSUME Init PROVE SerialInv
  OBVIOUS
<1>. USE DEF Init, Existing
<1>1. GeneratedTogether /\ PaidExists /\ PostedIsLocked /\ EventAfterLock
  BY DEF GeneratedTogether, PaidExists, PostedIsLocked, EventAfterLock
<1>2. Alone /\ CopiesCurrent
  BY DEF Alone, CopiesCurrent, Executing, Locking
<1>3. JournalMatchesRuns /\ LockedIsSettled
  BY DEF JournalMatchesRuns, LockedIsSettled
<1>. QED  BY <1>1, <1>2, <1>3 DEF SerialInv

LEMMA SerialInvStep == TypeOK /\ SerialInv /\ [Next]_vars => SerialInv'
<1>. SUFFICES ASSUME TypeOK, SerialInv, [Next]_vars PROVE SerialInv'
  OBVIOUS
<1>1. Together' /\ Posted'
  BY TogetherStep, PostedStep DEF SerialInv, Together, Posted
<1>2. Overlapping' = Overlapping
  BY DEF Next, vars, Overlapping
<1>3. ASSUME ~Overlapping PROVE Alone' /\ Current'
  BY <1>3, AloneStep, CurrentStep DEF SerialInv, Together, Posted, Current
<1>. QED  BY <1>1, <1>2, <1>3 DEF SerialInv, Together, Posted, Current

LEMMA PayrollSerialInv == Spec => [](TypeOK /\ SerialInv)
BY TypeOKInit, TypeOKStep, SerialInvInit, SerialInvStep, PTL DEF Spec

(* With one worker at a time a locked period that has runs has exactly one *)
(* journal entry, for exactly the earnings of those runs.                  *)
THEOREM PayrollJournalMatchesRuns == Spec => []JournalMatchesRuns
<1>1. SerialInv => JournalMatchesRuns
  BY DEF SerialInv, JournalMatchesRuns
<1>. QED  BY <1>1, PayrollSerialInv, PTL

(* ... and none of those runs is a draft.                                  *)
THEOREM PayrollLockedIsSettled == Spec => []LockedIsSettled
<1>1. SerialInv => LockedIsSettled
  BY DEF SerialInv, LockedIsSettled
<1>. QED  BY <1>1, PayrollSerialInv, PTL

LEMMA PaidStep ==
  TypeOK /\ SerialInv /\ [Next]_vars =>
    \A e \in Payable :
      ~Overlapping /\ period = "locked" /\ run_status[e] = "paid" => run_status'[e] = "paid"
<1>. SUFFICES ASSUME TypeOK, SerialInv, [Next]_vars, NEW e \in Payable,
                     ~Overlapping, period = "locked", run_status[e] = "paid"
              PROVE  run_status'[e] = "paid"
  OBVIOUS
<1>1. \A t \in Task : ~CommitRuns(t)
  BY DEF SerialInv, CopiesCurrent, CommitRuns
<1>2. \A l \in Locker : ~LockCommit(l)
  BY DEF SerialInv, CopiesCurrent, LockCommit
<1>3. ASSUME NEW f \in Payable, PayWrite(f) PROVE run_status'[e] = "paid"
  BY <1>3 DEF PayWrite, TypeOK
<1>4. CASE run_status' = run_status
  BY <1>4
<1>. QED
  BY <1>1, <1>2, <1>3, <1>4
  DEF Next, Step, cycleVars, TaskStep, LockStep, RequestGeneration,
      RecordTask, TaskStarts, TaskRefused, GenerateEmployee, TaskSucceeds,
      TaskNotifies, TaskEnds, TaskFails, WorkerDies, LockRead, LockJournal,
      LockEvent, LockFails, PayRead, PayFails, InputsChange, runVars, vars

(* Payments made after the lock survive every task, retry and lock request *)
(* that is still to run.                                                   *)
THEOREM PayrollPaidIsFinal == Spec => PaidIsFinal
BY PayrollSerialInv, PaidStep, PTL DEF Spec, PaidIsFinal

-----------------------------------------------------------------------------
(* The code implements the contract.                                       *)

contractVars == <<period, run_status, earnings, entries>>

LEMMA ContractStep ==
  TypeOK /\ SerialInv /\ [Next]_vars
    => [~Overlapping => Contract!Next]_contractVars
<1>. SUFFICES ASSUME TypeOK, SerialInv, [Next]_vars, ~Overlapping
              PROVE  Contract!Next \/ UNCHANGED contractVars
  BY DEF contractVars
<1>1. ASSUME NEW t \in Task, CommitRuns(t) PROVE Contract!Next
  <2>1. period = "draft" /\ UNCHANGED <<period, entries>>
    BY <1>1 DEF CommitRuns, SerialInv, CopiesCurrent
  <2>2. run_status' = [e \in Payable |-> "draft"]
    BY <1>1 DEF CommitRuns, AllWritten, TypeOK
  <2>3. earnings' \in [Payable -> Nat]
    BY <1>1, TypeOKStep DEF TypeOK, Bill
  <2>. QED  BY <2>1, <2>2, <2>3 DEF Contract!Next, Contract!Compute
<1>2. ASSUME NEW l \in Locker, LockCommit(l) PROVE Contract!Next
  <2>1. /\ period = "draft" /\ period' = "locked" /\ earnings' = earnings
        /\ entries = <<>>
    BY <1>2 DEF LockCommit, LockedStatus, SerialInv, CopiesCurrent,
                PostedIsLocked
  <2>2. entries' = posting[l]
    BY <1>2, <2>1 DEF LockCommit, TypeOK
  <2>3. CASE Existing = {}
    <3>1. \A e \in Payable : run_status[e] = "none"
      BY <2>3 DEF Existing
    <3>2. run_status' = run_status
      BY <1>2, <3>1 DEF LockCommit, ApproveRun, TypeOK
    <3>3. entries' = entries
      BY <1>2, <2>1, <2>2, <2>3 DEF LockCommit, SerialInv, CopiesCurrent
    <3>. QED
      BY <2>1, <3>1, <3>2, <3>3 DEF Contract!Next, Contract!CloseEmpty
  <2>4. CASE Existing # {}
    <3>1. run_status' = [e \in Payable |-> "approved"]
      BY <1>2, <2>4
      DEF LockCommit, ApproveRun, SerialInv, GeneratedTogether, Existing
    <3>2. entries' = <<earnings>> /\ Total(earnings) > 0
      BY <1>2, <2>2, <2>4 DEF LockCommit, SerialInv, CopiesCurrent
    <3>3. earnings \in {bill \in Bill : Total(bill) > 0}
      BY <3>2 DEF TypeOK
    <3>. QED
      BY <2>1, <3>1, <3>2, <3>3 DEF Contract!Next, Contract!Close
  <2>. QED  BY <2>3, <2>4
<1>3. ASSUME NEW l \in Locker, LockEvent(l) PROVE UNCHANGED contractVars
  <2>1. entries = <<earnings>>
    BY <1>3 DEF LockEvent, SerialInv, CopiesCurrent, EventAfterLock,
                JournalMatchesRuns
  <2>2. entries' = entries
    BY <1>3, <2>1 DEF LockEvent, NewEntry
  <2>. QED  BY <1>3, <2>2 DEF LockEvent, runVars, contractVars
<1>4. ASSUME NEW e \in Payable, PayWrite(e) PROVE Contract!Next
                                                 \/ UNCHANGED contractVars
  <2>1. run_status[e] \in {"draft", "approved", "paid"}
    BY <1>4 DEF PayWrite, SerialInv, PaidExists, Existing, TypeOK, RunStatus
  <2>2. CASE run_status[e] = "paid"
    <3>1. run_status' = run_status
      BY <1>4, <2>2 DEF PayWrite, TypeOK
    <3>. QED  BY <1>4, <3>1 DEF PayWrite, contractVars
  <2>3. CASE run_status[e] # "paid"
    BY <1>4, <2>1, <2>3 DEF PayWrite, Contract!Next, Contract!Pay
  <2>. QED  BY <2>2, <2>3
<1>. QED
  BY <1>1, <1>2, <1>3, <1>4
  DEF Next, Step, cycleVars, TaskStep, LockStep, RequestGeneration,
      RecordTask, TaskStarts, TaskRefused, GenerateEmployee, TaskSucceeds,
      TaskNotifies, TaskEnds, TaskFails, WorkerDies, LockRead, LockJournal,
      LockFails, PayRead, PayFails, InputsChange, runVars, vars, contractVars

(* Run one worker at a time, generation, locking and payment implement the *)
(* contract: computed together, posted once, final when locked.            *)
THEOREM PayrollImplementsContract == Spec => ImplementsContract
<1>1. Init => (~Overlapping => Contract!Init)
  BY DEF Init, Contract!Init
<1>. QED
  BY <1>1, PayrollSerialInv, ContractStep, PTL
  DEF Spec, ImplementsContract, contractVars

-----------------------------------------------------------------------------
(* The runs of a locked period, under all races: once no generation is at  *)
(* work, none comes back to it, whatever tasks and retries are queued, and *)
(* what the runs say does not change any more.                             *)
LEMMA FrozenStep ==
  ASSUME TypeOK, Next, period = "locked", NobodyGenerates
  PROVE  NobodyGenerates' /\ UNCHANGED earnings
<1>. USE DEF TypeOK, NobodyGenerates, runVars, taskVars, lockVars
<1>1. ASSUME NEW t \in Task, TaskStarts(t)
      PROVE  NobodyGenerates' /\ UNCHANGED earnings
  BY <1>1 DEF TaskStarts, Refuses
<1>2. ASSUME NEW t \in Task,
             RequestGeneration(t) \/ RecordTask(t) \/ TaskRefused(t)
               \/ TaskSucceeds(t) \/ TaskNotifies(t) \/ TaskEnds(t)
      PROVE  NobodyGenerates' /\ UNCHANGED earnings
  BY <1>2 DEF RequestGeneration, RecordTask, TaskRefused, TaskSucceeds,
              TaskNotifies, TaskEnds, Report
<1>3. ASSUME NEW t \in Task, CommitRuns(t) \/ \E e \in Payable : GenerateEmployee(t, e)
      PROVE  FALSE
  BY <1>3 DEF CommitRuns, GenerateEmployee
<1>4. ASSUME NEW t \in Task, TaskFails(t) \/ WorkerDies(t)
      PROVE  NobodyGenerates' /\ UNCHANGED earnings
  BY <1>4 DEF TaskFails, WorkerDies
<1>5. ASSUME NEW l \in Locker, LockRead(l) \/ LockStep(l) \/ LockFails(l)
      PROVE  NobodyGenerates' /\ UNCHANGED earnings
  BY <1>5 DEF LockRead, LockStep, LockJournal, LockCommit, LockEvent, LockFails
<1>6. ASSUME NEW e \in Payable,
             PayRead(e) \/ PayWrite(e) \/ PayFails(e) \/ InputsChange(e)
      PROVE  NobodyGenerates' /\ UNCHANGED earnings
  BY <1>6 DEF PayRead, PayWrite, PayFails, InputsChange
<1>. QED
  BY <1>1, <1>2, <1>3, <1>4, <1>5, <1>6 DEF Next, Step, TaskStep

(* The figures of a locked period are final as soon as nobody generates.   *)
THEOREM PayrollFrozenOnceQuiet == Spec => FrozenOnceQuiet
<1>1. TypeOK /\ [Next]_vars
        => [period = "locked" /\ NobodyGenerates
              => NobodyGenerates' /\ UNCHANGED earnings]_vars
  BY FrozenStep
<1>. QED  BY <1>1, TypeOKInit, TypeOKStep, PTL DEF Spec, FrozenOnceQuiet

-----------------------------------------------------------------------------
(* Sums over lines                                                         *)
Counted(lines) == IsFiniteSet(lines) /\ \A l \in lines : l.amount \in Int

(* The amounts of some lines, as a sum over the amounts of more of them.   *)
LEMMA AmountsWithin ==
  ASSUME NEW lines, NEW some \in SUBSET lines, IsFiniteSet(lines)
  PROVE  Amounts(some) = SumFunctionOnSet([l \in lines |-> l.amount], some)
<1>. DEFINE f == [l \in some |-> l.amount]
            g == [l \in lines |-> l.amount]
<1>1. IsFiniteSet(some)
  BY FS_Subset
<1>2. \A l \in some : f[l] = g[l]
  OBVIOUS
<1>3. DOMAIN f = some
  OBVIOUS
<1>4. Amounts(some) = SumFunctionOnSet(f, some)
  BY <1>3 DEF Amounts, SumFunction
<1>. HIDE DEF f, g
<1>5. SumFunctionOnSet(f, some) = SumFunctionOnSet(g, some)
  BY <1>1, <1>2, SumSame
<1>. QED  BY <1>4, <1>5 DEF g

(* Lines that count have a whole amount together.                          *)
LEMMA AmountsAreInt ==
  ASSUME NEW lines, Counted(lines)
  PROVE  Amounts(lines) \in Int
<1>. DEFINE f == [l \in lines |-> l.amount]
<1>1. Amounts(lines) = SumFunctionOnSet(f, lines)
  BY AmountsWithin DEF Counted
<1>2. \A l \in lines : f[l] \in Int
  BY DEF Counted
<1>. HIDE DEF f
<1>. QED  BY <1>1, <1>2, SumIsInt DEF Counted

(* Lines of two sets with nothing in common add up.                        *)
LEMMA AmountsAdd ==
  ASSUME NEW S, Counted(S), NEW T, Counted(T), S \cap T = {}
  PROVE  /\ Counted(S \cup T)
         /\ Amounts(S \cup T) = Amounts(S) + Amounts(T)
         /\ Amounts(S) \in Int /\ Amounts(T) \in Int
<1>. DEFINE L == S \cup T
            f == [l \in L |-> l.amount]
<1>1. IsFiniteSet(L) /\ IsFiniteSet(S) /\ IsFiniteSet(T)
  BY FS_Union DEF Counted
<1>2. \A l \in L : f[l] \in Int
  BY DEF Counted
<1>3. S \in SUBSET L /\ T \in SUBSET L /\ L \in SUBSET L
  OBVIOUS
<1>4. /\ Amounts(S) = SumFunctionOnSet(f, S)
      /\ Amounts(T) = SumFunctionOnSet(f, T)
      /\ Amounts(L) = SumFunctionOnSet(f, L)
  <2>. HIDE DEF L
  <2>. QED  BY <1>1, <1>3, AmountsWithin
<1>5. SumFunctionOnSet(f, S \cup T) = SumFunctionOnSet(f, S) + SumFunctionOnSet(f, T)
  <2>1. \A l \in S \cup T : f[l] \in Int
    BY <1>2
  <2>. HIDE DEF f, L
  <2>. QED  BY <1>1, <2>1, SumUnion
<1>6. Counted(L)
  BY <1>1 DEF Counted
<1>. QED  BY <1>4, <1>5, <1>6, AmountsAreInt

(* No lines, and one line.                                                 *)
LEMMA AmountsOfNone == Counted({}) /\ Amounts({}) = 0
<1>1. Counted({})
  BY FS_EmptySet DEF Counted
<1>2. Amounts({}) = SumFunctionOnSet([l \in {} |-> l.amount], {})
  BY <1>1, AmountsWithin DEF Counted
<1>. QED  BY <1>1, <1>2, SumOfNone

LEMMA AmountsOfOne ==
  ASSUME NEW l, l.amount \in Int
  PROVE  Counted({l}) /\ Amounts({l}) = l.amount
<1>. DEFINE f == [x \in {l} |-> x.amount]
<1>1. IsFiniteSet({l})
  BY FS_Singleton
<1>2. Amounts({l}) = SumFunctionOnSet(f, {l})
  BY <1>1, AmountsWithin
<1>3. f[l] = l.amount
  OBVIOUS
<1>. HIDE DEF f
<1>4. SumFunctionOnSet(f, {l}) = l.amount
  BY <1>3, SumOfOne
<1>. QED  BY <1>1, <1>2, <1>4 DEF Counted

(* What counts as one line or none.                                        *)
LEMMA AmountsOfSome ==
  ASSUME NEW l, l.amount \in Nat
  PROVE  LET S == {x \in {l} : x.amount > 0}
         IN  Counted(S) /\ Amounts(S) = l.amount
<1>1. CASE l.amount > 0
  <2>1. {x \in {l} : x.amount > 0} = {l}
    BY <1>1
  <2>. QED  BY <2>1, AmountsOfOne
<1>2. CASE l.amount = 0
  <2>1. {x \in {l} : x.amount > 0} = {}
    BY <1>2
  <2>. QED  BY <1>2, <2>1, AmountsOfNone
<1>. QED  BY <1>1, <1>2

(* What the rows are worth, and that there are only so many of them.       *)
LEMMA WorthIsNat == \A i \in Item : Worth[i] \in Nat
BY RowsAssumption DEF RowsAssumption

LEMMA ItemsFinite == ASSUME NEW its \in SUBSET Item PROVE IsFiniteSet(its)
BY RowsAssumption, FS_Subset DEF RowsAssumption

(* A line for each of some rows.                                           *)
LEMMA AmountsOfItems ==
  ASSUME NEW c, NEW t, NEW its \in SUBSET Item, NEW amount,
         \A i \in its : amount[i] \in Nat
  PROVE  LET L == ItemLines(c, t, its, amount)
         IN  /\ Counted(L) /\ Amounts(L) = SumFunctionOnSet(amount, its)
             /\ \A l \in L : l.code[1] = c /\ l.type = t
<1>. DEFINE m == [i \in its |-> Line(<<c, i>>, t, amount[i])]
            L == ItemLines(c, t, its, amount)
            f == [l \in L |-> l.amount]
<1>1. L = {m[i] : i \in its}
  BY DEF ItemLines
<1>2. \A i \in its : m[i] = Line(<<c, i>>, t, amount[i])
  OBVIOUS
<1>3. \A l \in L : l.amount \in Int /\ l.code[1] = c /\ l.type = t
  BY DEF ItemLines, Line
<1>4. IsFiniteSet(its)
  BY ItemsFinite
<1>5. \A i, j \in its : m[i] = m[j] => i = j
  BY DEF Line
<1>6. \A i \in its : amount[i] \in Int /\ f[m[i]] = amount[i]
  <2>1. \A i \in its : m[i] \in L /\ m[i].amount = amount[i]
    BY DEF ItemLines, Line
  <2>2. \A l \in L : f[l] = l.amount
    OBVIOUS
  <2>. HIDE DEF f, m, L
  <2>. QED  BY <2>1, <2>2
<1>. HIDE DEF m
<1>7. IsFiniteSet(L)
  BY <1>1, <1>4, ImageFinite
<1>8. Amounts(L) = SumFunctionOnSet(f, L)
  BY <1>7, AmountsWithin
<1>. HIDE DEF f
<1>9. SumFunctionOnSet(f, {m[i] : i \in its}) = SumFunctionOnSet(amount, its)
  BY <1>4, <1>5, <1>6, SumRenamed
<1>. QED  BY <1>1, <1>3, <1>7, <1>8, <1>9 DEF Counted

(* Rows count by what they are worth.                                      *)
LEMMA AmountsOfRows ==
  ASSUME NEW c, NEW t, NEW its \in SUBSET Item
  PROVE  LET L == ItemLines(c, t, its, Worth)
         IN  /\ Counted(L) /\ Amounts(L) = TotalWorth(its)
             /\ \A l \in L : l.code[1] = c /\ l.type = t
BY WorthIsNat, AmountsOfItems DEF TotalWorth

-----------------------------------------------------------------------------
(* The lines of a run                                                      *)

(* Days are counted by natural numbers.                                    *)
LEMMA DaysCount == ASSUME NEW r, NEW S PROVE Days(r, S) \in Nat
<1>1. IsFiniteSet({d \in Day : r[d] \in S})
  BY PayslipAssumption, FS_Subset DEF PayslipAssumption
<1>. QED  BY <1>1, FS_CardinalityType DEF Days

Late(k, r) == (DailyRate(k) \div 480) * LateMinutes * Days(r, {"late"})
Absent(k, r) ==
  IF AttendanceBased(k) THEN 0 ELSE DailyRate(k) * Days(r, {"absent"})
Unpaid(k, its) ==
  IF AttendanceBased(k) THEN 0 ELSE DailyRate(k) * unpaid_leave_days(its)

(* Days of unpaid leave are counted, too.                                  *)
LEMMA LeaveCount == ASSUME NEW its \in SUBSET Item PROVE unpaid_leave_days(its) \in Nat
<1>1. IsFiniteSet(its \cap DOMAIN UnpaidLeave)
  BY ItemsFinite, FS_Subset
<1>2. \A i \in its \cap DOMAIN UnpaidLeave : UnpaidLeave[i] \in Nat
  BY RowsAssumption DEF RowsAssumption
<1>. QED  BY <1>1, <1>2, SumIsNat DEF unpaid_leave_days

(* The four amounts the generator computes are natural numbers.            *)
LEMMA DueAmounts ==
  ASSUME NEW k \in Kind, NEW r, NEW its \in SUBSET Item
  PROVE  /\ BasicAmount(k, r) \in Nat /\ Late(k, r) \in Nat
         /\ Absent(k, r) \in Nat /\ Unpaid(k, its) \in Nat
<1>. DEFINE worked == Days(r, {"present", "late"})
            late == Days(r, {"late"})
            absent == Days(r, {"absent"})
            leave == unpaid_leave_days(its)
<1>1. /\ worked \in Nat /\ late \in Nat /\ absent \in Nat /\ leave \in Nat
      /\ MonthDays \in Nat
  BY DaysCount, LeaveCount, PayslipAssumption DEF PayslipAssumption
<1>2. /\ BasicAmount(k, r) = IF AttendanceBased(k) THEN 480 * worked
                             ELSE IF k = "monthly" THEN 480 * MonthDays ELSE 0
      /\ Late(k, r) = (DailyRate(k) \div 480) * 5 * late
      /\ Absent(k, r) = IF AttendanceBased(k) THEN 0 ELSE DailyRate(k) * absent
      /\ Unpaid(k, its) = IF AttendanceBased(k) THEN 0 ELSE DailyRate(k) * leave
      /\ DailyRate(k) = IF k = "commission" THEN 0 ELSE 480
  BY DEF BasicAmount, Late, Absent, Unpaid, DailyRate, Rate, LateMinutes
<1>3. DailyRate(k) \div 480 \in {0, 1} /\ DailyRate(k) \in {0, 480}
  BY <1>2
<1>. HIDE DEF worked, late, absent, leave
<1>. QED  BY <1>1, <1>2, <1>3

(* The generator's lines, apart.                                           *)
Part(code, type, amount) == {l \in {Line(code, type, amount)} : l.amount > 0}
BasicPart(k, r) == Part(<<"BASIC", DailyRate(k)>>, "earning", BasicAmount(k, r))
LatePart(k, r) == Part(<<"LATE", DailyRate(k)>>, "deduction", Late(k, r))
AbsentPart(k, r) == Part(<<"ABSENT", DailyRate(k)>>, "deduction", Absent(k, r))
UnpaidPart(k, its) == Part(<<"UNPAID_LEAVE", DailyRate(k)>>, "deduction", Unpaid(k, its))
OwnRows(t, its) == {i \in generator_components(its) : Component[i].type = t}

(* A line that is there only if it is worth something.                     *)
LEMMA PartIs ==
  ASSUME NEW code, NEW type, NEW amount \in Nat
  PROVE  /\ Counted(Part(code, type, amount))
         /\ Amounts(Part(code, type, amount)) = amount
         /\ \A l \in Part(code, type, amount) : l.code = code /\ l.type = type
<1>1. Line(code, type, amount).amount = amount
  BY DEF Line
<1>2. \A l \in Part(code, type, amount) : l.code = code /\ l.type = type
  BY DEF Part, Line
<1>. QED  BY <1>1, <1>2, AmountsOfSome DEF Part

(* The components of a run are its earnings and its deductions.            *)
LEMMA OwnRowsSplit ==
  ASSUME NEW its
  PROVE  {Line(<<"COMP", i>>, Component[i].type, Worth[i]) : i \in generator_components(its)}
           = ItemLines("COMP", "earning", OwnRows("earning", its), Worth)
               \cup ItemLines("COMP", "deduction", OwnRows("deduction", its), Worth)
<1>1. \A i \in generator_components(its) : Component[i].type \in {"earning", "deduction"}
  <2>1. \A i \in DOMAIN Component : Component[i].type \in {"earning", "deduction"}
    BY RowsAssumption DEF RowsAssumption, ComponentRow
  <2>. QED  BY <2>1 DEF generator_components
<1>. QED  BY <1>1 DEF ItemLines, OwnRows

(* The lines of a run are its nine parts.                                  *)
LEMMA LinesAre ==
  ASSUME NEW k, NEW r, NEW its
  PROVE  Lines(k, r, its)
           = BasicPart(k, r) \cup LatePart(k, r) \cup AbsentPart(k, r) \cup UnpaidPart(k, its)
               \cup ItemLines("COMP", "earning", OwnRows("earning", its), Worth)
               \cup ItemLines("COMP", "deduction", OwnRows("deduction", its), Worth)
               \cup ItemLines("COMM", "earning", its \cap Commission, Worth)
               \cup ItemLines("POLICY", "deduction", policy_deductions(its), Worth)
               \cup ItemLines("LOAN", "deduction", generator_loans(its), installment)
<1>. DEFINE a == Line(<<"BASIC", DailyRate(k)>>, "earning", BasicAmount(k, r))
            b == Line(<<"LATE", DailyRate(k)>>, "deduction", Late(k, r))
            c == Line(<<"ABSENT", DailyRate(k)>>, "deduction", Absent(k, r))
            u == Line(<<"UNPAID_LEAVE", DailyRate(k)>>, "deduction", Unpaid(k, its))
            own == {Line(<<"COMP", i>>, Component[i].type, Worth[i]) :
                      i \in generator_components(its)}
            C == ItemLines("COMM", "earning", its \cap Commission, Worth)
            P == ItemLines("POLICY", "deduction", policy_deductions(its), Worth)
            L == ItemLines("LOAN", "deduction", generator_loans(its), installment)
<1>1. Lines(k, r, its) = {l \in {a, b, c, u} : l.amount > 0} \cup own \cup C \cup P \cup L
  BY DEF Lines, Late, Absent, Unpaid
<1>2. {l \in {a, b, c, u} : l.amount > 0}
        = BasicPart(k, r) \cup LatePart(k, r) \cup AbsentPart(k, r) \cup UnpaidPart(k, its)
  BY DEF BasicPart, LatePart, AbsentPart, UnpaidPart, Part
<1>. DEFINE e == ItemLines("COMP", "earning", OwnRows("earning", its), Worth)
            d == ItemLines("COMP", "deduction", OwnRows("deduction", its), Worth)
<1>3. own = e \cup d
  BY OwnRowsSplit
<1>. HIDE DEF a, b, c, u, own, C, P, L, e, d
<1>4. Lines(k, r, its) = BasicPart(k, r) \cup LatePart(k, r) \cup AbsentPart(k, r)
                           \cup UnpaidPart(k, its) \cup e \cup d \cup C \cup P \cup L
  BY <1>1, <1>2, <1>3
<1>. QED  BY <1>4 DEF e, d, C, P, L

(* The rows the generator counts are among those there are.                *)
LEMMA RowsWithin ==
  ASSUME NEW its \in SUBSET Item, NEW t
  PROVE  /\ generator_components(its) \in SUBSET Item /\ OwnRows(t, its) \in SUBSET Item
         /\ its \cap Commission \in SUBSET Item
         /\ policy_deductions(its) \in SUBSET Item /\ generator_loans(its) \in SUBSET Item
BY DEF generator_components, OwnRows, policy_deductions, generator_loans

Installments(its) == SumFunctionOnSet(installment, generator_loans(its))

(* An installment is never more than what remains of its loan.             *)
LEMMA InstallmentsAre ==
  \A i \in DOMAIN Loan :
    /\ installment[i] \in Nat
    /\ Loan[i].remaining >= Worth[i] => installment[i] = Worth[i]
<1>1. \A i \in DOMAIN Loan : Worth[i] \in Nat /\ Loan[i].remaining \in Nat
  BY RowsAssumption DEF RowsAssumption, LoanRow
<1>. QED  BY <1>1 DEF installment

(* The net of a run and what a page reads off its lines, kind by kind.     *)
LEMMA LinesSplit ==
  ASSUME NEW k \in Kind, NEW r, NEW its \in SUBSET Item
  PROVE  LET lines == Lines(k, r, its)
             paid == TotalWorth(OwnRows("earning", its))
             taken == TotalWorth(OwnRows("deduction", its))
             commission == TotalWorth(its \cap Commission)
             policies == TotalWorth(policy_deductions(its))
             loans == Installments(its)
         IN  /\ Counted(lines)
             /\ {paid, taken, commission, policies, loans} \subseteq Int
             /\ net_total(lines) = BasicAmount(k, r) + paid + commission
                  - (Late(k, r) + Absent(k, r) + Unpaid(k, its) + taken + policies + loans)
             /\ bonuses(lines) = paid
             /\ commissions(lines) = commission
             /\ deductions(lines) = Late(k, r) + Absent(k, r) + Unpaid(k, its) + taken + policies
             /\ advances(lines) = loans
             /\ Coded(lines, "BASIC") = BasicPart(k, r)
<1>. DEFINE L == Lines(k, r, its)
            basic == BasicPart(k, r)
            late == LatePart(k, r)
            absent == AbsentPart(k, r)
            unpaid == UnpaidPart(k, its)
            pays == ItemLines("COMP", "earning", OwnRows("earning", its), Worth)
            takes == ItemLines("COMP", "deduction", OwnRows("deduction", its), Worth)
            commission == ItemLines("COMM", "earning", its \cap Commission, Worth)
            policies == ItemLines("POLICY", "deduction", policy_deductions(its), Worth)
            loans == ItemLines("LOAN", "deduction", generator_loans(its), installment)
<1>1. L = basic \cup late \cup absent \cup unpaid \cup pays \cup takes \cup commission
            \cup policies \cup loans
  BY LinesAre
<1>2. /\ Counted(basic) /\ Amounts(basic) = BasicAmount(k, r)
      /\ \A l \in basic : l.code[1] = "BASIC" /\ l.type = "earning"
  BY DueAmounts, PartIs DEF BasicPart
<1>3. /\ Counted(late) /\ Amounts(late) = Late(k, r)
      /\ \A l \in late : l.code[1] = "LATE" /\ l.type = "deduction"
  BY DueAmounts, PartIs DEF LatePart
<1>4. /\ Counted(absent) /\ Amounts(absent) = Absent(k, r)
      /\ \A l \in absent : l.code[1] = "ABSENT" /\ l.type = "deduction"
  BY DueAmounts, PartIs DEF AbsentPart
<1>22. /\ Counted(unpaid) /\ Amounts(unpaid) = Unpaid(k, its)
       /\ \A l \in unpaid : l.code[1] = "UNPAID_LEAVE" /\ l.type = "deduction"
  BY DueAmounts, PartIs DEF UnpaidPart
<1>5. /\ Counted(pays) /\ Amounts(pays) = TotalWorth(OwnRows("earning", its))
      /\ \A l \in pays : l.code[1] = "COMP" /\ l.type = "earning"
  BY RowsWithin, AmountsOfRows
<1>6. /\ Counted(takes) /\ Amounts(takes) = TotalWorth(OwnRows("deduction", its))
      /\ \A l \in takes : l.code[1] = "COMP" /\ l.type = "deduction"
  BY RowsWithin, AmountsOfRows
<1>7. /\ Counted(commission) /\ Amounts(commission) = TotalWorth(its \cap Commission)
      /\ \A l \in commission : l.code[1] = "COMM" /\ l.type = "earning"
  BY RowsWithin, AmountsOfRows
<1>8. /\ Counted(policies) /\ Amounts(policies) = TotalWorth(policy_deductions(its))
      /\ \A l \in policies : l.code[1] = "POLICY" /\ l.type = "deduction"
  BY RowsWithin, AmountsOfRows
<1>9. /\ Counted(loans) /\ Amounts(loans) = Installments(its)
      /\ \A l \in loans : l.code[1] = "LOAN" /\ l.type = "deduction"
  <2>1. generator_loans(its) \in SUBSET Item
    BY RowsWithin
  <2>2. \A i \in generator_loans(its) : installment[i] \in Nat
    BY InstallmentsAre DEF generator_loans
  <2>. QED  BY <2>1, <2>2, AmountsOfItems DEF Installments
<1>. HIDE DEF L, basic, late, absent, unpaid, pays, takes, commission, policies, loans
<1>10. /\ Earnings(L) = (basic \cup pays) \cup commission
       /\ Deductions(L) = ((((late \cup absent) \cup unpaid) \cup takes) \cup policies) \cup loans
  BY <1>1, <1>2, <1>3, <1>4, <1>22, <1>5, <1>6, <1>7, <1>8, <1>9 DEF Earnings, Deductions
<1>11. /\ Coded(L, "BASIC") = basic
       /\ Coded(L, "COMM") = commission
       /\ Coded(L, "LOAN") = loans
  BY <1>1, <1>2, <1>3, <1>4, <1>22, <1>5, <1>6, <1>7, <1>8, <1>9 DEF Coded
<1>12. /\ basic \cap pays = {} /\ (basic \cup pays) \cap commission = {}
       /\ late \cap absent = {} /\ (late \cup absent) \cap unpaid = {}
       /\ ((late \cup absent) \cup unpaid) \cap takes = {}
       /\ (((late \cup absent) \cup unpaid) \cup takes) \cap policies = {}
       /\ ((((late \cup absent) \cup unpaid) \cup takes) \cup policies) \cap loans = {}
  BY <1>2, <1>3, <1>4, <1>22, <1>5, <1>6, <1>7, <1>8, <1>9
<1>. DEFINE charged == (((late \cup absent) \cup unpaid) \cup takes) \cup policies
<1>13. /\ Counted(Earnings(L))
       /\ Amounts(Earnings(L)) = Amounts(basic) + Amounts(pays) + Amounts(commission)
       /\ {Amounts(basic), Amounts(pays), Amounts(commission)} \subseteq Int
  <2>1. /\ Counted(basic \cup pays)
        /\ Amounts(basic \cup pays) = Amounts(basic) + Amounts(pays)
        /\ Amounts(basic) \in Int /\ Amounts(pays) \in Int
    BY <1>2, <1>5, <1>12, AmountsAdd
  <2>2. /\ Counted((basic \cup pays) \cup commission)
        /\ Amounts((basic \cup pays) \cup commission)
             = Amounts(basic \cup pays) + Amounts(commission)
        /\ Amounts(commission) \in Int
    BY <1>7, <1>12, <2>1, AmountsAdd
  <2>. QED  BY <1>10, <2>1, <2>2
<1>14. /\ Counted(charged)
       /\ Amounts(charged) = Amounts(late) + Amounts(absent) + Amounts(unpaid)
                               + Amounts(takes) + Amounts(policies)
       /\ {Amounts(late), Amounts(absent), Amounts(unpaid), Amounts(takes), Amounts(policies)}
            \subseteq Int
  <2>1. /\ Counted(late \cup absent)
        /\ Amounts(late \cup absent) = Amounts(late) + Amounts(absent)
        /\ Amounts(late) \in Int /\ Amounts(absent) \in Int
    BY <1>3, <1>4, <1>12, AmountsAdd
  <2>4. /\ Counted((late \cup absent) \cup unpaid)
        /\ Amounts((late \cup absent) \cup unpaid) = Amounts(late \cup absent) + Amounts(unpaid)
        /\ Amounts(unpaid) \in Int
    BY <1>22, <1>12, <2>1, AmountsAdd
  <2>2. /\ Counted(((late \cup absent) \cup unpaid) \cup takes)
        /\ Amounts(((late \cup absent) \cup unpaid) \cup takes)
             = Amounts((late \cup absent) \cup unpaid) + Amounts(takes)
        /\ Amounts(takes) \in Int
    BY <1>6, <1>12, <2>4, AmountsAdd
  <2>3. /\ Counted((((late \cup absent) \cup unpaid) \cup takes) \cup policies)
        /\ Amounts((((late \cup absent) \cup unpaid) \cup takes) \cup policies)
             = Amounts(((late \cup absent) \cup unpaid) \cup takes) + Amounts(policies)
        /\ Amounts(policies) \in Int
    BY <1>8, <1>12, <2>2, AmountsAdd
  <2>. QED  BY <2>1, <2>2, <2>3, <2>4
<1>15. charged \cap loans = {} /\ Deductions(L) = charged \cup loans
  BY <1>10, <1>12
<1>16. \A l \in charged : l.code[1] # "LOAN"
  BY <1>3, <1>4, <1>22, <1>6, <1>8
<1>. HIDE DEF charged
<1>17. /\ Counted(Deductions(L))
       /\ Amounts(Deductions(L)) = Amounts(charged) + Amounts(loans)
       /\ Amounts(loans) \in Int
  BY <1>9, <1>14, <1>15, AmountsAdd
<1>18. /\ Earnings(L) \ (Coded(L, "BASIC") \cup Coded(L, "COMM")) = pays
       /\ Earnings(L) \cap Coded(L, "COMM") = commission
       /\ Deductions(L) \ Coded(L, "LOAN") = charged
       /\ Deductions(L) \cap Coded(L, "LOAN") = loans
  BY <1>10, <1>11, <1>12, <1>15
<1>19. Counted(L)
  <2>1. L = Earnings(L) \cup Deductions(L)
    BY <1>1, <1>10, <1>15 DEF charged
  <2>2. Earnings(L) \cap Deductions(L) = {}
    BY DEF Earnings, Deductions
  <2>. QED  BY <1>13, <1>17, <2>1, <2>2, AmountsAdd
<1>20. /\ net_total(L) = Amounts(Earnings(L)) - Amounts(Deductions(L))
       /\ bonuses(L) = Amounts(pays) /\ commissions(L) = Amounts(commission)
       /\ deductions(L) = Amounts(charged) /\ advances(L) = Amounts(loans)
  BY <1>18, Zenon DEF net_total, bonuses, commissions, deductions, advances
<1>21. net_total(L) = Amounts(basic) + Amounts(pays) + Amounts(commission)
                        - (Amounts(late) + Amounts(absent) + Amounts(unpaid) + Amounts(takes)
                             + Amounts(policies) + Amounts(loans))
  BY <1>13, <1>14, <1>17, <1>20
<1>. QED
  BY <1>2, <1>3, <1>4, <1>22, <1>5, <1>6, <1>7, <1>8, <1>9, <1>11, <1>13, <1>14, <1>17,
     <1>19, <1>20, <1>21 DEF L, basic, late, absent, unpaid, pays, takes, commission, policies, loans

-----------------------------------------------------------------------------
(* ByPresence, of a kind of pay and the days.                              *)
Presence(k, r) ==
  CASE k = "commission" -> TRUE
    [] k = "monthly" ->
         Cardinality(Day) = MonthDays /\ \A d \in Day : r[d] \in {"present", "late"}
    [] OTHER -> \A d \in Day : r[d] # "undecided"

(* Days of presence times the rate are what the basic line says.           *)
LEMMA PresencePays ==
  ASSUME NEW k \in Kind, NEW r \in [Day -> Status], Presence(k, r)
  PROVE  /\ presentDays(r) \in Nat
         /\ BasicAmount(k, r) = IF k = "commission" THEN 0 ELSE 480 * presentDays(r)
         /\ Absent(k, r) = 0
<1>. DEFINE worked == Days(r, {"present", "late"})
            absent == Days(r, {"absent"})
<1>1. presentDays(r) \in Nat /\ worked \in Nat /\ absent \in Nat /\ MonthDays \in Nat
  BY DaysCount, PayslipAssumption DEF PayslipAssumption, presentDays
<1>2. \A d \in Day : r[d] \in {"none", "present", "late", "absent", "undecided"}
  BY DEF Status
<1>3. CASE k = "commission"
  BY <1>1, <1>3 DEF BasicAmount, Absent, AttendanceBased, DailyRate
<1>4. CASE k = "monthly"
  <2>1. /\ Cardinality(Day) = MonthDays
        /\ \A d \in Day : r[d] \in {"present", "late"}
    BY <1>4 DEF Presence
  <2>2. /\ {d \in Day : r[d] \in Status \ {"none", "absent"}} = Day
        /\ {d \in Day : r[d] \in {"absent"}} = {}
    BY <2>1 DEF Status
  <2>3. presentDays(r) = MonthDays /\ absent = 0
    BY <2>1, <2>2, FS_EmptySet DEF presentDays, Days
  <2>. QED  BY <1>1, <1>4, <2>3 DEF BasicAmount, Absent, AttendanceBased, DailyRate, Rate
<1>5. CASE k \in {"daily", "weekly"}
  <2>1. \A d \in Day : r[d] # "undecided"
    BY <1>5 DEF Presence
  <2>2. {d \in Day : r[d] \in Status \ {"none", "absent"}}
          = {d \in Day : r[d] \in {"present", "late"}}
    BY <1>2, <2>1 DEF Status
  <2>3. presentDays(r) = worked
    BY <2>2 DEF presentDays, Days
  <2>. QED  BY <1>1, <1>5, <2>3 DEF BasicAmount, Absent, AttendanceBased, Rate
<1>. QED  BY <1>3, <1>4, <1>5 DEF Kind

(* The rate read off the basic line: none when there is no such line.      *)
LEMMA RateRead ==
  ASSUME NEW k \in Kind, NEW r, NEW its \in SUBSET Item
  PROVE  dailyRate(Lines(k, r, its))
           = IF BasicAmount(k, r) > 0 THEN DailyRate(k) ELSE 0
<1>. DEFINE l == Line(<<"BASIC", DailyRate(k)>>, "earning", BasicAmount(k, r))
            L == Lines(k, r, its)
<1>1. Coded(L, "BASIC") = {x \in {l} : x.amount > 0}
  BY LinesSplit DEF BasicPart, Part
<1>2. l.amount = BasicAmount(k, r) /\ l.code[2] = DailyRate(k)
  BY DEF Line
<1>. HIDE DEF l, L
<1>3. CASE BasicAmount(k, r) > 0
  <2>1. Coded(L, "BASIC") = {l}
    BY <1>1, <1>2, <1>3
  <2>2. (CHOOSE x \in {l} : TRUE) = l
    OBVIOUS
  <2>. QED  BY <1>2, <1>3, <2>1, <2>2 DEF dailyRate, L
<1>4. CASE ~(BasicAmount(k, r) > 0)
  <2>1. Coded(L, "BASIC") = {}
    BY <1>1, <1>2, <1>4
  <2>. QED  BY <1>4, <2>1 DEF dailyRate, L
<1>. QED  BY <1>3, <1>4

(* What a page works out from the lines and the days they were made from   *)
(* is their net.                                                           *)
LEMMA PayableIsNet ==
  ASSUME NEW k \in Kind, NEW r \in [Day -> Status], NEW its \in SUBSET Item,
         Presence(k, r)
  PROVE  calculatePayableTotal(Lines(k, r, its), r) = net_total(Lines(k, r, its))
<1>. DEFINE L == Lines(k, r, its)
            paid == TotalWorth(OwnRows("earning", its))
            taken == TotalWorth(OwnRows("deduction", its))
            commission == TotalWorth(its \cap Commission)
            policies == TotalWorth(policy_deductions(its))
            loans == Installments(its)
<1>1. /\ {paid, taken, commission, policies, loans} \subseteq Int
      /\ net_total(L) = BasicAmount(k, r) + paid + commission
           - (Late(k, r) + Absent(k, r) + Unpaid(k, its) + taken + policies + loans)
      /\ bonuses(L) = paid /\ commissions(L) = commission
      /\ deductions(L) = Late(k, r) + Absent(k, r) + Unpaid(k, its) + taken + policies
      /\ advances(L) = loans
  BY LinesSplit
<1>2. /\ BasicAmount(k, r) \in Nat /\ Late(k, r) \in Nat
      /\ Absent(k, r) \in Nat /\ Unpaid(k, its) \in Nat
  BY DueAmounts
<1>3. dailyRate(L) = IF BasicAmount(k, r) > 0 THEN DailyRate(k) ELSE 0
  BY RateRead
<1>4. presentDays(r) * dailyRate(L) = BasicAmount(k, r)
  <2>1. /\ presentDays(r) \in Nat
        /\ BasicAmount(k, r) = IF k = "commission" THEN 0 ELSE 480 * presentDays(r)
    BY PresencePays
  <2>2. k # "commission" => DailyRate(k) = 480
    BY DEF DailyRate, Rate
  <2>3. CASE BasicAmount(k, r) = 0
    <3>1. dailyRate(L) = 0
      BY <1>3, <2>3
    <3>. QED  BY <2>1, <2>3, <3>1
  <2>4. CASE BasicAmount(k, r) > 0
    <3>1. dailyRate(L) = 480 /\ BasicAmount(k, r) = 480 * presentDays(r)
      BY <1>3, <2>1, <2>2, <2>4
    <3>. QED  BY <2>1, <3>1
  <2>. QED  BY <1>2, <2>3, <2>4
<1>5. calculatePayableTotal(L, r)
        = presentDays(r) * dailyRate(L) + bonuses(L) + commissions(L)
            - deductions(L) - advances(L)
  BY DEF calculatePayableTotal
<1>. HIDE DEF L, paid, taken, commission, policies, loans
<1>6. calculatePayableTotal(L, r) = net_total(L)
  BY <1>1, <1>2, <1>4, <1>5
<1>. QED  BY <1>6 DEF L

-----------------------------------------------------------------------------
(* The previews, of a kind of pay, the days and the other rows.            *)

(* No rows are worth nothing.                                              *)
LEMMA NothingWorth == TotalWorth({}) = 0
BY SumOfNone DEF TotalWorth

(* Rows that are earnings, and all others.                                 *)
LEMMA EarnedOrTaken ==
  ASSUME NEW its \in SUBSET Item
  PROVE  /\ {i \in generator_components(its) : Component[i].type = "earning"}
              = OwnRows("earning", its)
         /\ generator_components(its) \ OwnRows("earning", its)
              = OwnRows("deduction", its)
<1>1. \A i \in DOMAIN Component : Component[i].type \in {"earning", "deduction"}
  BY RowsAssumption DEF RowsAssumption, ComponentRow
<1>2. generator_components(its) \subseteq DOMAIN Component
  BY DEF generator_components
<1>. QED  BY <1>1, <1>2 DEF OwnRows

(* What the tables hold.                                                   *)
LEMMA RowsAre ==
  /\ \A i \in DOMAIN Component :
       /\ Component[i].recurring \in BOOLEAN
       /\ Component[i].period \in {"none", "this", "within", "other"}
       /\ Component[i].created \in {"before", "in", "last", "later"}
  /\ \A i \in DOMAIN Action :
       /\ Action[i].day \in {"none", "in", "out"}
       /\ Action[i].span \in {"none", "in", "into", "out"}
       /\ Action[i].created \in {"before", "in", "last", "later"}
  /\ \A i \in DOMAIN Loan :
       /\ Loan[i].type \in {"loan", "advance"} /\ Loan[i].active \in BOOLEAN
       /\ Loan[i].remaining \in Nat /\ Worth[i] \in Nat \ {0}
<1>1. /\ Component \in [DOMAIN Component -> ComponentRow]
      /\ Action \in [DOMAIN Action -> ActionRow] /\ Loan \in [DOMAIN Loan -> LoanRow]
      /\ \A i \in DOMAIN Loan : Worth[i] \in Nat \ {0}
  BY RowsAssumption DEF RowsAssumption
<1>. QED  BY <1>1 DEF ComponentRow, ActionRow, LoanRow, Date

(* Without rows that run down, what is active has an installment left, and *)
(* it is all of it.                                                        *)
LEMMA LoansLeft ==
  ASSUME NEW its \in SUBSET Item, its \cap RunDown = {}
  PROVE  /\ \A i \in its \cap DOMAIN Loan : Loan[i].active => Loan[i].remaining > 0
         /\ Installments(its) = TotalWorth(generator_loans(its))
<1>1. \A i \in its \cap DOMAIN Loan : Loan[i].active => ~(Loan[i].remaining < Worth[i])
  BY DEF RunDown
<1>2. \A i \in its \cap DOMAIN Loan :
        Loan[i].active => Loan[i].remaining >= Worth[i] /\ Loan[i].remaining > 0
  BY <1>1, RowsAre
<1>3. \A i \in generator_loans(its) : installment[i] = Worth[i]
  BY <1>2, InstallmentsAre DEF generator_loans
<1>4. IsFiniteSet(generator_loans(its))
  BY RowsWithin, ItemsFinite
<1>. QED  BY <1>2, <1>3, <1>4, SumSame DEF Installments, TotalWorth

(* The payroll page takes in the rows of the generator, but for those it   *)
(* misses.                                                                 *)
LEMMA PayrollRows ==
  ASSUME NEW e, NEW its \in SUBSET Item, its \cap payroll_misses(e) = {}
  PROVE  /\ payroll_components(its) = generator_components(its)
         /\ {i \in its \cap DOMAIN Action : isHrActionInRange(Action[i])}
              = policy_deductions(its)
         /\ payroll_advances(its) = generator_loans(its)
<1>1. payroll_components(its) = generator_components(its)
  <2>1. ASSUME NEW i \in its \cap DOMAIN Component
        PROVE  i \in payroll_components(its) <=> i \in generator_components(its)
    <3>1. i \notin DOMAIN Action /\ i \notin Undated(TRUE, "later")
          /\ i \notin Undated(FALSE, "last")
      BY <2>1 DEF payroll_misses, Mirrored
    <3>2. /\ ~(Component[i].period = "none" /\ Component[i].recurring
                 /\ Component[i].created = "later")
          /\ ~(Component[i].period = "none" /\ ~Component[i].recurring
                 /\ Component[i].created = "last")
      BY <2>1, <3>1, RowsAre DEF Undated
    <3>3. isComponentInRange(Component[i])
            <=> \/ Component[i].period = "this"
                \/ Component[i].period = "none" /\ Component[i].recurring
                      /\ Component[i].created # "later"
                \/ Component[i].period = "none" /\ ~Component[i].recurring
                      /\ Component[i].created \in InPeriod
      BY <2>1, <3>2, RowsAre DEF isComponentInRange, InPeriod
    <3>. QED  BY <2>1, <3>1, <3>3 DEF payroll_components, generator_components
  <2>. QED  BY <2>1 DEF payroll_components, generator_components
<1>2. {i \in its \cap DOMAIN Action : isHrActionInRange(Action[i])} = policy_deductions(its)
  <2>1. ASSUME NEW i \in its \cap DOMAIN Action
        PROVE  isHrActionInRange(Action[i]) <=> i \in policy_deductions(its)
    <3>. DEFINE a == Action[i]
    <3>1. /\ ~(a.span = "into" /\ a.day # "in") /\ ~(a.span = "out" /\ a.day = "in")
          /\ ~(a.span = "none" /\ a.created = "last")
          /\ ~(a.span = "none" /\ a.day = "in" /\ a.created # "in")
          /\ ~(a.span = "none" /\ a.day = "out" /\ a.created = "in")
      BY <2>1 DEF payroll_misses
    <3>2. /\ a.day \in {"none", "in", "out"} /\ a.span \in {"none", "in", "into", "out"}
          /\ a.created \in {"before", "in", "last", "later"}
      BY <2>1, RowsAre
    <3>3. i \in policy_deductions(its)
            <=> \/ a.day = "in" \/ a.span = "in"
                \/ a.day = "none" /\ a.span = "none" /\ a.created \in InPeriod
      BY <2>1 DEF policy_deductions
    <3>. HIDE DEF a
    <3>4. isHrActionInRange(a)
            <=> \/ a.day = "in" \/ a.span = "in"
                \/ a.day = "none" /\ a.span = "none" /\ a.created \in InPeriod
      BY <3>1, <3>2 DEF isHrActionInRange, InPeriod
    <3>. QED  BY <3>3, <3>4 DEF a
  <2>. QED  BY <2>1 DEF policy_deductions
<1>3. its \cap RunDown = {}
  BY DEF payroll_misses
<1>4. \A i \in its \cap DOMAIN Loan : Loan[i].active => Loan[i].remaining > 0
  BY <1>3, LoansLeft
<1>5. payroll_advances(its) = generator_loans(its)
  BY <1>4 DEF payroll_advances, generator_loans
<1>. QED  BY <1>1, <1>2, <1>5

(* The profile does, but for those it misses.                              *)
LEMMA ProfileRows ==
  ASSUME NEW e, NEW its \in SUBSET Item, its \cap profile_misses(e) = {}
  PROVE  /\ profile_components(its) = generator_components(its)
         /\ profile_advances(its) = generator_loans(its)
<1>1. profile_components(its) = generator_components(its)
  <2>1. ASSUME NEW i \in its \cap DOMAIN Component
        PROVE  i \in profile_components(its) <=> i \in generator_components(its)
    <3>. DEFINE c == Component[i]
    <3>1. /\ i \notin DOMAIN Action /\ c.period # "within"
          /\ i \notin Undated(TRUE, "before") /\ i \notin Undated(FALSE, "last")
      BY <2>1 DEF profile_misses, Mirrored
    <3>2. /\ c.recurring \in BOOLEAN /\ c.period \in {"none", "this", "within", "other"}
          /\ c.created \in {"before", "in", "last", "later"}
      BY <2>1, RowsAre
    <3>3. /\ ~(c.period = "none" /\ c.recurring /\ c.created = "before")
          /\ ~(c.period = "none" /\ ~c.recurring /\ c.created = "last")
      BY <2>1, <3>1, <3>2 DEF Undated
    <3>4. /\ i \in profile_components(its)
               <=> profile_fetched(c) /\ profile_isComponentInRange(c)
          /\ i \in generator_components(its)
               <=> \/ c.period = "this"
                   \/ c.period = "none" /\ c.recurring /\ c.created # "later"
                   \/ c.period = "none" /\ ~c.recurring /\ c.created \in InPeriod
      BY <2>1, <3>1 DEF profile_components, generator_components
    <3>5. c.period # "within"
      BY <3>1
    <3>. HIDE DEF c
    <3>6. profile_fetched(c) /\ profile_isComponentInRange(c)
               <=> \/ c.period = "this"
                   \/ c.period = "none" /\ c.recurring /\ c.created # "later"
                   \/ c.period = "none" /\ ~c.recurring /\ c.created \in InPeriod
      BY <3>2, <3>3, <3>5 DEF profile_fetched, profile_isComponentInRange, InPeriod
    <3>. QED  BY <3>4, <3>6
  <2>. QED  BY <2>1 DEF profile_components, generator_components
<1>2. its \cap RunDown = {} /\ \A i \in its \cap DOMAIN Loan : Loan[i].active => Loan[i].type # "loan"
  BY DEF profile_misses
<1>3. \A i \in its \cap DOMAIN Loan :
        Loan[i].active => Loan[i].remaining > 0 /\ Loan[i].type = "advance"
  BY <1>2, LoansLeft, RowsAre
<1>. QED  BY <1>1, <1>3 DEF profile_advances, generator_loans

(* Lateness costs nothing without a rate or without a late day.            *)
LEMMA LateDays ==
  ASSUME NEW k \in Kind, NEW r
  PROVE  /\ resolveDailyRate(k) = DailyRate(k)
         /\ (resolveDailyRate(k) \div 480) * LateMinutes * Days(r, {"late"}) = Late(k, r)
         /\ k = "commission" \/ (\A d \in Day : r[d] # "late") => Late(k, r) = 0
<1>1. resolveDailyRate(k) = DailyRate(k)
  BY DEF resolveDailyRate, DailyRate
<1>2. CASE k = "commission"
  <2>1. DailyRate(k) = 0 /\ Days(r, {"late"}) \in Nat
    BY <1>2, DaysCount DEF DailyRate
  <2>2. DailyRate(k) \div 480 = 0
    BY <2>1
  <2>3. Late(k, r) = 0
    BY <2>1, <2>2 DEF Late, LateMinutes
  <2>. QED  BY <1>1, <2>3 DEF Late
<1>3. CASE \A d \in Day : r[d] # "late"
  <2>1. {d \in Day : r[d] \in {"late"}} = {}
    BY <1>3
  <2>2. Days(r, {"late"}) = 0
    BY <2>1, FS_EmptySet DEF Days
  <2>3. (DailyRate(k) \div 480) \in Int
    BY DEF DailyRate, Rate
  <2>4. Late(k, r) = 0
    BY <2>2, <2>3 DEF Late, LateMinutes
  <2>. QED  BY <1>1, <2>4 DEF Late
<1>. QED  BY <1>1, <1>2, <1>3 DEF Late

(* Unpaid leave costs who is paid by the month.                            *)
LEMMA UnpaidFree ==
  ASSUME NEW k \in Kind, NEW its \in SUBSET Item,
         k = "monthly" => its \cap DOMAIN UnpaidLeave = {}
  PROVE  Unpaid(k, its) = 0
<1>1. CASE AttendanceBased(k)
  BY <1>1 DEF Unpaid
<1>2. CASE k = "commission"
  BY <1>2, LeaveCount DEF Unpaid, DailyRate
<1>3. CASE k = "monthly"
  <2>1. unpaid_leave_days(its) = 0
    BY <1>3, SumOfNone DEF unpaid_leave_days
  <2>. QED  BY <2>1, <1>3 DEF Unpaid, DailyRate, Rate
<1>. QED  BY <1>1, <1>2, <1>3 DEF Kind, AttendanceBased

(* The net of the rows of now, as the previews add it up.                  *)
LEMMA NetOfRows ==
  ASSUME NEW k \in Kind, NEW r \in [Day -> Status], NEW its \in SUBSET Item,
         Presence(k, r), its \cap RunDown = {},
         k # "commission" => its \cap Commission = {},
         k = "monthly" => its \cap DOMAIN UnpaidLeave = {}
  PROVE  LET paid == TotalWorth(OwnRows("earning", its))
             taken == TotalWorth(OwnRows("deduction", its))
             commission == TotalWorth(its \cap Commission)
             policies == TotalWorth(policy_deductions(its))
             loans == TotalWorth(generator_loans(its))
         IN  /\ {paid, taken, commission, policies, loans} \subseteq Int
             /\ Late(k, r) \in Nat
             /\ net_total(Lines(k, r, its))
                  = (IF k = "commission" THEN commission
                                         ELSE resolveDailyRate(k) * presentDays(r))
                    + paid - (Late(k, r) + taken + policies + loans)
<1>. DEFINE paid == TotalWorth(OwnRows("earning", its))
            taken == TotalWorth(OwnRows("deduction", its))
            commission == TotalWorth(its \cap Commission)
            policies == TotalWorth(policy_deductions(its))
            loans == TotalWorth(generator_loans(its))
            net == net_total(Lines(k, r, its))
<1>1. /\ {paid, taken, commission, policies, loans} \subseteq Int
      /\ net = BasicAmount(k, r) + paid + commission
           - (Late(k, r) + Absent(k, r) + Unpaid(k, its) + taken + policies + loans)
  <2>1. Installments(its) = loans
    BY LoansLeft
  <2>2. LET due == Installments(its)
        IN  /\ {paid, taken, commission, policies, due} \subseteq Int
            /\ net = BasicAmount(k, r) + paid + commission
                 - (Late(k, r) + Absent(k, r) + Unpaid(k, its) + taken + policies + due)
    BY LinesSplit
  <2>. HIDE DEF paid, taken, commission, policies, loans, net
  <2>. QED  BY <2>1, <2>2
<1>2. BasicAmount(k, r) \in Nat /\ Late(k, r) \in Nat
  BY DueAmounts
<1>3. /\ presentDays(r) \in Nat
      /\ BasicAmount(k, r) = IF k = "commission" THEN 0 ELSE 480 * presentDays(r)
      /\ Absent(k, r) = 0
  BY PresencePays
<1>4. k # "commission" => resolveDailyRate(k) = 480
  BY DEF resolveDailyRate, Rate
<1>5. k # "commission" => commission = 0
  BY NothingWorth
<1>7. Unpaid(k, its) = 0
  BY UnpaidFree
<1>. HIDE DEF paid, taken, commission, policies, loans, net
<1>6. net = (IF k = "commission" THEN commission ELSE resolveDailyRate(k) * presentDays(r))
              + paid - (Late(k, r) + taken + policies + loans)
  <2>1. CASE k = "commission"
    BY <1>1, <1>2, <1>3, <1>7, <2>1
  <2>2. CASE k # "commission"
    <3>1. net = 480 * presentDays(r) + paid - (Late(k, r) + taken + policies + loans)
      BY <1>1, <1>2, <1>3, <1>5, <1>7, <2>2
    <3>2. resolveDailyRate(k) * presentDays(r) = 480 * presentDays(r)
      BY <1>4, <2>2
    <3>. QED  BY <2>2, <3>1, <3>2, Zenon
  <2>. QED  BY <2>1, <2>2
<1>. QED  BY <1>1, <1>2, <1>6 DEF paid, taken, commission, policies, loans, net

(* The net pay of the payroll page, and that of the profile.               *)
LEMMA PayrollPreview ==
  ASSUME NEW k \in Kind, NEW r \in [Day -> Status], NEW its \in SUBSET Item,
         Presence(k, r), NEW e, its \cap payroll_misses(e) = {},
         k # "commission" => its \cap Commission = {},
         k = "monthly" => its \cap DOMAIN UnpaidLeave = {},
         k = "commission" \/ \A d \in Day : r[d] # "late"
  PROVE  summaryStats_netPay(k, r, its) = net_total(Lines(k, r, its))
<1>. DEFINE paid == TotalWorth(OwnRows("earning", its))
            taken == TotalWorth(OwnRows("deduction", its))
            commission == TotalWorth(its \cap Commission)
            policies == TotalWorth(policy_deductions(its))
            loans == TotalWorth(generator_loans(its))
            first == IF k = "commission" THEN commission
                                         ELSE resolveDailyRate(k) * presentDays(r)
<1>1. /\ {paid, taken, commission, policies, loans} \subseteq Int
      /\ net_total(Lines(k, r, its))
           = first + paid - (Late(k, r) + taken + policies + loans)
  <2>1. its \cap RunDown = {}
    BY DEF payroll_misses
  <2>. QED  BY <2>1, NetOfRows
<1>2. Late(k, r) = 0
  BY LateDays
<1>3. summaryStats_netPay(k, r, its) = first + paid - taken - policies - loans
  BY PayrollRows, EarnedOrTaken, Zenon DEF summaryStats_netPay
<1>4. first \in Int
  <2>1. presentDays(r) \in Nat /\ resolveDailyRate(k) \in Int
    BY PresencePays DEF resolveDailyRate, Rate
  <2>2. resolveDailyRate(k) * presentDays(r) \in Int
    BY <2>1
  <2>. QED  BY <1>1, <2>2
<1>. HIDE DEF paid, taken, commission, policies, loans, first
<1>. QED  BY <1>1, <1>2, <1>3, <1>4

LEMMA ProfilePreview ==
  ASSUME NEW k \in Kind, NEW r \in [Day -> Status], NEW its \in SUBSET Item,
         Presence(k, r), NEW e, its \cap profile_misses(e) = {},
         k # "commission" => its \cap Commission = {},
         k = "monthly" => its \cap DOMAIN UnpaidLeave = {}
  PROVE  profile_netPay(k, r, its) = net_total(Lines(k, r, its))
<1>. DEFINE paid == TotalWorth(OwnRows("earning", its))
            taken == TotalWorth(OwnRows("deduction", its))
            commission == TotalWorth(its \cap Commission)
            policies == TotalWorth(policy_deductions(its))
            loans == TotalWorth(generator_loans(its))
            first == IF k = "commission" THEN commission
                                         ELSE resolveDailyRate(k) * presentDays(r)
            totals == adjustmentTotals(k, r, its)
<1>1. /\ {paid, taken, commission, policies, loans} \subseteq Int
      /\ Late(k, r) \in Nat
      /\ net_total(Lines(k, r, its))
           = first + paid - (Late(k, r) + taken + policies + loans)
  <2>1. its \cap RunDown = {}
    BY DEF profile_misses
  <2>. QED  BY <2>1, NetOfRows
<1>2. /\ totals.bonuses = paid
      /\ totals.deductions = taken + policies + Late(k, r)
      /\ totals.advances = loans
      /\ totals.commissions = commission
  BY ProfileRows, EarnedOrTaken, LateDays, Zenon DEF adjustmentTotals
<1>3. profile_netPay(k, r, its)
        = (IF k = "commission" THEN totals.commissions
                               ELSE resolveDailyRate(k) * presentDays(r))
          + totals.bonuses - (totals.deductions + totals.advances)
  BY DEF profile_netPay
<1>4. first \in Int
  <2>1. presentDays(r) \in Nat /\ resolveDailyRate(k) \in Int
    BY PresencePays DEF resolveDailyRate, Rate
  <2>2. resolveDailyRate(k) * presentDays(r) \in Int
    BY <2>1
  <2>. QED  BY <1>1, <2>2
<1>. HIDE DEF totals
<1>5. profile_netPay(k, r, its) = first + paid - (taken + policies + Late(k, r) + loans)
  BY <1>2, <1>3, Zenon
<1>. HIDE DEF paid, taken, commission, policies, loans, first
<1>. QED  BY <1>1, <1>4, <1>5

-----------------------------------------------------------------------------
(* The rows are typed and every run was made from such rows.               *)
RowsTyped ==
  /\ kind \in [Employee -> Kind]
  /\ days \in [Employee -> [Day -> Status]]
  /\ items \in [Employee -> SUBSET Item]
RunsMade ==
  \A e \in WithRun :
    \E r \in [Day -> Status], its \in SUBSET Item :
      run[e] = [lines |-> Lines(kind[e], r, its), made |-> r]
Slips == RowsTyped /\ RunsMade

(* Rows are typed at first, and no step makes a run of other rows.         *)
LEMMA SlipsInit == SlipInit => Slips
<1>. SUFFICES ASSUME SlipInit PROVE Slips
  OBVIOUS
<1>1. kind \in [Employee -> Kind]
  BY PayslipAssumption DEF SlipInit, PayslipAssumption
<1>2. days \in [Employee -> [Day -> Status]] /\ items \in [Employee -> SUBSET Item]
  BY DEF SlipInit, Status
<1>3. WithRun = {}
  BY DEF SlipInit, WithRun
<1>. QED  BY <1>1, <1>2, <1>3 DEF Slips, RowsTyped, RunsMade

LEMMA SlipsStep == Slips /\ [SlipNext]_slipVars => Slips'
<1>. SUFFICES ASSUME Slips, [SlipNext]_slipVars PROVE Slips'
  OBVIOUS
<1>1. kind' = kind
  BY DEF SlipNext, slipVars, rowVars, Attend, Adjust, Generate, Open, ListAnswers, ReadRun,
         ReadAttendance, ReadFails, Land, Leave
<1>2. ASSUME NEW e \in Employee, NEW d \in Day, Attend(e, d) PROVE Slips'
  <2>1. PICK s \in Status : days' = [days EXCEPT ![e][d] = s]
    BY <1>2 DEF Attend
  <2>2. days' \in [Employee -> [Day -> Status]]
    BY <2>1 DEF Slips, RowsTyped
  <2>3. run' = run /\ items' = items
    BY <1>2 DEF Attend
  <2>. QED  BY <1>1, <2>2, <2>3 DEF Slips, RowsTyped, RunsMade, WithRun
<1>3. ASSUME NEW e \in Employee, NEW i \in Rows[e], Adjust(e, i) PROVE Slips'
  <2>1. i \in Item
    BY RowsAssumption DEF RowsAssumption
  <2>2. items' \in [Employee -> SUBSET Item]
    BY <1>3, <2>1 DEF Adjust, Slips, RowsTyped
  <2>3. run' = run /\ days' = days
    BY <1>3 DEF Adjust
  <2>. QED  BY <1>1, <2>2, <2>3 DEF Slips, RowsTyped, RunsMade, WithRun
<1>4. CASE Generate
  <2>1. /\ run' = [e \in Employee |->
                     [lines |-> Lines(kind[e], days[e], items[e]), made |-> days[e]]]
        /\ days' = days /\ items' = items
    BY <1>4 DEF Generate, rowVars
  <2>2. ASSUME NEW e \in Employee
        PROVE  \E r \in [Day -> Status], its \in SUBSET Item :
                 run'[e] = [lines |-> Lines(kind[e], r, its), made |-> r]
    <3>1. run'[e] = [lines |-> Lines(kind[e], days[e], items[e]), made |-> days[e]]
      BY <2>1
    <3>2. days[e] \in [Day -> Status] /\ items[e] \in SUBSET Item
      BY DEF Slips, RowsTyped
    <3>. QED  BY <3>1, <3>2
  <2>3. WithRun' \subseteq Employee
    BY DEF WithRun
  <2>. QED  BY <1>1, <2>1, <2>2, <2>3 DEF Slips, RowsTyped, RunsMade
<1>5. CASE UNCHANGED <<rowVars, run>>
  BY <1>5 DEF rowVars, Slips, RowsTyped, RunsMade, WithRun
<1>. QED
  BY <1>2, <1>3, <1>4, <1>5 DEF SlipNext, slipVars, rowVars, Open, ListAnswers, ReadRun,
     ReadAttendance, ReadFails, Land, Leave

(* What Presence is for.                                                   *)
LEMMA ByPresenceIs == \A e : ByPresence(e) <=> Presence(kind[e], days[e])
BY DEF ByPresence, Presence

(* The previews of the payroll page and of the profile are the net that a  *)
(* generation would pay, for any table of rows, any days and any number of *)
(* employees, but for the rows that PreviewIsNet names.                    *)
THEOREM PayslipsPreview == SlipSpec => []PreviewIsNet
<1>1. Slips => PreviewIsNet
  <2>. SUFFICES ASSUME Slips, NEW e \in Employee, ByPresence(e)
                PROVE  LET net == net_total(Lines(kind[e], days[e], items[e]))
                       IN  /\ NeverLate(e) /\ items[e] \cap payroll_misses(e) = {}
                                => summaryStats_netPay(kind[e], days[e], items[e]) = net
                           /\ items[e] \cap profile_misses(e) = {}
                                => profile_netPay(kind[e], days[e], items[e]) = net
    BY DEF PreviewIsNet
  <2>1. /\ kind[e] \in Kind /\ days[e] \in [Day -> Status] /\ items[e] \in SUBSET Item
        /\ Presence(kind[e], days[e])
    BY ByPresenceIs DEF Slips, RowsTyped
  <2>2. ASSUME NeverLate(e), items[e] \cap payroll_misses(e) = {}
        PROVE  summaryStats_netPay(kind[e], days[e], items[e])
                 = net_total(Lines(kind[e], days[e], items[e]))
    <3>1. /\ kind[e] # "commission" => items[e] \cap Commission = {}
          /\ kind[e] = "monthly" => items[e] \cap DOMAIN UnpaidLeave = {}
      BY <2>2 DEF payroll_misses, Unlisted
    <3>2. kind[e] = "commission" \/ \A d \in Day : days[e][d] # "late"
      BY <2>2 DEF NeverLate
    <3>. QED  BY <2>1, <2>2, <3>1, <3>2, PayrollPreview
  <2>3. ASSUME items[e] \cap profile_misses(e) = {}
        PROVE  profile_netPay(kind[e], days[e], items[e])
                 = net_total(Lines(kind[e], days[e], items[e]))
    <3>1. /\ kind[e] # "commission" => items[e] \cap Commission = {}
          /\ kind[e] = "monthly" => items[e] \cap DOMAIN UnpaidLeave = {}
      BY <2>3 DEF profile_misses, Unlisted
    <3>. QED  BY <2>1, <2>3, <3>1, ProfilePreview
  <2>. QED  BY <2>2, <2>3
<1>. QED  BY <1>1, SlipsInit, SlipsStep, PTL DEF SlipSpec

-----------------------------------------------------------------------------
(* What a page holds of a run that nothing has touched since it opened:    *)
(* its list the net, a load what it has read of the run and the days of    *)
(* now, a payable either the net or what the two give.                     *)
Still(e) == e \in WithRun /\ e \notin moved
AsRead(j) == j = [lines |-> j.lines, days |-> j.days, failed |-> j.failed]
LoadsRead ==
  \A e \in DOMAIN job :
    /\ AsRead(job[e]) /\ e \in Employee
    /\ Still(e) => /\ job[e].lines \in {Unset, run[e].lines}
                   /\ job[e].days \in {Unset, days[e]}
                   /\ listed[e] = Net(e)
Worked(e) == {Unset, Net(e), calculatePayableTotal(run[e].lines, days[e])}
PayablesRead == \A e \in Employee : Still(e) => payables[e] \in Worked(e)
ListRead ==
  listed # NoList /\ moved = {} =>
    /\ page \in DOMAIN Pages /\ DOMAIN listed = WithRun \cap Pages[page].sees
ClosedEmpty ==
  page = "closed" => listed = NoList /\ job = NoJob /\ payables = [e \in Employee |-> Unset]
PageOK == page \in {"closed"} \cup DOMAIN Pages
Pagewise == PageOK /\ LoadsRead /\ PayablesRead /\ ListRead /\ ClosedEmpty

(* Without a load nobody is loaded; a closed page is none of the pages.    *)
LEMMA NoLoads == DOMAIN NoJob = {}
BY DEF NoJob

LEMMA ClosedIsPage == "closed" \notin DOMAIN Pages
BY DEF Pages

(* A page that was never opened holds nothing.                             *)
LEMMA PagewiseInit == SlipInit => Pagewise
<1>. SUFFICES ASSUME SlipInit PROVE Pagewise
  OBVIOUS
<1>1. WithRun = {}
  BY DEF SlipInit, WithRun
<1>2. DOMAIN job = {}
  BY NoLoads DEF SlipInit
<1>. QED
  BY <1>1, <1>2 DEF SlipInit, Pagewise, PageOK, LoadsRead, PayablesRead, ListRead,
                    ClosedEmpty, Still

(* A step that leaves the page alone and moves who it touches.             *)
LEMMA RowsMove ==
  ASSUME Pagewise, UNCHANGED pageVars,
         \A e \in Employee \ moved' :
           e \notin moved /\ run'[e] = run[e] /\ days'[e] = days[e],
         moved' = {} => moved = {} /\ WithRun' = WithRun
  PROVE  Pagewise'
<1>0. UNCHANGED <<page, listed, payables, job>>
  BY DEF pageVars
<1>1. \A e \in Employee : Still(e)' => /\ Still(e) /\ Net(e)' = Net(e)
                                       /\ Worked(e)' = Worked(e)
                                       /\ run'[e] = run[e] /\ days'[e] = days[e]
  BY DEF Still, WithRun, Net, Worked
<1>2. PageOK' /\ ClosedEmpty'
  BY <1>0 DEF Pagewise, PageOK, ClosedEmpty
<1>3. LoadsRead'
  <2>1. \A e \in DOMAIN job : e \in Employee
    BY DEF Pagewise, LoadsRead
  <2>. QED  BY <1>0, <1>1, <2>1 DEF Pagewise, LoadsRead
<1>4. PayablesRead'
  BY <1>0, <1>1 DEF Pagewise, PayablesRead
<1>5. ListRead'
  BY <1>0 DEF Pagewise, ListRead
<1>. QED  BY <1>2, <1>3, <1>4, <1>5 DEF Pagewise

(* A load that reads, of one run.                                          *)
LEMMA LoadReads ==
  ASSUME Pagewise, UNCHANGED <<rowVars, run, page, listed, payables, moved>>,
         NEW e \in DOMAIN job, DOMAIN job' = DOMAIN job,
         \A f \in DOMAIN job \ {e} : job'[f] = job[f],
         AsRead(job'[e]),
         job'[e].lines \in {job[e].lines, run[e].lines},
         job'[e].days \in {job[e].days, days[e]}
  PROVE  Pagewise'
<1>0. UNCHANGED <<kind, days, items>>
  BY DEF rowVars
<1>1. WithRun' = WithRun /\ \A f : Still(f)' = Still(f) /\ Net(f)' = Net(f)
                                   /\ Worked(f)' = Worked(f)
  BY <1>0 DEF Still, WithRun, Net, Worked
<1>2. LoadsRead'
  <2>1. SUFFICES ASSUME NEW f \in DOMAIN job'
                 PROVE  /\ AsRead(job'[f]) /\ f \in Employee
                        /\ Still(f) => /\ job'[f].lines \in {Unset, run[f].lines}
                                       /\ job'[f].days \in {Unset, days[f]}
                                       /\ listed[f] = Net(f)
    BY <1>0, <1>1 DEF LoadsRead
  <2>2. /\ AsRead(job[f]) /\ f \in Employee
        /\ Still(f) => /\ job[f].lines \in {Unset, run[f].lines}
                       /\ job[f].days \in {Unset, days[f]}
                       /\ listed[f] = Net(f)
    BY <2>1 DEF Pagewise, LoadsRead
  <2>3. CASE f = e
    BY <2>2, <2>3
  <2>4. CASE f # e
    BY <2>1, <2>2, <2>4
  <2>. QED  BY <2>3, <2>4
<1>3. job # NoJob
  BY NoLoads
<1>. QED  BY <1>0, <1>1, <1>2, <1>3 DEF Pagewise, PageOK, PayablesRead, ListRead, ClosedEmpty

(* No step breaks what the page holds: rows and runs that change are       *)
(* moved, a load reads what is there, and leaving forgets everything.      *)
LEMMA PagewiseStep == Pagewise /\ [SlipNext]_slipVars => Pagewise'
<1>. SUFFICES ASSUME Pagewise, [SlipNext]_slipVars PROVE Pagewise'
  OBVIOUS
<1>1. ASSUME NEW e \in Employee, NEW d \in Day, Attend(e, d) PROVE Pagewise'
  <2>1. PICK s \in Status : days' = [days EXCEPT ![e][d] = s]
    BY <1>1 DEF Attend
  <2>2. moved' = moved \cup {e} /\ run' = run /\ UNCHANGED pageVars
    BY <1>1 DEF Attend
  <2>3. \A f \in Employee : f # e => days'[f] = days[f]
    BY <2>1
  <2>4. WithRun' = WithRun
    BY <2>2 DEF WithRun
  <2>. QED  BY <2>2, <2>3, <2>4, RowsMove
<1>2. ASSUME NEW e \in Employee, NEW i \in Rows[e], Adjust(e, i) PROVE Pagewise'
  <2>1. UNCHANGED <<days, run, pageVars, moved>>
    BY <1>2 DEF Adjust
  <2>2. WithRun' = WithRun
    BY <2>1 DEF WithRun
  <2>. QED  BY <2>1, <2>2, RowsMove
<1>3. CASE Generate
  <2>1. moved' = Employee /\ UNCHANGED pageVars
    BY <1>3 DEF Generate
  <2>2. Employee # {}
    BY PayslipAssumption DEF PayslipAssumption
  <2>. QED  BY <2>1, <2>2, RowsMove
<1>4. ASSUME NEW p \in DOMAIN Pages, Open(p) PROVE Pagewise'
  <2>1. /\ page' = p /\ p # "closed" /\ moved' = {}
        /\ listed' = NoList /\ job' = NoJob /\ payables' = [e \in Employee |-> Unset]
    BY <1>4, ClosedIsPage DEF Open, Pagewise, ClosedEmpty
  <2>. QED
    BY <2>1, NoLoads DEF Pagewise, PageOK, LoadsRead, PayablesRead, Worked, ListRead, ClosedEmpty
<1>5. CASE ListAnswers
  <2>1. /\ page \in DOMAIN Pages
        /\ listed' = [e \in WithRun \cap Pages[page].sees |-> Net(e)]
        /\ job' = [e \in {e \in DOMAIN listed' : payables[e] = Unset} |-> Unread]
        /\ UNCHANGED <<days, run, page, payables, moved>>
    BY <1>5 DEF ListAnswers, Restart, Launch, rowVars, Pagewise, PageOK
  <2>2. /\ WithRun' = WithRun
        /\ \A e : Still(e)' = Still(e) /\ Net(e)' = Net(e) /\ Worked(e)' = Worked(e)
    BY <2>1 DEF WithRun, Still, Net, Worked
  <2>3. LoadsRead'
    <3>1. AsRead(Unread) /\ Unread.lines = Unset /\ Unread.days = Unset
      BY DEF AsRead, Unread
    <3>2. \A e \in DOMAIN job' : /\ job'[e] = Unread /\ e \in Employee
                                 /\ listed'[e] = Net(e)
      BY <2>1 DEF WithRun
    <3>. QED  BY <2>2, <3>1, <3>2 DEF LoadsRead
  <2>4. PageOK' /\ PayablesRead' /\ ListRead' /\ ClosedEmpty'
    BY <2>1, <2>2, ClosedIsPage DEF Pagewise, PageOK, PayablesRead, ListRead, ClosedEmpty
  <2>. QED  BY <2>3, <2>4 DEF Pagewise
<1>6. ASSUME NEW e \in Employee, ReadRun(e) PROVE Pagewise'
  <2>1. e \in DOMAIN job /\ AsRead(job[e])
    BY <1>6 DEF ReadRun, Reading, Pagewise, LoadsRead
  <2>2. job' = [job EXCEPT ![e].lines = run[e].lines]
    BY <1>6 DEF ReadRun
  <2>3. /\ DOMAIN job' = DOMAIN job /\ \A f \in DOMAIN job \ {e} : job'[f] = job[f]
        /\ job'[e] = [job[e] EXCEPT !.lines = run[e].lines]
    BY <2>1, <2>2
  <2>4. AsRead(job'[e]) /\ job'[e].lines = run[e].lines /\ job'[e].days = job[e].days
    BY <2>1, <2>3 DEF AsRead
  <2>5. UNCHANGED <<rowVars, run, page, listed, payables, moved>>
    BY <1>6 DEF ReadRun
  <2>. QED  BY <2>1, <2>3, <2>4, <2>5, LoadReads
<1>7. ASSUME NEW e \in Employee, ReadAttendance(e) PROVE Pagewise'
  <2>1. e \in DOMAIN job /\ AsRead(job[e])
    BY <1>7 DEF ReadAttendance, Reading, Pagewise, LoadsRead
  <2>2. job' = [job EXCEPT ![e].days = days[e]]
    BY <1>7 DEF ReadAttendance
  <2>3. /\ DOMAIN job' = DOMAIN job /\ \A f \in DOMAIN job \ {e} : job'[f] = job[f]
        /\ job'[e] = [job[e] EXCEPT !.days = days[e]]
    BY <2>1, <2>2
  <2>4. AsRead(job'[e]) /\ job'[e].lines = job[e].lines /\ job'[e].days = days[e]
    BY <2>1, <2>3 DEF AsRead
  <2>5. UNCHANGED <<rowVars, run, page, listed, payables, moved>>
    BY <1>7 DEF ReadAttendance
  <2>. QED  BY <2>1, <2>3, <2>4, <2>5, LoadReads
<1>8. ASSUME NEW e \in Employee, ReadFails(e) PROVE Pagewise'
  <2>1. e \in DOMAIN job /\ AsRead(job[e])
    BY <1>8 DEF ReadFails, Reading, Pagewise, LoadsRead
  <2>2. job' = [job EXCEPT ![e].failed = TRUE]
    BY <1>8 DEF ReadFails
  <2>3. /\ DOMAIN job' = DOMAIN job /\ \A f \in DOMAIN job \ {e} : job'[f] = job[f]
        /\ job'[e] = [job[e] EXCEPT !.failed = TRUE]
    BY <2>1, <2>2
  <2>4. AsRead(job'[e]) /\ job'[e].lines = job[e].lines /\ job'[e].days = job[e].days
    BY <2>1, <2>3 DEF AsRead
  <2>5. UNCHANGED <<rowVars, run, page, listed, payables, moved>>
    BY <1>8 DEF ReadFails
  <2>. QED  BY <2>1, <2>3, <2>4, <2>5, LoadReads
<1>9. CASE Land
  <2>1. /\ \A e \in DOMAIN job : job[e].failed \/ Read(e)
        /\ payables' = [e \in Employee |-> IF e \in DOMAIN job THEN RunPayable(e)
                                                               ELSE payables[e]]
        /\ job # NoJob /\ job' = NoJob
        /\ UNCHANGED <<days, run, page, listed, moved>>
    BY <1>9 DEF Land, rowVars
  <2>2. /\ WithRun' = WithRun
        /\ \A e : Still(e)' = Still(e) /\ Net(e)' = Net(e) /\ Worked(e)' = Worked(e)
    BY <2>1 DEF WithRun, Still, Net, Worked
  <2>3. ASSUME NEW e \in Employee, Still(e) PROVE payables'[e] \in Worked(e)
    <3>1. CASE e \notin DOMAIN job
      BY <2>1, <2>3, <3>1 DEF Pagewise, PayablesRead
    <3>2. CASE e \in DOMAIN job
      <4>1. /\ job[e].lines \in {Unset, run[e].lines} /\ job[e].days \in {Unset, days[e]}
            /\ listed[e] = Net(e)
        BY <2>3, <3>2 DEF Pagewise, LoadsRead
      <4>2. payables'[e] = RunPayable(e)
        BY <2>1, <3>2
      <4>3. CASE job[e].failed
        BY <4>1, <4>2, <4>3 DEF RunPayable, Worked
      <4>4. CASE ~job[e].failed
        <5>1. job[e].lines = run[e].lines /\ job[e].days = days[e]
          BY <2>1, <3>2, <4>1, <4>4 DEF Read
        <5>. QED  BY <4>2, <4>4, <5>1 DEF RunPayable, Worked
      <4>. QED  BY <4>3, <4>4
    <3>. QED  BY <3>1, <3>2
  <2>4. page # "closed"
    BY <2>1 DEF Pagewise, ClosedEmpty
  <2>. QED
    BY <2>1, <2>2, <2>3, <2>4, NoLoads DEF Pagewise, PageOK, LoadsRead, PayablesRead, ListRead,
                                           ClosedEmpty
<1>10. CASE Leave
  <2>1. /\ page' = "closed" /\ listed' = NoList /\ job' = NoJob
        /\ payables' = [e \in Employee |-> Unset]
    BY <1>10 DEF Leave
  <2>. QED
    BY <2>1, NoLoads DEF Pagewise, PageOK, LoadsRead, PayablesRead, Worked, ListRead, ClosedEmpty
<1>11. CASE UNCHANGED slipVars
  <2>1. UNCHANGED <<days, run, pageVars, moved>>
    BY <1>11 DEF slipVars, rowVars, pageVars
  <2>2. WithRun' = WithRun
    BY <2>1 DEF WithRun
  <2>. QED  BY <2>1, <2>2, RowsMove
<1>. QED
  BY <1>1, <1>2, <1>3, <1>4, <1>5, <1>6, <1>7, <1>8, <1>9, <1>10, <1>11 DEF SlipNext

(* The payable of a run nothing has touched is its net.                    *)
LEMMA SettledPays ==
  ASSUME Slips, Pagewise, NEW e \in WithRun, payables[e] # Unset, e \notin moved, Settled(e)
  PROVE  payables[e] = Net(e)
<1>1. e \in Employee /\ Still(e)
  BY DEF WithRun, Still
<1>2. PICK r \in [Day -> Status], its \in SUBSET Item :
        run[e] = [lines |-> Lines(kind[e], r, its), made |-> r]
  BY DEF Slips, RunsMade
<1>3. run[e].lines = Lines(kind[e], r, its) /\ days[e] = r
  BY <1>2 DEF Settled
<1>4. kind[e] \in Kind /\ Presence(kind[e], r)
  BY <1>1, <1>3, ByPresenceIs DEF Slips, RowsTyped, Settled
<1>5. calculatePayableTotal(run[e].lines, days[e]) = Net(e)
  BY <1>3, <1>4, PayableIsNet DEF Net
<1>. QED  BY <1>1, <1>5 DEF Pagewise, PayablesRead, Worked

(* The amount of the salary expense, when it is shown.                     *)
LEMMA PeriodPays ==
  ASSUME Slips, Pagewise, payrollPeriodTotal # Unset, moved = {},
         \A e \in WithRun : Settled(e)
  PROVE  payrollPeriodTotal = SumFunction([e \in WithRun |-> Net(e)])
<1>1. /\ page = "expense" /\ listed # NoList
      /\ \A e \in DOMAIN listed : payables[e] # Unset
      /\ payrollPeriodTotal = SumFunctionOnSet(payables, DOMAIN listed)
  BY DEF payrollPeriodTotal
<1>2. DOMAIN listed = WithRun
  <2>1. Pages["expense"].sees = Employee
    BY DEF Pages, expense_loadPayables
  <2>2. DOMAIN listed = WithRun \cap Employee
    BY <1>1, <2>1 DEF Pagewise, ListRead
  <2>. QED  BY <2>2 DEF WithRun
<1>. DEFINE f == [e \in WithRun |-> Net(e)]
<1>3. \A e \in WithRun : payables[e] = f[e]
  BY <1>1, <1>2, SettledPays
<1>4. IsFiniteSet(WithRun)
  BY PayslipAssumption, FS_Subset DEF PayslipAssumption, WithRun
<1>5. SumFunction(f) = SumFunctionOnSet(f, WithRun)
  <2>1. DOMAIN f = WithRun
    OBVIOUS
  <2>. HIDE DEF f
  <2>. QED  BY <2>1 DEF SumFunction
<1>. HIDE DEF f
<1>6. SumFunctionOnSet(payables, WithRun) = SumFunctionOnSet(f, WithRun)
  BY <1>3, <1>4, SumSame
<1>. QED  BY <1>1, <1>2, <1>5, <1>6 DEF f

(* A payable that a page shows of a run untouched since the page opened is *)
(* the net the server pays, and so is the salary expense of the period,    *)
(* however readings, failures and refetches fall.                          *)
THEOREM PayslipsNet == SlipSpec => []SlipIsNet
<1>1. Slips /\ Pagewise => SlipIsNet
  BY SettledPays, PeriodPays DEF SlipIsNet
<1>. QED  BY <1>1, SlipsInit, SlipsStep, PagewiseInit, PagewiseStep, PTL DEF SlipSpec
=============================================================================
