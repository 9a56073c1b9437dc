--------------------------- MODULE AttendanceBook ---------------------------
(***************************************************************************)
(* Attendance records, the decisions on them and the penalties that the    *)
(* policy rules derive from them: hr/services/attendance.py,               *)
(* hr/attendance/services.py and hr/services/policies.py.                  *)
(*                                                                         *)
(* Every operation is one transaction that first reads the record of the   *)
(* day and then writes it back, whole or some of its fields; the decisions *)
(* read it before their transaction begins.  Nothing locks the row, so     *)
(* what is written may be derived from a record that has changed since.    *)
(***************************************************************************)
EXTENDS Integers, FiniteSets

CONSTANTS Employee,
          Decider,    \* accounts that hold attendance.*; that a manager with
                      \* approvals.* may decide as well, on his own people,
                      \* is left out
          LastDay,    \* bound: the days of a behaviour are 1..LastDay
          LastRaced,  \* bound: and 1..LastRaced when requests overlap
          LastLeft,   \* bound: nobody leaves after that day
          Settings,   \* whether requests overlap, and the active rules
          Request,    \* the requests under way at a time
          Threshold,  \* of the rule that counts late days
          Window,     \* and its period_days
          NoOne, NoRow

Day == 1..LastDay
Rule == {"late_over_minutes", "late_count_over_period"}
Policy == [Rule -> {"off", "warning", "deduction"}]

Source == {"location", "otp", "code", "manual"}
Verdict == {"approved", "rejected"}
Approval == {"null", "pending"} \cup Verdict
(* "present" also stands for incomplete and early_leave.                   *)
Status == {"present", "late", "absent"}
(* A time is told apart only by whether it was clocked or entered.         *)
Time == {"none", "clocked", "entered"}
TimeOf(how) == IF how = "manual" THEN "entered" ELSE "clocked"
Row == [in: Time, out: Time,
        inOk: Approval, outOk: Approval,
        inBy: Decider \cup {NoOne}, outBy: Decider \cup {NoOne},
        status: Status, over: BOOLEAN, deleted: BOOLEAN]
Fields == {"in", "out", "inOk", "outOk", "inBy", "outBy", "status", "over",
           "deleted"}
Span == [from: Int, to: Int]
NoSpan == [from |-> 0, to |-> 0]
Action == [rule: Rule, emp: Employee, day: Day \cup {0}, span: Span,
           live: BOOLEAN]
Op == {"arrive", "leave", "decide_in", "decide_out"}
Job == [op: Op, how: Source \cup Verdict, emp: Employee, day: Day,
        by: Decider \cup {NoOne}, seen: Row \cup {NoRow}]

ASSUME AttendanceAssumption ==
  /\ LastDay \in Nat \ {0}
  /\ LastRaced \in Day /\ LastLeft \in Int
  /\ Settings \subseteq [racing: BOOLEAN, policy: Policy]
  /\ Threshold \in Nat /\ Window \in Nat \ {0}
  /\ NoOne \notin Decider /\ NoRow \notin Row

VARIABLES today,   \* the local date
          racing,  \* several requests at a time in this behaviour
          policy,  \* per rule: its action_type, "off" if it is not active
          period,  \* the payroll period of these days exists
          rec,     \* per employee and day: the row, NoRow if there is none
          actions, \* the HRAction rows
          job      \* per request: what it is doing and the record it read

vars == <<today, racing, policy, period, rec, actions, job>>

(* Every variable has the values its column or its request can hold.       *)
TypeOK ==
  /\ today \in Day
  /\ racing \in BOOLEAN
  /\ policy \in Policy
  /\ period \in BOOLEAN
  /\ rec \in [Employee -> [Day -> Row \cup {NoRow}]]
  /\ actions \subseteq Action
  /\ job \in [Request -> Job \cup {NoRow}]

Init ==
  /\ today = 1
  /\ \E s \in Settings : racing = s.racing /\ policy = s.policy
  /\ period = FALSE
  /\ rec = [e \in Employee |-> [d \in Day |-> NoRow]]
  /\ actions = {}
  /\ job = [r \in Request |-> NoRow]

Idle(r) == job[r] = NoRow
MayStart(r) == Idle(r) /\ (racing \/ \A q \in Request : Idle(q))
At(r, op) == ~Idle(r) /\ job[r].op = op
Begin(r, j) == job' = [job EXCEPT ![r] = j]
Done(r) == job' = [job EXCEPT ![r] = NoRow]

-----------------------------------------------------------------------------
(* AttendanceRecord.objects hides the deleted rows; the constraint that    *)
(* there is one record per employee and day counts them.                   *)
Visible(e, d) ==
  IF rec[e][d] # NoRow /\ ~rec[e][d].deleted THEN rec[e][d] ELSE NoRow

Blank == [in |-> "none", out |-> "none", inOk |-> "null", outOk |-> "null",
          inBy |-> NoOne, outBy |-> NoOne, status |-> "present",
          over |-> FALSE, deleted |-> FALSE]

(* record.save(update_fields=fields)                                       *)
Save(row, new, fields) ==
  [f \in Fields |-> IF f \in fields THEN new[f] ELSE row[f]]

(* objects.create if no record was found, else an UPDATE of the one found  *)
Store(j, new, fields) ==
  /\ j.seen = NoRow => rec[j.emp][j.day] = NoRow
  /\ rec' = [rec EXCEPT ![j.emp][j.day] =
                IF j.seen = NoRow THEN new ELSE Save(@, new, fields)]

-----------------------------------------------------------------------------
(* hr/services/policies.py                                                 *)
Period == [from |-> 0 - 1, to |-> LastDay + 1]

LateDays(book, e, d) ==
  {k \in Day : /\ k \in (d - Window + 1)..d
               /\ book[e][k] # NoRow
               /\ book[e][k].status = "late" /\ ~book[e][k].deleted}

(* mutant: the count must exceed the threshold                             *)
OffByOne(book, e, d) == Cardinality(LateDays(book, e, d)) > Threshold
TooOften(book, e, d) == Cardinality(LateDays(book, e, d)) >= Threshold

(* A deduction falls in the payroll period of the day, if there is one.    *)
Penalty(rule, e, d, span) ==
  [rule |-> rule, emp |-> e, day |-> d, live |-> TRUE,
   span |-> IF policy[rule] = "deduction" /\ period THEN Period ELSE span]

LatePenalty(e, d) == Penalty("late_over_minutes", e, d, NoSpan)
CountPenalty(e, d) ==
  Penalty("late_count_over_period", e, 0, [from |-> d - Window + 1, to |-> d])

(* evaluate_attendance_record: what the active rules make of a record      *)
Called(book, e, d, row) ==
  {p \in {LatePenalty(e, d), CountPenalty(e, d)} :
     /\ policy[p.rule] # "off"
     /\ row.status = "late"
     /\ IF p.rule = "late_over_minutes" THEN row.over ELSE TooOften(book, e, d)}

(* create_hr_action_if_not_exists asks for the same record or, if there is *)
(* none, for the same span.                                                *)
(* mutant: it asks for the same rule and employee                          *)
SameEmployee(p, q) == p.rule = q.rule /\ p.emp = q.emp
SameCause(p, q) ==
  /\ p.rule = q.rule /\ p.emp = q.emp /\ p.day = q.day
  /\ p.day = 0 => p.span = q.span
Missing(ps) == {p \in ps : ~\E a \in actions : a.live /\ SameCause(p, a)}

(* The two constraints on HRAction know no is_deleted.                     *)
Clashes(p) == \E a \in actions :
  /\ p.rule = a.rule /\ p.emp = a.emp
  /\ (p.day # 0 /\ p.day = a.day) \/ (p.span # NoSpan /\ p.span = a.span)

Penalise(ps) ==
  /\ ~\E p \in ps : Clashes(p)
  /\ actions' = actions \cup ps

-----------------------------------------------------------------------------
(* check_in, verify_self_attendance_otp, submit_code_attendance and        *)
(* create_manual_attendance, the first half: who may, and what is found.   *)
(* Manual records are of any day (bound: up to today), the others of today. *)
MayRecord(how, d, by) ==
  IF how = "manual" THEN by \in Decider /\ d <= today
  ELSE d = today /\ by = NoOne

(* mutant: an employee may arrive again                                    *)
NotArrivedAlways(row) == TRUE
NotArrived(row) == row # NoRow => row.in = "none"

Arrive(r, e, d, how, by) ==
  /\ MayStart(r)
  /\ MayRecord(how, d, by)
  /\ NotArrived(Visible(e, d))
  /\ Begin(r, [op |-> "arrive", how |-> how, emp |-> e, day |-> d,
               by |-> by, seen |-> Visible(e, d)])
  /\ UNCHANGED <<today, racing, policy, period, rec, actions>>

Leave(r, e, d, how, by) ==
  /\ MayStart(r)
  /\ MayRecord(how, d, by) /\ d <= LastLeft
  /\ Visible(e, d) # NoRow
  /\ Visible(e, d).in # "none" /\ Visible(e, d).out = "none"
  /\ Begin(r, [op |-> "leave", how |-> how, emp |-> e, day |-> d,
               by |-> by, seen |-> Visible(e, d)])
  /\ UNCHANGED <<today, racing, policy, period, rec, actions>>

-----------------------------------------------------------------------------
(* The second half of an arrival.  Only check_in and the OTP compare the   *)
(* time with the shift and have the rules evaluated.                       *)
Found(j) == IF j.seen = NoRow THEN Blank ELSE j.seen
Timed(how) == how \in {"location", "otp"}
Approved(j) == IF j.how = "manual" THEN "approved" ELSE "pending"

Resolved(row) == IF row.inOk = "rejected" THEN "absent" ELSE row.status

ArrivalStatus(j, late) ==
  CASE Timed(j.how) -> IF late THEN "late" ELSE "present"
    [] j.how = "code" -> Resolved(Found(j))
    [] OTHER -> "present"

Arrival(j, late, over) ==
  LET timed == [Found(j) EXCEPT
                  !.in = TimeOf(j.how),
                  !.status = ArrivalStatus(j, late),
                  !.over = IF Timed(j.how) THEN late /\ over ELSE @]
  IN  IF j.how = "location" THEN timed
      ELSE [timed EXCEPT !.inOk = Approved(j), !.inBy = j.by]

ArrivalFields(how) ==
  CASE how = "location" -> {"in", "status", "over"}
    [] how = "otp" -> Fields
    [] OTHER -> {"in", "status", "inOk", "inBy"}

(* The row of a new record is locked by its insertion, that of an old one  *)
(* by its update, until the penalties are in and all is committed.         *)
ArriveWrite(r, late, over) ==
  LET j == job[r]
      new == Arrival(j, late, over)
  IN  /\ At(r, "arrive")
      /\ over => late
      /\ ~Timed(j.how) => ~late
      /\ Store(j, new, ArrivalFields(j.how))
      /\ IF Timed(j.how)
         THEN Penalise(Missing(Called(rec', j.emp, j.day, new)))
         ELSE UNCHANGED actions
      /\ Done(r)
      /\ UNCHANGED <<today, racing, policy, period>>

(* The second half of a departure                                          *)
DepartureStatus(j, early) ==
  IF j.how = "code" THEN Resolved(j.seen)
  ELSE IF j.seen.status # "late" /\ (j.how = "manual" \/ early) THEN "present"
  ELSE j.seen.status

Departure(j, early) ==
  LET timed == [j.seen EXCEPT !.out = TimeOf(j.how),
                              !.status = DepartureStatus(j, early)]
  IN  IF j.how = "location" THEN timed
      ELSE [timed EXCEPT !.outOk = Approved(j), !.outBy = j.by]

DepartureFields(how) ==
  CASE how = "location" -> {"out", "status"}
    [] how = "otp" -> Fields
    [] OTHER -> {"out", "status", "outOk", "outBy"}

LeaveWrite(r, early) ==
  LET j == job[r] IN
  /\ At(r, "leave")
  /\ Store(j, Departure(j, early), DepartureFields(j.how))
  /\ Done(r)
  /\ UNCHANGED <<today, racing, policy, period, actions>>

-----------------------------------------------------------------------------
(* AttendanceViewSet.approve and reject: get_object, then the decision,    *)
(* which saves the whole record.  An earlier decision is no obstacle.      *)
(* mutant: what has not been recorded may be decided                       *)
DecidableAlways(op, row) == TRUE
Decidable(op, row) ==
  IF op = "decide_in" THEN row.in # "none" ELSE row.out # "none"

Decide(r, e, d, op, verdict, by) ==
  /\ MayStart(r)
  /\ Visible(e, d) # NoRow
  /\ Decidable(op, Visible(e, d))
  /\ Begin(r, [op |-> op, how |-> verdict, emp |-> e, day |-> d,
               by |-> by, seen |-> Visible(e, d)])
  /\ UNCHANGED <<today, racing, policy, period, rec, actions>>

Decision(j) ==
  IF j.op = "decide_in"
  THEN [j.seen EXCEPT !.inOk = j.how, !.inBy = j.by]
  ELSE [j.seen EXCEPT !.outOk = j.how, !.outBy = j.by]

DecideWrite(r) ==
  /\ At(r, "decide_in") \/ At(r, "decide_out")
  /\ Store(job[r], Decision(job[r]), Fields)
  /\ Done(r)
  /\ UNCHANGED <<today, racing, policy, period, actions>>

-----------------------------------------------------------------------------
(* AttendanceViewSet.destroy: the record is only marked.                   *)
DeleteRecord(e, d) ==
  /\ racing \/ \A r \in Request : Idle(r)
  /\ Visible(e, d) # NoRow
  /\ rec' = [rec EXCEPT ![e][d].deleted = TRUE]
  /\ UNCHANGED <<today, racing, policy, period, actions, job>>

(* AttendanceRecordAdmin: a day of absence entered by hand (bound: up to   *)
(* today)                                                                  *)
MarkAbsent(e, d) ==
  /\ racing \/ \A r \in Request : Idle(r)
  /\ d <= today /\ rec[e][d] = NoRow
  /\ rec' = [rec EXCEPT ![e][d] = [Blank EXCEPT !.status = "absent"]]
  /\ UNCHANGED <<today, racing, policy, period, actions, job>>

(* HRActionViewSet.destroy: marked, too.  In behaviours with races, any    *)
(* clash is among the requests that roll back (bound).                     *)
Forgive(a) ==
  /\ ~racing /\ \A r \in Request : Idle(r)
  /\ a.live
  /\ actions' = (actions \ {a}) \cup {[a EXCEPT !.live = FALSE]}
  /\ UNCHANGED <<today, racing, policy, period, rec, job>>

(* PayrollPeriodViewSet.create (bound: not in behaviours with races)       *)
OpenPeriod ==
  /\ ~racing /\ \A r \in Request : Idle(r)
  /\ ~period /\ period' = TRUE
  /\ UNCHANGED <<today, racing, policy, rec, actions, job>>

Midnight ==
  /\ racing \/ \A r \in Request : Idle(r)
  /\ today < IF racing THEN LastRaced ELSE LastDay
  /\ today' = today + 1
  /\ UNCHANGED <<racing, policy, period, rec, actions, job>>

(* A request ends without effect: a constraint refused its write, or the   *)
(* process died; either way the transaction is rolled back.                *)
RollBack(r) ==
  /\ ~Idle(r)
  /\ Done(r)
  /\ UNCHANGED <<today, racing, policy, period, rec, actions>>

Next ==
  \/ \E r \in Request, e \in Employee, d \in Day :
       \/ \E how \in Source, by \in Decider \cup {NoOne} :
            Arrive(r, e, d, how, by) \/ Leave(r, e, d, how, by)
       \/ \E op \in {"decide_in", "decide_out"}, verdict \in Verdict,
             by \in Decider : Decide(r, e, d, op, verdict, by)
  \/ \E r \in Request :
       \/ \E late, over \in BOOLEAN : ArriveWrite(r, late, over)
       \/ \E early \in BOOLEAN : LeaveWrite(r, early)
       \/ DecideWrite(r)
       \/ RollBack(r)
  \/ \E e \in Employee, d \in Day : DeleteRecord(e, d) \/ MarkAbsent(e, d)
  \/ \E a \in actions : Forgive(a)
  \/ OpenPeriod
  \/ Midnight

Spec == Init /\ [][Next]_vars

-----------------------------------------------------------------------------
(* approved_attendance_queryset, what payroll counts: an IN list with None *)
(* matches no NULL.                                                        *)
(* mutant: a check-out need not be decided                                 *)
PayableAnyOut(row) ==
  row # NoRow /\ ~row.deleted /\ row.inOk = "approved"
Payable(row) ==
  /\ row # NoRow /\ ~row.deleted
  /\ row.inOk = "approved"
  /\ row.out = "none" \/ row.outOk = "approved"

(* What payroll counts is a day on which the employee arrived, whose       *)
(* arrival and, if any, departure somebody entitled to decided or entered, *)
(* however stale the record was that a save wrote back.  A check-in by     *)
(* location that nobody has decided is not counted.                        *)
PayableIsDecided ==
  \A e \in Employee, d \in Day : Payable(rec[e][d]) =>
    /\ rec[e][d].in # "none" /\ rec[e][d].inBy \in Decider
    /\ rec[e][d].out # "none" => rec[e][d].outBy \in Decider

(* What the docstring of approved_attendance_queryset says instead: a      *)
(* record whose times are approved or without an approval status (NULL) is *)
(* counted.  The query does not do it.                                     *)
NullIsPayable ==
  \A e \in Employee, d \in Day :
    LET row == rec[e][d]
    IN /\ row # NoRow /\ ~row.deleted /\ row.in # "none"
       /\ row.inOk \in {"approved", "null"}
       /\ row.out = "none" \/ row.outOk \in {"approved", "null"}
       => Payable(row)

(* Arriving too late is penalised once and for all: no interleaving of     *)
(* arrivals, decisions and deletions leaves such a record without its      *)
(* HRAction, live or forgiven.                                             *)
LatePenalised ==
  policy["late_over_minutes"] # "off" =>
    \A e \in Employee, d \in Day :
      rec[e][d] # NoRow /\ rec[e][d].over =>
        \E a \in actions : a.rule = "late_over_minutes" /\ a.emp = e /\ a.day = d

(* With one request at a time, being late too often within the rule's days *)
(* has been penalised for those days or for their payroll period.          *)
OftenLatePenalised ==
  policy["late_count_over_period"] # "off" /\ ~racing =>
    \A e \in Employee, d \in Day :
      /\ Visible(e, d) # NoRow /\ Visible(e, d).status = "late"
      /\ Cardinality(LateDays(rec, e, d)) >= Threshold
      => \E a \in actions :
           /\ a.rule = "late_count_over_period" /\ a.emp = e
           /\ a.span \in {Period, [from |-> d - Window + 1, to |-> d]}

(* An arrival, once recorded, never disappears from the record, not even   *)
(* when a decision writes back a record it read before.                    *)
ArrivalIsKept ==
  [][\A e \in Employee, d \in Day :
       rec[e][d] # NoRow /\ rec[e][d].in # "none" =>
         rec'[e][d] # NoRow /\ rec'[e][d].in # "none"]_vars

(* With one request at a time, a decided time does not change any more and *)
(* its decision gives way to another decision only.                        *)
Stands(row, next) ==
  /\ row.inOk \in Verdict => next.in = row.in /\ next.inOk \in Verdict
  /\ row.outOk \in Verdict => next.out = row.out /\ next.outOk \in Verdict
DecisionStands ==
  [][~racing => \A e \in Employee, d \in Day :
       rec[e][d] # NoRow => Stands(rec[e][d], rec'[e][d])]_vars
=============================================================================
