----------------------- MODULE AttendanceBook_proofs -----------------------
(***************************************************************************)
(* Theorems about AttendanceBook, for every set of employees, deciders and *)
(* overlapping requests, every calendar and every choice of rules.         *)
(***************************************************************************)
EXTENDS AttendanceBook, FiniteSetTheorems, TLAPS

-----------------------------------------------------------------------------
(* What a save does to a record                                            *)

LEMMA SaveType ==
  ASSUME NEW row \in Row, NEW new \in Row, NEW fields
  PROVE  Save(row, new, fields) \in Row
BY DEF Save, Row, Fields

(* The records that arrivals, departures and decisions make are records.   *)
LEMMA BlankType == Blank \in Row
BY DEF Blank, Row, Time, Approval, Status

LEMMA ArrivalType ==
  ASSUME NEW j \in Job, NEW late \in BOOLEAN, NEW over \in BOOLEAN
  PROVE  Arrival(j, late, over) \in Row
<1>1. Found(j) \in Row
  BY BlankType DEF Found, Job
<1>2. ArrivalStatus(j, late) \in Status
  BY <1>1 DEF ArrivalStatus, Resolved, Status, Row
<1>3. TimeOf(j.how) \in Time /\ Approved(j) \in Approval
  BY DEF TimeOf, Time, Approved, Approval, Verdict
<1>. QED  BY <1>1, <1>2, <1>3 DEF Arrival, Row, Job

LEMMA DepartureType ==
  ASSUME NEW j \in Job, j.seen \in Row, NEW early \in BOOLEAN
  PROVE  Departure(j, early) \in Row
<1>1. DepartureStatus(j, early) \in Status
  BY DEF DepartureStatus, Resolved, Status, Row
<1>2. TimeOf(j.how) \in Time /\ Approved(j) \in Approval
  BY DEF TimeOf, Time, Approved, Approval, Verdict
<1>. QED  BY <1>1, <1>2 DEF Departure, Row, Job

LEMMA DecisionType ==
  ASSUME NEW j \in Job, j.seen \in Row, j.how \in Verdict
  PROVE  Decision(j) \in Row
BY DEF Decision, Row, Job, Approval, Verdict

-----------------------------------------------------------------------------
(* Type correctness.  What a request writes depends on what it found: a    *)
(* departure and a decision found a record, a decision is a verdict, and   *)
(* the record found is still there, for none is ever removed.              *)

JobTyped(j) ==
  /\ j.op # "arrive" => j.seen # NoRow
  /\ j.op \in {"decide_in", "decide_out"} => j.how \in Verdict
  /\ j.seen # NoRow => rec[j.emp][j.day] # NoRow
JobsTyped == \A r \in Request : ~Idle(r) => JobTyped(job[r])
Typed == TypeOK /\ JobsTyped
RowsRemain ==
  \A e \in Employee, d \in Day : rec[e][d] # NoRow => rec'[e][d] # NoRow

LEMMA TypedInit == Init => Typed
<1>. SUFFICES ASSUME Init PROVE Typed
  OBVIOUS
<1>1. racing \in BOOLEAN /\ policy \in Policy
  BY AttendanceAssumption DEF Init
<1>2. today \in Day
  BY AttendanceAssumption DEF Init, Day
<1>. QED  BY <1>1, <1>2 DEF Init, Typed, TypeOK, JobsTyped, Idle

LEMMA VisibleType ==
  ASSUME TypeOK, NEW e \in Employee, NEW d \in Day
  PROVE  /\ Visible(e, d) \in Row \cup {NoRow}
         /\ Visible(e, d) # NoRow => Visible(e, d) = rec[e][d]
BY DEF TypeOK, Visible

(* A request that begins or ends leaves the others alone.                  *)
LEMMA BeginType ==
  ASSUME Typed, NEW r \in Request, NEW j \in Job, JobTyped(j), Begin(r, j),
         UNCHANGED rec
  PROVE  job' \in [Request -> Job \cup {NoRow}] /\ JobsTyped'
BY DEF Typed, TypeOK, JobsTyped, JobTyped, Idle, Begin

LEMMA DoneType ==
  ASSUME Typed, NEW r \in Request, Done(r), RowsRemain
  PROVE  job' \in [Request -> Job \cup {NoRow}] /\ JobsTyped'
BY DEF Typed, TypeOK, JobsTyped, JobTyped, Idle, Done, RowsRemain, Job

LEMMA StoreType ==
  ASSUME Typed, NEW j \in Job, JobTyped(j), NEW new \in Row, NEW fields,
         Store(j, new, fields)
  PROVE  rec' \in [Employee -> [Day -> Row \cup {NoRow}]] /\ RowsRemain
<1>1. j.emp \in Employee /\ j.day \in Day /\ new # NoRow
  BY AttendanceAssumption DEF Job
<1>2. CASE j.seen = NoRow
  BY <1>1, <1>2 DEF Store, Typed, TypeOK, RowsRemain
<1>3. CASE j.seen # NoRow
  <2>1. Save(rec[j.emp][j.day], new, fields) \in Row
    BY <1>1, <1>3, SaveType DEF Typed, TypeOK, JobTyped
  <2>2. rec' = [rec EXCEPT ![j.emp][j.day] =
                   Save(rec[j.emp][j.day], new, fields)]
    BY <1>1, <1>3 DEF Store, Typed, TypeOK
  <2>3. Save(rec[j.emp][j.day], new, fields) # NoRow
    BY <2>1, AttendanceAssumption
  <2>. QED  BY <1>1, <2>1, <2>2, <2>3 DEF Typed, TypeOK, RowsRemain
<1>. QED  BY <1>2, <1>3

LEMMA PenaltyType ==
  ASSUME TypeOK, NEW e \in Employee, NEW d \in Day
  PROVE  LatePenalty(e, d) \in Action /\ CountPenalty(e, d) \in Action
<1>1. \A a, b \in Int : [from |-> a, to |-> b] \in Span
  BY DEF Span
<1>2. NoSpan \in Span /\ Period \in Span /\ d \in Int
  BY <1>1, AttendanceAssumption DEF NoSpan, Period, Day
<1>3. [from |-> d - Window + 1, to |-> d] \in Span
  BY <1>1, <1>2, AttendanceAssumption
<1>. QED
  BY <1>2, <1>3 DEF LatePenalty, CountPenalty, Penalty, Action, Rule

LEMMA PenaliseType ==
  ASSUME TypeOK, NEW e \in Employee, NEW d \in Day, NEW book, NEW row,
         Penalise(Missing(Called(book, e, d, row)))
  PROVE  actions' \subseteq Action
<1>1. Called(book, e, d, row) \subseteq Action
  BY PenaltyType DEF Called
<1>. QED  BY <1>1 DEF Penalise, Missing, TypeOK

LEMMA TypedStep == Typed /\ [Next]_vars => Typed'
<1>. SUFFICES ASSUME Typed, [Next]_vars PROVE Typed'
  OBVIOUS
<1>1. ASSUME NEW r \in Request, NEW e \in Employee, NEW d \in Day,
             NEW how \in Source, NEW by \in Decider \cup {NoOne},
             Arrive(r, e, d, how, by)
      PROVE  Typed'
  <2> DEFINE j == [op |-> "arrive", how |-> how, emp |-> e, day |-> d,
                   by |-> by, seen |-> Visible(e, d)]
  <2>1. j \in Job /\ JobTyped(j)
    BY VisibleType DEF Typed, Job, Op, JobTyped
  <2>2. Begin(r, j) /\ UNCHANGED <<today, racing, policy, period, rec, actions>>
    BY <1>1 DEF Arrive
  <2>. HIDE DEF j
  <2>. QED  BY <2>1, <2>2, BeginType DEF Typed, TypeOK
<1>2. ASSUME NEW r \in Request, NEW e \in Employee, NEW d \in Day,
             NEW how \in Source, NEW by \in Decider \cup {NoOne},
             Leave(r, e, d, how, by)
      PROVE  Typed'
  <2> DEFINE j == [op |-> "leave", how |-> how, emp |-> e, day |-> d,
                   by |-> by, seen |-> Visible(e, d)]
  <2>1. j \in Job /\ JobTyped(j)
    BY <1>2, VisibleType DEF Typed, Job, Op, JobTyped, Leave
  <2>2. Begin(r, j) /\ UNCHANGED <<today, racing, policy, period, rec, actions>>
    BY <1>2 DEF Leave
  <2>. HIDE DEF j
  <2>. QED  BY <2>1, <2>2, BeginType DEF Typed, TypeOK
<1>3. ASSUME NEW r \in Request, NEW e \in Employee, NEW d \in Day,
             NEW op \in {"decide_in", "decide_out"}, NEW verdict \in Verdict,
             NEW by \in Decider, Decide(r, e, d, op, verdict, by)
      PROVE  Typed'
  <2> DEFINE j == [op |-> op, how |-> verdict, emp |-> e, day |-> d,
                   by |-> by, seen |-> Visible(e, d)]
  <2>1. j \in Job /\ JobTyped(j)
    BY <1>3, VisibleType DEF Typed, Job, Op, JobTyped, Decide
  <2>2. Begin(r, j) /\ UNCHANGED <<today, racing, policy, period, rec, actions>>
    BY <1>3 DEF Decide
  <2>. HIDE DEF j
  <2>. QED  BY <2>1, <2>2, BeginType DEF Typed, TypeOK
<1>4. ASSUME NEW r \in Request, NEW late \in BOOLEAN, NEW over \in BOOLEAN,
             ArriveWrite(r, late, over)
      PROVE  Typed'
  <2> DEFINE j == job[r]
             new == Arrival(j, late, over)
  <2>1. j \in Job /\ JobTyped(j) /\ new \in Row
    BY <1>4, ArrivalType DEF ArriveWrite, At, Idle, Typed, TypeOK, JobsTyped
  <2>2. Store(j, new, ArrivalFields(j.how)) /\ Done(r)
    BY <1>4 DEF ArriveWrite
  <2>3. actions' \subseteq Action
    <3>1. CASE Timed(j.how)
      BY <1>4, <2>1, <3>1, PenaliseType DEF ArriveWrite, Typed, Job
    <3>2. CASE ~Timed(j.how)
      BY <1>4, <3>2 DEF ArriveWrite, Typed, TypeOK
    <3>. QED  BY <3>1, <3>2
  <2>4. UNCHANGED <<today, racing, policy, period>>
    BY <1>4 DEF ArriveWrite
  <2>. HIDE DEF j, new
  <2>. QED  BY <2>1, <2>2, <2>3, <2>4, StoreType, DoneType DEF Typed, TypeOK
<1>5. ASSUME NEW r \in Request, NEW early \in BOOLEAN, LeaveWrite(r, early)
      PROVE  Typed'
  <2> DEFINE j == job[r]
             new == Departure(j, early)
  <2>1. j \in Job /\ JobTyped(j) /\ j.seen \in Row
    BY <1>5 DEF LeaveWrite, At, Idle, Typed, TypeOK, JobsTyped, JobTyped, Job
  <2>2. new \in Row
    BY <2>1, DepartureType
  <2>3. /\ Store(j, new, DepartureFields(j.how)) /\ Done(r)
        /\ UNCHANGED <<today, racing, policy, period, actions>>
    BY <1>5 DEF LeaveWrite
  <2>. HIDE DEF j, new
  <2>. QED  BY <2>1, <2>2, <2>3, StoreType, DoneType DEF Typed, TypeOK
<1>6. ASSUME NEW r \in Request, DecideWrite(r)
      PROVE  Typed'
  <2> DEFINE j == job[r]
             new == Decision(j)
  <2>1. j \in Job /\ JobTyped(j) /\ j.seen \in Row /\ j.how \in Verdict
    BY <1>6 DEF DecideWrite, At, Idle, Typed, TypeOK, JobsTyped, JobTyped, Job
  <2>2. new \in Row
    BY <2>1, DecisionType
  <2>3. /\ Store(j, new, Fields) /\ Done(r)
        /\ UNCHANGED <<today, racing, policy, period, actions>>
    BY <1>6 DEF DecideWrite
  <2>. HIDE DEF j, new
  <2>. QED  BY <2>1, <2>2, <2>3, StoreType, DoneType DEF Typed, TypeOK
<1>7. ASSUME NEW r \in Request, RollBack(r) PROVE Typed'
  <2>1. Done(r) /\ RowsRemain
    BY <1>7 DEF RollBack, RowsRemain
  <2>. QED  BY <1>7, <2>1, DoneType DEF RollBack, Typed, TypeOK
<1>8. ASSUME NEW e \in Employee, NEW d \in Day,
             DeleteRecord(e, d) \/ MarkAbsent(e, d)
      PROVE  Typed'
  <2>1. rec' \in [Employee -> [Day -> Row \cup {NoRow}]] /\ RowsRemain
    <3>1. CASE DeleteRecord(e, d)
      <4>1. rec[e][d] \in Row
        BY <3>1 DEF DeleteRecord, Visible, Typed, TypeOK
      <4>2. [rec[e][d] EXCEPT !.deleted = TRUE] \in Row
        BY <4>1 DEF Row
      <4>3. rec' = [rec EXCEPT ![e][d] = [rec[e][d] EXCEPT !.deleted = TRUE]]
        BY <3>1 DEF DeleteRecord, Typed, TypeOK
      <4>. QED
        BY <4>2, <4>3, AttendanceAssumption DEF Typed, TypeOK, RowsRemain
    <3>2. CASE MarkAbsent(e, d)
      <4>1. [Blank EXCEPT !.status = "absent"] \in Row
        BY BlankType DEF Row, Status
      <4>. QED
        BY <3>2, <4>1, AttendanceAssumption
           DEF MarkAbsent, Typed, TypeOK, RowsRemain
    <3>. QED  BY <1>8, <3>1, <3>2
  <2>2. UNCHANGED <<today, racing, policy, period, actions, job>>
    BY <1>8 DEF DeleteRecord, MarkAbsent
  <2>3. JobsTyped'
    BY <2>1, <2>2 DEF Typed, TypeOK, JobsTyped, JobTyped, Idle, RowsRemain, Job
  <2>. QED  BY <2>1, <2>2, <2>3 DEF Typed, TypeOK
<1>9. ASSUME NEW a \in actions, Forgive(a) PROVE Typed'
  <2>1. [a EXCEPT !.live = FALSE] \in Action
    BY DEF Typed, TypeOK, Action
  <2>. QED
    BY <1>9, <2>1 DEF Forgive, Typed, TypeOK, JobsTyped, JobTyped, Idle
<1>10. CASE OpenPeriod
  BY <1>10 DEF OpenPeriod, Typed, TypeOK, JobsTyped, JobTyped, Idle
<1>11. CASE Midnight
  <2>1. today' \in Day
    BY <1>11, AttendanceAssumption DEF Midnight, Typed, TypeOK, Day
  <2>. QED
    BY <1>11, <2>1 DEF Midnight, Typed, TypeOK, JobsTyped, JobTyped, Idle
<1>12. CASE UNCHANGED vars
  BY <1>12 DEF vars, Typed, TypeOK, JobsTyped, JobTyped, Idle
<1>. QED
  BY <1>1, <1>2, <1>3, <1>4, <1>5, <1>6, <1>7, <1>8, <1>9, <1>10, <1>11, <1>12
     DEF Next

(* Every variable of the attendance book always has its type.              *)
THEOREM AttendanceTypes == Spec => []TypeOK
<1>1. Typed => TypeOK
  BY DEF Typed
<1>. QED  BY <1>1, TypedInit, TypedStep, PTL DEF Spec

-----------------------------------------------------------------------------
(* The invariant behind the properties.  A record is sound if nobody left  *)
(* without arriving and every approval has its decider, and covered if its *)
(* lateness was penalised.  So are the copies that requests hold: that is  *)
(* why writing one of them back, whole or in part, does no harm here.      *)

Sound(row) == row # NoRow =>
  /\ row.out # "none" => row.in # "none"
  /\ row.inOk = "approved" => row.in # "none" /\ row.inBy \in Decider
  /\ row.outOk = "approved" => row.outBy \in Decider
Penalised(as, e, d) == \E a \in as :
  a.rule = "late_over_minutes" /\ a.emp = e /\ a.day = d
Covered(as, e, d, row) ==
  policy["late_over_minutes"] # "off" /\ row # NoRow /\ row.over =>
    Penalised(as, e, d)
RowsKept == \A e \in Employee, d \in Day :
  Sound(rec[e][d]) /\ Covered(actions, e, d, rec[e][d])
JobKept(j) ==
  /\ Sound(j.seen) /\ Covered(actions, j.emp, j.day, j.seen)
  /\ j.how = "manual" \/ j.op \in {"decide_in", "decide_out"} => j.by \in Decider
  /\ j.op # "arrive" => j.seen.in # "none" /\ rec[j.emp][j.day].in # "none"
JobsKept == \A r \in Request : ~Idle(r) => JobKept(job[r])
IInv == Typed /\ RowsKept /\ JobsKept

ArrivalRemains == \A e \in Employee, d \in Day :
  rec[e][d] # NoRow /\ rec[e][d].in # "none" =>
    rec'[e][d] # NoRow /\ rec'[e][d].in # "none"
PenaltiesRemain == \A e \in Employee, d \in Day :
  Penalised(actions, e, d) => Penalised(actions', e, d)

LEMMA IInvInit == Init => IInv
BY TypedInit DEF Init, IInv, RowsKept, JobsKept, Sound, Covered, Idle

(* The fields of an approval are saved together.                           *)
Grouped(fields) ==
  /\ "inOk" \in fields <=> "inBy" \in fields
  /\ "outOk" \in fields <=> "outBy" \in fields

LEMMA SaveKept ==
  ASSUME NEW row \in Row, NEW new \in Row, NEW fields, Grouped(fields),
         Sound(row), Sound(new), new.in # "none",
         row.in # "none" \/ "in" \in fields
  PROVE  /\ Sound(Save(row, new, fields))
         /\ Save(row, new, fields).in # "none"
         /\ Save(row, new, fields).over => row.over \/ new.over
<1> DEFINE s == Save(row, new, fields)
<1>1. /\ s.in = IF "in" \in fields THEN new.in ELSE row.in
      /\ s.out = IF "out" \in fields THEN new.out ELSE row.out
      /\ s.over = IF "over" \in fields THEN new.over ELSE row.over
  BY DEF Save, Fields
<1>2. /\ s.inOk = IF "inOk" \in fields THEN new.inOk ELSE row.inOk
      /\ s.inBy = IF "inBy" \in fields THEN new.inBy ELSE row.inBy
      /\ s.outOk = IF "outOk" \in fields THEN new.outOk ELSE row.outOk
      /\ s.outBy = IF "outBy" \in fields THEN new.outBy ELSE row.outBy
  BY DEF Save, Fields
<1>3. row # NoRow /\ new # NoRow
  BY AttendanceAssumption
<1>4. s.in # "none"
  BY <1>1
<1>5. Sound(s)
  BY <1>1, <1>2, <1>3, <1>4 DEF Sound, Grouped
<1>. QED  BY <1>1, <1>4, <1>5

(* Storing a sound and covered record that has an arrival                  *)
LEMMA StoreKept ==
  ASSUME IInv, NEW j \in Job, JobTyped(j), NEW new \in Row, NEW fields,
         Store(j, new, fields), Grouped(fields), UNCHANGED policy,
         Sound(new), new.in # "none", Covered(actions', j.emp, j.day, new),
         PenaltiesRemain,
         j.seen # NoRow => rec[j.emp][j.day].in # "none" \/ "in" \in fields
  PROVE  RowsKept' /\ ArrivalRemains
<1>1. j.emp \in Employee /\ j.day \in Day /\ new # NoRow
  BY AttendanceAssumption DEF Job
<1>2. rec' \in [Employee -> [Day -> Row \cup {NoRow}]]
  BY StoreType DEF IInv
<1>3. \A e \in Employee, d \in Day :
        Sound(rec[e][d]) /\ Covered(actions', e, d, rec[e][d])
  BY DEF IInv, RowsKept, Covered, PenaltiesRemain
<1>4. CASE j.seen = NoRow
  <2>1. rec' = [rec EXCEPT ![j.emp][j.day] = new] /\ rec[j.emp][j.day] = NoRow
    BY <1>1, <1>4 DEF Store, IInv, Typed, TypeOK
  <2>2. \A e \in Employee, d \in Day : rec'[e][d] =
          IF e = j.emp /\ d = j.day THEN new ELSE rec[e][d]
    BY <1>1, <2>1 DEF IInv, Typed, TypeOK
  <2>3. RowsKept'
    BY <1>3, <2>2 DEF RowsKept, Covered
  <2>4. ArrivalRemains
    BY <1>1, <2>1, <2>2 DEF ArrivalRemains
  <2>. QED  BY <2>3, <2>4
<1>5. CASE j.seen # NoRow
  <2> DEFINE row == rec[j.emp][j.day]
             s == Save(row, new, fields)
  <2>1. row \in Row /\ Sound(row) /\ Covered(actions', j.emp, j.day, row)
    BY <1>1, <1>3, <1>5 DEF IInv, Typed, TypeOK, JobTyped
  <2>2. /\ s \in Row /\ s # NoRow /\ Sound(s) /\ s.in # "none"
        /\ s.over => row.over \/ new.over
    BY <1>5, <2>1, SaveType, SaveKept, AttendanceAssumption
  <2>3. \A e \in Employee, d \in Day : rec'[e][d] =
          IF e = j.emp /\ d = j.day THEN s ELSE rec[e][d]
    BY <1>1, <1>5 DEF Store, IInv, Typed, TypeOK
  <2>4. row # NoRow
    BY <2>1, AttendanceAssumption
  <2>5. Covered(actions', j.emp, j.day, s)
    BY <1>1, <2>1, <2>2, <2>4 DEF Covered
  <2>6. RowsKept'
    BY <1>3, <2>2, <2>3, <2>5 DEF RowsKept, Covered
  <2>7. ArrivalRemains
    BY <2>2, <2>3 DEF ArrivalRemains
  <2>. QED  BY <2>6, <2>7
<1>. QED  BY <1>4, <1>5

LEMMA BeginKept ==
  ASSUME IInv, NEW r \in Request, NEW j \in Job, JobTyped(j), JobKept(j),
         Begin(r, j), UNCHANGED <<rec, policy, actions>>
  PROVE  RowsKept' /\ JobsKept' /\ ArrivalRemains
<1>1. \A q \in Request : job'[q] = IF q = r THEN j ELSE job[q]
  BY DEF Begin, IInv, Typed, TypeOK
<1>2. JobsKept'
  BY <1>1 DEF IInv, JobsKept, JobKept, Idle, Covered
<1>. QED  BY <1>2 DEF IInv, RowsKept, Covered, ArrivalRemains

LEMMA DoneKept ==
  ASSUME IInv, NEW r \in Request, Done(r), ArrivalRemains, PenaltiesRemain,
         UNCHANGED policy
  PROVE  JobsKept'
<1>1. SUFFICES ASSUME NEW q \in Request, ~Idle(q)' PROVE JobKept(job[q])'
  BY DEF JobsKept
<1>2. job'[q] = job[q] /\ ~Idle(q) /\ job[q] \in Job
  BY <1>1 DEF Done, Idle, IInv, Typed, TypeOK
<1>3. JobKept(job[q]) /\ JobTyped(job[q])
  BY <1>2 DEF IInv, JobsKept, Typed, JobsTyped
<1>4. job[q].emp \in Employee /\ job[q].day \in Day
  BY <1>2 DEF Job
<1>5. Covered(actions', job[q].emp, job[q].day, job[q].seen)
  BY <1>3, <1>4 DEF JobKept, Covered, PenaltiesRemain
<1>6. job[q].op # "arrive" => rec'[job[q].emp][job[q].day].in # "none"
  BY <1>3, <1>4 DEF JobKept, JobTyped, ArrivalRemains
<1>. QED  BY <1>2, <1>3, <1>5, <1>6 DEF JobKept, Covered

(* The requests that only read                                             *)
LEMMA VisibleKept ==
  ASSUME IInv, NEW e \in Employee, NEW d \in Day
  PROVE  Sound(Visible(e, d)) /\ Covered(actions, e, d, Visible(e, d))
BY VisibleType DEF IInv, Typed, RowsKept, Sound, Covered

LEMMA ReadKept ==
  ASSUME IInv, NEW r \in Request, NEW j \in Job,
         j.seen = Visible(j.emp, j.day), Begin(r, j),
         UNCHANGED <<rec, policy, actions>>,
         j.how = "manual" \/ j.op \in {"decide_in", "decide_out"} => j.by \in Decider,
         j.op # "arrive" => j.seen # NoRow /\ j.seen.in # "none",
         j.op \in {"decide_in", "decide_out"} => j.how \in Verdict
  PROVE  RowsKept' /\ JobsKept' /\ ArrivalRemains
<1>1. j.emp \in Employee /\ j.day \in Day
  BY DEF Job
<1>2. JobTyped(j)
  BY <1>1, VisibleType DEF JobTyped, IInv, Typed
<1>3. JobKept(j)
  BY <1>1, VisibleKept, VisibleType DEF JobKept, IInv, Typed
<1>. QED  BY <1>2, <1>3, BeginKept

(* The penalties of a record that calls for one                            *)
LEMMA PenaliseKept ==
  ASSUME IInv, NEW j \in Job, NEW book, NEW new \in Row,
         new.over => new.status = "late",
         Penalise(Missing(Called(book, j.emp, j.day, new)))
  PROVE  PenaltiesRemain /\ Covered(actions', j.emp, j.day, new)
<1>1. PenaltiesRemain
  BY DEF Penalise, PenaltiesRemain, Penalised
<1>2. ASSUME policy["late_over_minutes"] # "off", new.over
      PROVE  Penalised(actions', j.emp, j.day)
  <2> DEFINE p == LatePenalty(j.emp, j.day)
  <2>1. p.rule = "late_over_minutes" /\ p.emp = j.emp /\ p.day = j.day
    BY DEF LatePenalty, Penalty
  <2>2. p \in Called(book, j.emp, j.day, new)
    BY <1>2, <2>1 DEF Called
  <2>3. CASE p \in Missing(Called(book, j.emp, j.day, new))
    BY <2>1, <2>3 DEF Penalise, Penalised
  <2>4. CASE p \notin Missing(Called(book, j.emp, j.day, new))
    <3>1. PICK a \in actions : SameCause(p, a)
      BY <2>2, <2>4 DEF Missing
    <3>2. a.rule = "late_over_minutes" /\ a.emp = j.emp /\ a.day = j.day
      BY <2>1, <3>1 DEF SameCause
    <3>. QED  BY <3>2 DEF Penalise, Penalised
  <2>. QED  BY <2>3, <2>4
<1>. QED  BY <1>1, <1>2 DEF Covered

(* What the writing requests write                                         *)
LEMMA ArrivalKept ==
  ASSUME NEW j \in Job, JobKept(j), NEW late \in BOOLEAN, NEW over \in BOOLEAN
  PROVE  LET new == Arrival(j, late, over)
         IN  /\ Sound(new) /\ new.in # "none"
             /\ Timed(j.how) /\ new.over => new.status = "late"
             /\ ~Timed(j.how) => new.over = Found(j).over
<1>1. Found(j) \in Row /\ Sound(Found(j))
  <2>1. CASE j.seen = NoRow
    BY <2>1, BlankType DEF Found, Blank, Sound
  <2>2. CASE j.seen # NoRow
    BY <2>2 DEF Found, Job, JobKept
  <2>. QED  BY <2>1, <2>2
<1>2. Found(j) # NoRow /\ TimeOf(j.how) # "none"
  BY <1>1, AttendanceAssumption DEF TimeOf
<1>3. Approved(j) = "approved" => j.by \in Decider
  BY DEF Approved, JobKept
<1> DEFINE new == Arrival(j, late, over)
<1>4. /\ new.in = TimeOf(j.how)
      /\ new.status = ArrivalStatus(j, late)
      /\ new.over = IF Timed(j.how) THEN late /\ over ELSE Found(j).over
      /\ new.out = Found(j).out
      /\ new.outOk = Found(j).outOk /\ new.outBy = Found(j).outBy
  BY <1>1 DEF Arrival, Row
<1>5. \/ new.inOk = Found(j).inOk /\ new.inBy = Found(j).inBy
      \/ new.inOk = Approved(j) /\ new.inBy = j.by
  BY <1>1 DEF Arrival, Row
<1>6. Sound(new)
  BY <1>1, <1>2, <1>3, <1>4, <1>5 DEF Sound
<1>7. Timed(j.how) /\ late => ArrivalStatus(j, late) = "late"
  BY DEF ArrivalStatus, Timed
<1>. QED  BY <1>2, <1>4, <1>6, <1>7

LEMMA DepartureKept ==
  ASSUME NEW j \in Job, JobKept(j), j.seen \in Row, j.op = "leave",
         NEW early \in BOOLEAN
  PROVE  LET new == Departure(j, early)
         IN  Sound(new) /\ new.in # "none" /\ new.over = j.seen.over
<1> DEFINE new == Departure(j, early)
<1>1. new.in = j.seen.in /\ new.inOk = j.seen.inOk /\ new.inBy = j.seen.inBy
  BY DEF Departure, Row
<1>2. \/ new.outOk = j.seen.outOk /\ new.outBy = j.seen.outBy
      \/ new.outOk = Approved(j) /\ new.outBy = j.by
  BY DEF Departure, Row
<1>3. new.over = j.seen.over
  BY DEF Departure, Row
<1>4. j.seen # NoRow /\ (Approved(j) = "approved" => j.by \in Decider)
  BY AttendanceAssumption DEF Approved, JobKept
<1>. QED  BY <1>1, <1>2, <1>3, <1>4 DEF Sound, JobKept

LEMMA DecisionKept ==
  ASSUME NEW j \in Job, JobKept(j), j.seen \in Row,
         j.op \in {"decide_in", "decide_out"}
  PROVE  LET new == Decision(j)
         IN  Sound(new) /\ new.in # "none" /\ new.over = j.seen.over
<1> DEFINE new == Decision(j)
<1>1. new.in = j.seen.in /\ new.out = j.seen.out /\ new.over = j.seen.over
  BY DEF Decision, Row
<1>2. \/ new.inOk = j.seen.inOk /\ new.inBy = j.seen.inBy
      \/ new.inBy = j.by
  BY DEF Decision, Row
<1>3. \/ new.outOk = j.seen.outOk /\ new.outBy = j.seen.outBy
      \/ new.outBy = j.by
  BY DEF Decision, Row
<1>4. j.seen # NoRow /\ j.by \in Decider
  BY AttendanceAssumption DEF JobKept
<1>. QED  BY <1>1, <1>2, <1>3, <1>4 DEF Sound, JobKept

-----------------------------------------------------------------------------
LEMMA IInvStep == IInv /\ [Next]_vars =>
                    /\ RowsKept' /\ JobsKept'
                    /\ [ArrivalRemains]_vars
<1>. SUFFICES ASSUME IInv, [Next]_vars
              PROVE  RowsKept' /\ JobsKept' /\ [ArrivalRemains]_vars
  OBVIOUS
<1>1. ASSUME NEW r \in Request, NEW e \in Employee, NEW d \in Day,
             NEW how \in Source, NEW by \in Decider \cup {NoOne},
             Arrive(r, e, d, how, by)
      PROVE  RowsKept' /\ JobsKept' /\ ArrivalRemains
  <2> DEFINE j == [op |-> "arrive", how |-> how, emp |-> e, day |-> d,
                   by |-> by, seen |-> Visible(e, d)]
  <2>1. j \in Job
    BY VisibleType DEF IInv, Typed, Job, Op
  <2>2. /\ j.seen = Visible(j.emp, j.day) /\ j.op = "arrive"
        /\ j.how = "manual" => j.by \in Decider
        /\ Begin(r, j) /\ UNCHANGED <<rec, policy, actions>>
    BY <1>1 DEF Arrive, MayRecord
  <2>. HIDE DEF j
  <2>. QED  BY <2>1, <2>2, ReadKept
<1>2. ASSUME NEW r \in Request, NEW e \in Employee, NEW d \in Day,
             NEW how \in Source, NEW by \in Decider \cup {NoOne},
             Leave(r, e, d, how, by)
      PROVE  RowsKept' /\ JobsKept' /\ ArrivalRemains
  <2> DEFINE j == [op |-> "leave", how |-> how, emp |-> e, day |-> d,
                   by |-> by, seen |-> Visible(e, d)]
  <2>1. j \in Job
    BY VisibleType DEF IInv, Typed, Job, Op
  <2>2. /\ j.seen = Visible(j.emp, j.day) /\ j.op = "leave"
        /\ j.how = "manual" => j.by \in Decider
        /\ j.seen # NoRow /\ j.seen.in # "none"
        /\ Begin(r, j) /\ UNCHANGED <<rec, policy, actions>>
    BY <1>2 DEF Leave, MayRecord
  <2>. HIDE DEF j
  <2>. QED  BY <2>1, <2>2, ReadKept
<1>3. ASSUME NEW r \in Request, NEW e \in Employee, NEW d \in Day,
             NEW op \in {"decide_in", "decide_out"}, NEW verdict \in Verdict,
             NEW by \in Decider, Decide(r, e, d, op, verdict, by)
      PROVE  RowsKept' /\ JobsKept' /\ ArrivalRemains
  <2> DEFINE j == [op |-> op, how |-> verdict, emp |-> e, day |-> d,
                   by |-> by, seen |-> Visible(e, d)]
  <2>1. j \in Job
    BY VisibleType DEF IInv, Typed, Job, Op
  <2>2. /\ j.seen = Visible(j.emp, j.day) /\ j.by \in Decider
        /\ j.how \in Verdict /\ j.seen # NoRow
        /\ Begin(r, j) /\ UNCHANGED <<rec, policy, actions>>
    BY <1>3 DEF Decide
  <2>3. j.seen.in # "none"
    BY <1>3, VisibleKept DEF Decide, Decidable, Sound
  <2>. HIDE DEF j
  <2>. QED  BY <2>1, <2>2, <2>3, ReadKept
<1>4. ASSUME NEW r \in Request, NEW late \in BOOLEAN, NEW over \in BOOLEAN,
             ArriveWrite(r, late, over)
      PROVE  RowsKept' /\ JobsKept' /\ ArrivalRemains
  <2> DEFINE j == job[r]
             new == Arrival(j, late, over)
             fields == ArrivalFields(j.how)
  <2>1. j \in Job /\ JobTyped(j) /\ JobKept(j) /\ new \in Row
    BY <1>4, ArrivalType
       DEF ArriveWrite, At, Idle, IInv, Typed, TypeOK, JobsTyped, JobsKept
  <2>2. /\ Sound(new) /\ new.in # "none"
        /\ Timed(j.how) /\ new.over => new.status = "late"
        /\ ~Timed(j.how) => new.over = Found(j).over
    BY <2>1, ArrivalKept
  <2>3. Store(j, new, fields) /\ Done(r) /\ UNCHANGED policy
    BY <1>4 DEF ArriveWrite
  <2>4. PenaltiesRemain /\ Covered(actions', j.emp, j.day, new)
    <3>1. CASE Timed(j.how)
      BY <1>4, <2>1, <2>2, <3>1, PenaliseKept DEF ArriveWrite
    <3>2. CASE ~Timed(j.how)
      <4>1. PenaltiesRemain
        BY <1>4, <3>2 DEF ArriveWrite, PenaltiesRemain
      <4>2. Covered(actions, j.emp, j.day, Found(j)) /\ Found(j) # NoRow
        <5>1. CASE j.seen = NoRow
          BY <5>1, BlankType, AttendanceAssumption DEF Found, Blank, Covered
        <5>2. CASE j.seen # NoRow
          BY <2>1, <5>2 DEF Found, JobKept
        <5>. QED  BY <5>1, <5>2
      <4>3. Covered(actions, j.emp, j.day, new)
        BY <2>2, <3>2, <4>2 DEF Covered
      <4>. QED  BY <1>4, <3>2, <4>1, <4>3 DEF ArriveWrite, Covered
    <3>. QED  BY <3>1, <3>2
  <2>5. Grouped(fields) /\ "in" \in fields
    BY DEF ArrivalFields, Grouped, Fields
  <2>. HIDE DEF j, new, fields
  <2>6. RowsKept' /\ ArrivalRemains
    BY <2>1, <2>2, <2>3, <2>4, <2>5, StoreKept
  <2>. QED  BY <2>3, <2>4, <2>6, DoneKept
<1>5. ASSUME NEW r \in Request, NEW early \in BOOLEAN, LeaveWrite(r, early)
      PROVE  RowsKept' /\ JobsKept' /\ ArrivalRemains
  <2> DEFINE j == job[r]
             new == Departure(j, early)
             fields == DepartureFields(j.how)
  <2>1. /\ j \in Job /\ JobTyped(j) /\ JobKept(j)
        /\ j.seen \in Row /\ j.op = "leave"
    BY <1>5 DEF LeaveWrite, At, Idle, IInv, Typed, TypeOK, JobsTyped, JobTyped,
                JobsKept, Job
  <2>2. Sound(new) /\ new.in # "none" /\ new.over = j.seen.over /\ new \in Row
    BY <2>1, DepartureKept, DepartureType
  <2>3. Store(j, new, fields) /\ Done(r) /\ UNCHANGED <<policy, actions>>
    BY <1>5 DEF LeaveWrite
  <2>4. Covered(actions, j.emp, j.day, new) /\ j.seen # NoRow
    BY <2>1, <2>2, AttendanceAssumption DEF JobKept, Covered
  <2>5. Grouped(fields)
    BY DEF DepartureFields, Grouped, Fields
  <2>6. PenaltiesRemain /\ Covered(actions', j.emp, j.day, new)
    BY <2>3, <2>4 DEF PenaltiesRemain
  <2>7. rec[j.emp][j.day].in # "none"
    BY <2>1 DEF JobKept
  <2>. HIDE DEF j, new, fields
  <2>8. RowsKept' /\ ArrivalRemains
    BY <2>1, <2>2, <2>3, <2>5, <2>6, <2>7, StoreKept
  <2>. QED  BY <2>3, <2>6, <2>8, DoneKept
<1>6. ASSUME NEW r \in Request, DecideWrite(r)
      PROVE  RowsKept' /\ JobsKept' /\ ArrivalRemains
  <2> DEFINE j == job[r]
             new == Decision(j)
  <2>1. /\ j \in Job /\ JobTyped(j) /\ JobKept(j)
        /\ j.seen \in Row /\ j.op \in {"decide_in", "decide_out"}
        /\ j.how \in Verdict
    BY <1>6 DEF DecideWrite, At, Idle, IInv, Typed, TypeOK, JobsTyped, JobTyped,
                JobsKept, Job
  <2>2. Sound(new) /\ new.in # "none" /\ new.over = j.seen.over /\ new \in Row
    BY <2>1, DecisionKept, DecisionType
  <2>3. Store(j, new, Fields) /\ Done(r) /\ UNCHANGED <<policy, actions>>
    BY <1>6 DEF DecideWrite
  <2>4. Covered(actions, j.emp, j.day, new) /\ j.seen # NoRow
    BY <2>1, <2>2, AttendanceAssumption DEF JobKept, Covered
  <2>5. Grouped(Fields)
    BY DEF Grouped, Fields
  <2>6. PenaltiesRemain /\ Covered(actions', j.emp, j.day, new)
    BY <2>3, <2>4 DEF PenaltiesRemain
  <2>7. rec[j.emp][j.day].in # "none"
    BY <2>1 DEF JobKept
  <2>. HIDE DEF j, new
  <2>8. RowsKept' /\ ArrivalRemains
    BY <2>1, <2>2, <2>3, <2>5, <2>6, <2>7, StoreKept
  <2>. QED  BY <2>3, <2>6, <2>8, DoneKept
<1>7. ASSUME NEW r \in Request, RollBack(r)
      PROVE  RowsKept' /\ JobsKept' /\ ArrivalRemains
  <2>1. /\ UNCHANGED <<rec, policy, actions>> /\ Done(r)
        /\ ArrivalRemains /\ PenaltiesRemain
    BY <1>7 DEF RollBack, ArrivalRemains, PenaltiesRemain
  <2>2. RowsKept'
    BY <2>1 DEF IInv, RowsKept, Covered
  <2>. QED  BY <2>1, <2>2, DoneKept
<1>8. ASSUME NEW e \in Employee, NEW d \in Day,
             DeleteRecord(e, d) \/ MarkAbsent(e, d)
      PROVE  RowsKept' /\ JobsKept' /\ ArrivalRemains
  <2>1. UNCHANGED <<policy, actions, job>>
    BY <1>8 DEF DeleteRecord, MarkAbsent
  <2>2. \A x \in Employee, y \in Day :
          \/ rec'[x][y] = rec[x][y]
          \/ /\ rec[x][y] \in Row
             /\ rec'[x][y] = [rec[x][y] EXCEPT !.deleted = TRUE]
          \/ /\ rec[x][y] = NoRow
             /\ rec'[x][y] = [Blank EXCEPT !.status = "absent"]
    <3>1. CASE DeleteRecord(e, d)
      <4>1. rec[e][d] \in Row
        BY <3>1 DEF DeleteRecord, Visible, IInv, Typed, TypeOK
      <4>2. rec' = [rec EXCEPT ![e][d] = [rec[e][d] EXCEPT !.deleted = TRUE]]
        BY <3>1 DEF DeleteRecord, IInv, Typed, TypeOK
      <4>. QED  BY <4>1, <4>2 DEF IInv, Typed, TypeOK
    <3>2. CASE MarkAbsent(e, d)
      <4> DEFINE new == [Blank EXCEPT !.status = "absent"]
      <4>1. rec[e][d] = NoRow /\ rec' = [rec EXCEPT ![e][d] = new]
        BY <3>2 DEF MarkAbsent
      <4>. HIDE DEF new
      <4>2. \A x \in Employee, y \in Day :
              rec'[x][y] = IF x = e /\ y = d THEN new ELSE rec[x][y]
        BY <4>1 DEF IInv, Typed, TypeOK
      <4>. QED  BY <4>1, <4>2 DEF new
    <3>. QED  BY <1>8, <3>1, <3>2
  <2>3. ASSUME NEW row \in Row
        PROVE  LET new == [row EXCEPT !.deleted = TRUE]
               IN  /\ new \in Row /\ new # NoRow
                   /\ new.in = row.in /\ new.out = row.out
                   /\ new.inOk = row.inOk /\ new.inBy = row.inBy
                   /\ new.outOk = row.outOk /\ new.outBy = row.outBy
                   /\ new.over = row.over
    <3>1. [row EXCEPT !.deleted = TRUE] \in Row
      BY DEF Row
    <3>. QED  BY <3>1, AttendanceAssumption DEF Row
  <2>4. LET new == [Blank EXCEPT !.status = "absent"]
        IN  new.in = "none" /\ new.out = "none" /\ new.inOk = "null"
            /\ new.outOk = "null" /\ new.over = FALSE
    BY DEF Blank
  <2>5. RowsKept'
    <3>1. SUFFICES ASSUME NEW x \in Employee, NEW y \in Day
                   PROVE  Sound(rec'[x][y]) /\ Covered(actions, x, y, rec'[x][y])
      BY <2>1 DEF RowsKept, Covered
    <3>2. Sound(rec[x][y]) /\ Covered(actions, x, y, rec[x][y])
      BY DEF IInv, RowsKept
    <3>3. CASE rec[x][y] \in Row
      <4>1. rec[x][y] # NoRow
        BY <3>3, AttendanceAssumption
      <4>. QED  BY <2>2, <2>3, <3>2, <3>3, <4>1 DEF Sound, Covered
    <3>4. CASE rec[x][y] = NoRow
      BY <2>2, <2>4, <3>4, AttendanceAssumption DEF Sound, Covered
    <3>. QED  BY <3>3, <3>4 DEF IInv, Typed, TypeOK
  <2>6. ArrivalRemains
    <3>1. SUFFICES ASSUME NEW x \in Employee, NEW y \in Day,
                          rec[x][y] # NoRow, rec[x][y].in # "none"
                   PROVE  rec'[x][y] # NoRow /\ rec'[x][y].in # "none"
      BY DEF ArrivalRemains
    <3>2. CASE rec'[x][y] = rec[x][y]
      BY <3>1, <3>2
    <3>3. CASE rec[x][y] \in Row
               /\ rec'[x][y] = [rec[x][y] EXCEPT !.deleted = TRUE]
      BY <2>3, <3>1, <3>3
    <3>. QED  BY <2>2, <3>1, <3>2, <3>3
  <2>7. JobsKept'
    <3>1. SUFFICES ASSUME NEW q \in Request, ~Idle(q) PROVE JobKept(job[q])'
      BY <2>1 DEF JobsKept, Idle
    <3>2. JobKept(job[q]) /\ JobTyped(job[q]) /\ job[q] \in Job
      BY <3>1 DEF IInv, JobsKept, Typed, TypeOK, JobsTyped, Idle
    <3>3. job[q].op # "arrive" => rec'[job[q].emp][job[q].day].in # "none"
      BY <2>6, <3>2 DEF ArrivalRemains, JobKept, JobTyped, Job
    <3>. QED  BY <2>1, <3>2, <3>3 DEF JobKept, Covered
  <2>. QED  BY <2>5, <2>6, <2>7
<1>9. ASSUME NEW a \in actions, Forgive(a)
      PROVE  RowsKept' /\ JobsKept' /\ ArrivalRemains
  <2>1. PenaltiesRemain
    <3> DEFINE b == [a EXCEPT !.live = FALSE]
    <3>1. b.rule = a.rule /\ b.emp = a.emp /\ b.day = a.day
      BY DEF IInv, Typed, TypeOK, Action
    <3>2. actions' = (actions \ {a}) \cup {b}
      BY <1>9 DEF Forgive
    <3>. HIDE DEF b
    <3>. QED  BY <3>1, <3>2 DEF PenaltiesRemain, Penalised
  <2>2. UNCHANGED <<rec, policy, job>>
    BY <1>9 DEF Forgive
  <2>3. RowsKept'
    BY <2>1, <2>2 DEF IInv, RowsKept, Covered, PenaltiesRemain
  <2>4. JobsKept'
    <3>1. SUFFICES ASSUME NEW q \in Request, ~Idle(q) PROVE JobKept(job[q])'
      BY <2>2 DEF JobsKept, Idle
    <3>2. JobKept(job[q]) /\ job[q].emp \in Employee /\ job[q].day \in Day
      BY <3>1 DEF IInv, JobsKept, Typed, TypeOK, Idle, Job
    <3>. QED  BY <2>1, <2>2, <3>2 DEF JobKept, Covered, PenaltiesRemain
  <2>. QED  BY <2>2, <2>3, <2>4 DEF ArrivalRemains
<1>10. ASSUME OpenPeriod \/ Midnight
       PROVE  RowsKept' /\ JobsKept' /\ ArrivalRemains
  <2>1. UNCHANGED <<rec, policy, actions, job>>
    BY <1>10 DEF OpenPeriod, Midnight
  <2>2. RowsKept' /\ ArrivalRemains
    BY <2>1 DEF IInv, RowsKept, Covered, ArrivalRemains
  <2>3. JobsKept'
    BY <2>1 DEF IInv, JobsKept, JobKept, Covered, Idle
  <2>. QED  BY <2>2, <2>3
<1>11. CASE UNCHANGED vars
  BY <1>11 DEF vars, IInv, RowsKept, JobsKept, JobKept, Covered, Idle
<1>. QED
  BY <1>1, <1>2, <1>3, <1>4, <1>5, <1>6, <1>7, <1>8, <1>9, <1>10, <1>11
     DEF Next

LEMMA IInvAlways == Spec => [](IInv /\ TypeOK)
<1>1. IInv /\ [Next]_vars => IInv'
  BY TypedStep, IInvStep DEF IInv
<1>2. IInv => TypeOK
  BY DEF IInv, Typed
<1>. QED  BY <1>1, <1>2, IInvInit, PTL DEF Spec

(* What payroll counts was decided or entered by somebody entitled to.     *)
THEOREM AttendancePayableIsDecided == Spec => []PayableIsDecided
<1>1. IInv => PayableIsDecided
  BY DEF IInv, RowsKept, Sound, PayableIsDecided, Payable
<1>. QED  BY <1>1, IInvAlways, PTL

(* No lateness beyond the threshold stays without its penalty.             *)
THEOREM AttendanceLatePenalised == Spec => []LatePenalised
<1>1. IInv => LatePenalised
  BY DEF IInv, RowsKept, Covered, Penalised, LatePenalised
<1>. QED  BY <1>1, IInvAlways, PTL

(* No interleaving of requests takes an arrival off the record.            *)
THEOREM AttendanceArrivalIsKept == Spec => ArrivalIsKept
<1>1. IInv /\ [Next]_vars =>
        [\A e \in Employee, d \in Day :
           rec[e][d] # NoRow /\ rec[e][d].in # "none" =>
             rec'[e][d] # NoRow /\ rec'[e][d].in # "none"]_vars
  BY IInvStep DEF ArrivalRemains
<1>. QED  BY <1>1, IInvAlways, PTL DEF Spec, ArrivalIsKept

-----------------------------------------------------------------------------
(* One request at a time.  When one request ends before the next one       *)
(* starts, decisions stand.  With requests that overlap they do not, as a  *)
(* decision or an OTP writes the whole record back.                        *)

(* The invariant.  Only a recorded time is decided, a request at work is   *)
(* alone, and therefore the record that it read is the one it writes to.   *)

DecidedRow(row) == row # NoRow =>
  /\ row.inOk \in Verdict => row.in # "none"
  /\ row.outOk \in Verdict => row.out # "none"
RowsDecided == \A e \in Employee, d \in Day : DecidedRow(rec[e][d])

Alone == \A q, r \in Request : ~Idle(q) /\ ~Idle(r) => q = r

Fresh(j) ==
  /\ j.seen # NoRow => j.seen = rec[j.emp][j.day]
  /\ j.op = "arrive" => NotArrived(j.seen)
  /\ j.op = "leave" => j.seen.out = "none"
  /\ j.op \in {"decide_in", "decide_out"} => Decidable(j.op, j.seen)
JobsFresh == \A r \in Request : ~Idle(r) => Fresh(job[r])

Serial == RowsDecided /\ Alone /\ JobsFresh
SerialInv == Typed /\ (~racing => Serial)

AllStand == \A e \in Employee, d \in Day :
  rec[e][d] # NoRow => Stands(rec[e][d], rec'[e][d])

LEMMA SerialInit == Init => Serial
BY DEF Init, Serial, RowsDecided, DecidedRow, Alone, JobsFresh, Idle

-----------------------------------------------------------------------------
(* What the writes make of the record that they found                      *)
Keeps(j, new, fields) ==
  /\ j.seen = NoRow => DecidedRow(new)
  /\ j.seen # NoRow => /\ DecidedRow(Save(j.seen, new, fields))
                       /\ Stands(j.seen, Save(j.seen, new, fields))

LEMMA ArrivalKeeps ==
  ASSUME NEW j \in Job, NotArrived(j.seen), DecidedRow(j.seen),
         NEW late \in BOOLEAN, NEW over \in BOOLEAN
  PROVE  Keeps(j, Arrival(j, late, over), ArrivalFields(j.how))
<1>. DEFINE new == Arrival(j, late, over)
<1>1. Found(j) \in Row /\ DecidedRow(Found(j)) /\ Found(j).in = "none"
  BY BlankType DEF Found, Job, NotArrived, DecidedRow, Blank, Verdict
<1>2. Found(j).inOk \notin Verdict
  BY <1>1, AttendanceAssumption DEF DecidedRow
<1>3. new.in # "none" /\ new.out = Found(j).out /\ new.outOk = Found(j).outOk
  BY <1>1 DEF Arrival, TimeOf, Row
<1>4. new.inOk = Found(j).inOk \/ new.inOk = Approved(j)
  BY <1>1 DEF Arrival, Row
<1>5. "in" \in ArrivalFields(j.how)
  BY DEF ArrivalFields, Fields
<1>6. DecidedRow(new)
  BY <1>1, <1>3, AttendanceAssumption DEF DecidedRow
<1>. HIDE DEF new
<1>7. ASSUME j.seen # NoRow
      PROVE  /\ DecidedRow(Save(j.seen, new, ArrivalFields(j.how)))
             /\ Stands(j.seen, Save(j.seen, new, ArrivalFields(j.how)))
  <2>. DEFINE next == Save(j.seen, new, ArrivalFields(j.how))
  <2>1. Found(j) = j.seen
    BY <1>7 DEF Found
  <2>2. /\ next.in # "none"
        /\ next.out = j.seen.out /\ next.outOk = j.seen.outOk
    BY <1>3, <1>5, <2>1 DEF Save, Fields
  <2>. HIDE DEF next
  <2>3. DecidedRow(next) /\ Stands(j.seen, next)
    BY <1>1, <1>2, <1>7, <2>1, <2>2 DEF DecidedRow, Stands
  <2>. QED  BY <2>3 DEF next
<1>. QED  BY <1>6, <1>7 DEF Keeps, new

LEMMA DepartureKeeps ==
  ASSUME NEW j \in Job, j.seen \in Row, j.seen # NoRow, j.seen.out = "none",
         DecidedRow(j.seen), NEW early \in BOOLEAN
  PROVE  Keeps(j, Departure(j, early), DepartureFields(j.how))
<1>. DEFINE new == Departure(j, early)
            next == Save(j.seen, new, DepartureFields(j.how))
<1>1. j.seen.outOk \notin Verdict
  BY DEF DecidedRow
<1>2. new.out # "none" /\ new.in = j.seen.in /\ new.inOk = j.seen.inOk
  BY DEF Departure, TimeOf, Row
<1>3. "out" \in DepartureFields(j.how)
  BY DEF DepartureFields, Fields
<1>. HIDE DEF new
<1>4. next.out # "none" /\ next.in = j.seen.in /\ next.inOk = j.seen.inOk
  BY <1>2, <1>3 DEF Save, Fields
<1>. HIDE DEF next
<1>5. DecidedRow(next) /\ Stands(j.seen, next)
  BY <1>1, <1>4 DEF DecidedRow, Stands
<1>. QED  BY <1>5 DEF Keeps, next, new

LEMMA DecisionKeeps ==
  ASSUME NEW j \in Job, j.seen \in Row, j.seen # NoRow, j.how \in Verdict,
         j.op \in {"decide_in", "decide_out"}, Decidable(j.op, j.seen),
         DecidedRow(j.seen)
  PROVE  Keeps(j, Decision(j), Fields)
<1>. DEFINE new == Decision(j)
            next == Save(j.seen, new, Fields)
<1>1. /\ new.in = j.seen.in /\ new.out = j.seen.out
      /\ new.inOk = (IF j.op = "decide_in" THEN j.how ELSE j.seen.inOk)
      /\ new.outOk = (IF j.op = "decide_in" THEN j.seen.outOk ELSE j.how)
  BY DEF Decision, Row
<1>. HIDE DEF new
<1>2. /\ next.in = new.in /\ next.out = new.out
      /\ next.inOk = new.inOk /\ next.outOk = new.outOk
  BY DEF Save, Fields
<1>. HIDE DEF next
<1>3. DecidedRow(next) /\ Stands(j.seen, next)
  BY <1>1, <1>2 DEF DecidedRow, Stands, Decidable
<1>. QED  BY <1>3 DEF Keeps, next, new

-----------------------------------------------------------------------------
(* A record that nobody writes to stands.                                  *)
LEMMA Same == ASSUME NEW row PROVE Stands(row, row)
BY DEF Stands

LEMMA BeginSerial ==
  ASSUME ~racing, Typed, Serial, NEW r \in Request, MayStart(r),
         NEW j \in Job, Fresh(j), Begin(r, j), UNCHANGED rec
  PROVE  Serial' /\ AllStand
<1>1. \A q \in Request : Idle(q)
  BY DEF MayStart
<1>2. Alone' /\ JobsFresh'
  BY <1>1 DEF Alone, JobsFresh, Fresh, Idle, Begin, Typed, TypeOK
<1>3. RowsDecided' /\ AllStand
  BY Same DEF Serial, RowsDecided, AllStand
<1>. QED  BY <1>2, <1>3 DEF Serial

(* Whoever ends leaves nobody at work.                                     *)
LEMMA DoneSerial ==
  ASSUME Typed, Serial, NEW r \in Request, ~Idle(r), Done(r)
  PROVE  Alone' /\ JobsFresh'
<1>1. \A q \in Request : Idle(q)'
  BY DEF Serial, Alone, Idle, Done, Typed, TypeOK
<1>. QED  BY <1>1 DEF Alone, JobsFresh

LEMMA StoreSerial ==
  ASSUME Typed, Serial, NEW r \in Request, ~Idle(r), Done(r),
         NEW new \in Row, NEW fields,
         Store(job[r], new, fields), Keeps(job[r], new, fields)
  PROVE  Serial' /\ AllStand
<1>. DEFINE j == job[r]
            saved == IF j.seen = NoRow THEN new ELSE Save(j.seen, new, fields)
<1>1. j \in Job /\ j.emp \in Employee /\ j.day \in Day /\ JobTyped(j) /\ Fresh(j)
  BY DEF Typed, TypeOK, JobsTyped, Idle, Job, Serial, JobsFresh
<1>2. rec' = [rec EXCEPT ![j.emp][j.day] = saved]
  BY <1>1 DEF Store, Fresh, Typed, TypeOK
<1>3. /\ \A e \in Employee, d \in Day : ~(e = j.emp /\ d = j.day)
                                          => rec'[e][d] = rec[e][d]
      /\ rec'[j.emp][j.day] = saved
  BY <1>1, <1>2 DEF Typed, TypeOK
<1>4. DecidedRow(saved)
  BY DEF Keeps
<1>5. rec[j.emp][j.day] # NoRow => Stands(rec[j.emp][j.day], saved)
  BY <1>1 DEF Keeps, Store, Fresh
<1>. HIDE DEF saved, j
<1>6. RowsDecided'
  BY <1>3, <1>4 DEF Serial, RowsDecided, DecidedRow
<1>7. AllStand
  BY <1>3, <1>5, Same DEF AllStand
<1>. QED  BY <1>6, <1>7, DoneSerial DEF Serial

(* A step between requests that leaves the records alone                   *)
LEMMA QuietSerial ==
  ASSUME Serial, UNCHANGED <<rec, job>>
  PROVE  Serial' /\ AllStand
<1>1. Alone' /\ JobsFresh'
  BY DEF Serial, Alone, JobsFresh, Fresh, Idle
<1>2. RowsDecided' /\ AllStand
  BY Same DEF Serial, RowsDecided, AllStand
<1>. QED  BY <1>1, <1>2 DEF Serial

(* A step between requests that changes one record                         *)
LEMMA EditSerial ==
  ASSUME Typed, Serial, \A r \in Request : Idle(r), UNCHANGED job,
         NEW e \in Employee, NEW d \in Day, NEW new,
         rec' = [rec EXCEPT ![e][d] = new], DecidedRow(new),
         rec[e][d] # NoRow => Stands(rec[e][d], new)
  PROVE  Serial' /\ AllStand
<1>1. Alone' /\ JobsFresh'
  BY DEF Alone, JobsFresh, Idle
<1>2. /\ \A f \in Employee, k \in Day : ~(f = e /\ k = d) => rec'[f][k] = rec[f][k]
      /\ rec'[e][d] = new
  BY DEF Typed, TypeOK
<1>3. RowsDecided'
  BY <1>2 DEF Serial, RowsDecided, DecidedRow
<1>4. AllStand
  BY <1>2, Same DEF AllStand
<1>. QED  BY <1>1, <1>3, <1>4 DEF Serial

LEMMA SerialStep ==
  ASSUME ~racing, Typed, Serial, Next
  PROVE  Serial' /\ AllStand
<1>1. ASSUME NEW r \in Request, NEW e \in Employee, NEW d \in Day,
             NEW how \in Source, NEW by \in Decider \cup {NoOne},
             Arrive(r, e, d, how, by)
      PROVE  Serial' /\ AllStand
  <2>. DEFINE j == [op |-> "arrive", how |-> how, emp |-> e, day |-> d,
                    by |-> by, seen |-> Visible(e, d)]
  <2>1. j \in Job /\ Fresh(j)
    BY <1>1, VisibleType DEF Typed, Job, Op, Fresh, Arrive
  <2>2. MayStart(r) /\ Begin(r, j) /\ UNCHANGED rec
    BY <1>1 DEF Arrive
  <2>. HIDE DEF j
  <2>. QED  BY <2>1, <2>2, BeginSerial
<1>2. ASSUME NEW r \in Request, NEW e \in Employee, NEW d \in Day,
             NEW how \in Source, NEW by \in Decider \cup {NoOne},
             Leave(r, e, d, how, by)
      PROVE  Serial' /\ AllStand
  <2>. DEFINE j == [op |-> "leave", how |-> how, emp |-> e, day |-> d,
                    by |-> by, seen |-> Visible(e, d)]
  <2>1. j \in Job /\ Fresh(j)
    BY <1>2, VisibleType DEF Typed, Job, Op, Fresh, Leave
  <2>2. MayStart(r) /\ Begin(r, j) /\ UNCHANGED rec
    BY <1>2 DEF Leave
  <2>. HIDE DEF j
  <2>. QED  BY <2>1, <2>2, BeginSerial
<1>3. ASSUME NEW r \in Request, NEW e \in Employee, NEW d \in Day,
             NEW op \in {"decide_in", "decide_out"}, NEW verdict \in Verdict,
             NEW by \in Decider, Decide(r, e, d, op, verdict, by)
      PROVE  Serial' /\ AllStand
  <2>. DEFINE j == [op |-> op, how |-> verdict, emp |-> e, day |-> d,
                    by |-> by, seen |-> Visible(e, d)]
  <2>1. j \in Job /\ Fresh(j)
    BY <1>3, VisibleType DEF Typed, Job, Op, Fresh, Decide
  <2>2. MayStart(r) /\ Begin(r, j) /\ UNCHANGED rec
    BY <1>3 DEF Decide
  <2>. HIDE DEF j
  <2>. QED  BY <2>1, <2>2, BeginSerial
<1>4. ASSUME NEW r \in Request, ~Idle(r)
      PROVE  /\ job[r] \in Job /\ JobTyped(job[r]) /\ Fresh(job[r])
             /\ DecidedRow(job[r].seen)
             /\ job[r].op # "arrive" => job[r].seen \in Row /\ job[r].seen # NoRow
  <2>1. job[r] \in Job /\ JobTyped(job[r]) /\ Fresh(job[r])
    BY <1>4 DEF Typed, TypeOK, JobsTyped, Idle, Serial, JobsFresh
  <2>2. DecidedRow(job[r].seen)
    BY <2>1 DEF Fresh, Serial, RowsDecided, DecidedRow, Job
  <2>. QED  BY <2>1, <2>2 DEF JobTyped, Job
<1>5. ASSUME NEW r \in Request, NEW late \in BOOLEAN, NEW over \in BOOLEAN,
             ArriveWrite(r, late, over)
      PROVE  Serial' /\ AllStand
  <2>1. /\ ~Idle(r) /\ job[r].op = "arrive" /\ Done(r)
        /\ Store(job[r], Arrival(job[r], late, over), ArrivalFields(job[r].how))
    BY <1>5 DEF ArriveWrite, At
  <2>2. NotArrived(job[r].seen) /\ Arrival(job[r], late, over) \in Row
    BY <1>4, <2>1, ArrivalType DEF Fresh
  <2>. QED  BY <1>4, <2>1, <2>2, ArrivalKeeps, StoreSerial
<1>6. ASSUME NEW r \in Request, NEW early \in BOOLEAN, LeaveWrite(r, early)
      PROVE  Serial' /\ AllStand
  <2>1. /\ ~Idle(r) /\ job[r].op = "leave" /\ Done(r)
        /\ Store(job[r], Departure(job[r], early), DepartureFields(job[r].how))
    BY <1>6 DEF LeaveWrite, At
  <2>2. job[r].seen.out = "none" /\ Departure(job[r], early) \in Row
    BY <1>4, <2>1, DepartureType DEF Fresh
  <2>. QED  BY <1>4, <2>1, <2>2, DepartureKeeps, StoreSerial
<1>7. ASSUME NEW r \in Request, DecideWrite(r) PROVE Serial' /\ AllStand
  <2>1. /\ ~Idle(r) /\ job[r].op \in {"decide_in", "decide_out"} /\ Done(r)
        /\ Store(job[r], Decision(job[r]), Fields)
    BY <1>7 DEF DecideWrite, At
  <2>2. /\ Decidable(job[r].op, job[r].seen) /\ job[r].how \in Verdict
        /\ Decision(job[r]) \in Row
    BY <1>4, <2>1, DecisionType DEF Fresh, JobTyped
  <2>. QED  BY <1>4, <2>1, <2>2, DecisionKeeps, StoreSerial
<1>8. ASSUME NEW r \in Request, RollBack(r) PROVE Serial' /\ AllStand
  <2>1. ~Idle(r) /\ Done(r) /\ UNCHANGED rec
    BY <1>8 DEF RollBack
  <2>2. RowsDecided' /\ AllStand
    BY <2>1, Same DEF Serial, RowsDecided, AllStand
  <2>. QED  BY <2>1, <2>2, DoneSerial DEF Serial
<1>9. ASSUME NEW e \in Employee, NEW d \in Day, DeleteRecord(e, d)
      PROVE  Serial' /\ AllStand
  <2>1. rec[e][d] \in Row
    BY <1>9 DEF DeleteRecord, Visible, Typed, TypeOK
  <2>2. /\ rec' = [rec EXCEPT ![e][d] = [rec[e][d] EXCEPT !.deleted = TRUE]]
        /\ (\A r \in Request : Idle(r)) /\ UNCHANGED job
    BY <1>9 DEF DeleteRecord, Typed, TypeOK
  <2>3. /\ DecidedRow([rec[e][d] EXCEPT !.deleted = TRUE])
        /\ Stands(rec[e][d], [rec[e][d] EXCEPT !.deleted = TRUE])
    BY <2>1, AttendanceAssumption
       DEF Serial, RowsDecided, DecidedRow, Stands, Row
  <2>. QED  BY <2>2, <2>3, EditSerial
<1>10. ASSUME NEW e \in Employee, NEW d \in Day, MarkAbsent(e, d)
       PROVE  Serial' /\ AllStand
  <2>1. /\ rec' = [rec EXCEPT ![e][d] = [Blank EXCEPT !.status = "absent"]]
        /\ (\A r \in Request : Idle(r)) /\ UNCHANGED job /\ rec[e][d] = NoRow
    BY <1>10 DEF MarkAbsent
  <2>2. DecidedRow([Blank EXCEPT !.status = "absent"])
    BY DEF DecidedRow, Blank, Verdict
  <2>. QED  BY <2>1, <2>2, EditSerial
<1>11. CASE OpenPeriod \/ Midnight \/ \E a \in actions : Forgive(a)
  BY <1>11, QuietSerial DEF OpenPeriod, Midnight, Forgive
<1>. QED
  BY <1>1, <1>2, <1>3, <1>5, <1>6, <1>7, <1>8, <1>9, <1>10, <1>11 DEF Next

LEMMA SerialInvInit == Init => SerialInv
BY TypedInit, SerialInit DEF SerialInv

LEMMA RacingFixed == ASSUME [Next]_vars PROVE racing' = racing /\ policy' = policy
<1>1. ASSUME NEW r \in Request, NEW e \in Employee, NEW d \in Day,
             NEW how \in Source \cup Verdict, NEW by \in Decider \cup {NoOne},
             NEW op \in {"decide_in", "decide_out"},
             Arrive(r, e, d, how, by) \/ Leave(r, e, d, how, by)
               \/ Decide(r, e, d, op, how, by)
      PROVE  racing' = racing /\ policy' = policy
  BY <1>1 DEF Arrive, Leave, Decide
<1>2. ASSUME NEW r \in Request, NEW late \in BOOLEAN, NEW over \in BOOLEAN,
             ArriveWrite(r, late, over) \/ LeaveWrite(r, late)
               \/ DecideWrite(r) \/ RollBack(r)
      PROVE  racing' = racing /\ policy' = policy
  BY <1>2 DEF ArriveWrite, LeaveWrite, DecideWrite, RollBack
<1>3. ASSUME NEW e \in Employee, NEW d \in Day,
             DeleteRecord(e, d) \/ MarkAbsent(e, d)
      PROVE  racing' = racing /\ policy' = policy
  BY <1>3 DEF DeleteRecord, MarkAbsent
<1>4. CASE OpenPeriod \/ Midnight \/ (\E a \in actions : Forgive(a)) \/ UNCHANGED vars
  BY <1>4 DEF OpenPeriod, Midnight, Forgive, vars
<1>. QED  BY <1>1, <1>2, <1>3, <1>4 DEF Next

LEMMA SerialInvStep ==
  SerialInv /\ [Next]_vars
    => SerialInv' /\ [~racing => AllStand]_vars
<1>. SUFFICES ASSUME SerialInv, [Next]_vars
              PROVE  SerialInv' /\ [~racing => AllStand]_vars
  OBVIOUS
<1>1. Typed' /\ racing' = racing
  BY TypedStep, RacingFixed DEF SerialInv
<1>2. ~racing => Serial' /\ (Next => AllStand)
  <2>1. CASE Next
    BY <2>1, SerialStep DEF SerialInv
  <2>2. CASE UNCHANGED vars
    BY <2>2, QuietSerial DEF SerialInv, vars
  <2>. QED  BY <2>1, <2>2
<1>. QED  BY <1>1, <1>2 DEF SerialInv

-----------------------------------------------------------------------------
(* With one request at a time a decided time does not change any more, and *)
(* the decision gives way to another decision only: arrivals, departures,  *)
(* OTPs, codes, manual records, deletions and rollbacks leave both alone.  *)
THEOREM AttendanceDecisionStands == Spec => DecisionStands
<1>. DEFINE Standing ==
       ~racing => \A e \in Employee, d \in Day :
                    rec[e][d] # NoRow => Stands(rec[e][d], rec'[e][d])
<1>1. SerialInv /\ [Next]_vars => [Standing]_vars
  BY SerialInvStep DEF AllStand
<1>2. SerialInv /\ [Next]_vars => SerialInv'
  BY SerialInvStep
<1>. QED  BY <1>1, <1>2, SerialInvInit, PTL DEF Spec, DecisionStands

-----------------------------------------------------------------------------
(* Being late too often.  An employee who has come is late on the day of   *)
(* the arrival, which is today, so the rule sees a day's last late record; *)
(* whatever happens to the records later can only make late days fewer.    *)

Counted == "late_count_over_period"
IsLate(row) == row # NoRow /\ row.status = "late" /\ ~row.deleted
Window_of(d) == [from |-> d - Window + 1, to |-> d]
Charged(as, e, d) == \E a \in as :
  a.rule = Counted /\ a.emp = e /\ a.span \in {Period, Window_of(d)}

LateArrived == \A e \in Employee, d \in Day :
  rec[e][d] # NoRow /\ rec[e][d].status = "late" => rec[e][d].in # "none"
FutureEmpty == \A e \in Employee, d \in Day : d > today => rec[e][d] = NoRow
OnTime(j) ==
  /\ j.day <= today
  /\ j.op = "arrive" /\ j.how # "manual" => j.day = today
JobsOnTime == \A r \in Request : ~Idle(r) => OnTime(job[r])
Often == \A e \in Employee, d \in Day :
  IsLate(rec[e][d]) /\ Cardinality(LateDays(rec, e, d)) >= Threshold
    => Charged(actions, e, d)

Counting == LateArrived /\ FutureEmpty /\ JobsOnTime
CountInv ==
  SerialInv /\ (~racing => Counting /\ (policy[Counted] # "off" => Often))

LEMMA CountInit == Init => Counting /\ Often
BY DEF Init, Counting, LateArrived, FutureEmpty, JobsOnTime, Often, IsLate, Idle

LEMMA FewerLate ==
  ASSUME NEW b1, NEW b2, NEW e, NEW d \in Day,
         \A k \in Day : k <= d /\ IsLate(b2[e][k]) => IsLate(b1[e][k])
  PROVE  /\ Cardinality(LateDays(b1, e, d)) \in Nat
         /\ Cardinality(LateDays(b2, e, d)) \in Nat
         /\ Cardinality(LateDays(b2, e, d)) <= Cardinality(LateDays(b1, e, d))
<1>1. LateDays(b2, e, d) \subseteq LateDays(b1, e, d)
  <2>. SUFFICES ASSUME NEW k \in LateDays(b2, e, d) PROVE k \in LateDays(b1, e, d)
    OBVIOUS
  <2>1. k \in Day /\ k \in (d - Window + 1)..d /\ IsLate(b2[e][k])
    BY DEF LateDays, IsLate
  <2>2. k <= d
    BY <2>1, AttendanceAssumption DEF Day
  <2>. QED  BY <2>1, <2>2 DEF LateDays, IsLate
<1>2. IsFiniteSet(Day)
  BY FS_Interval, AttendanceAssumption DEF Day
<1>3. IsFiniteSet(LateDays(b1, e, d)) /\ IsFiniteSet(LateDays(b2, e, d))
  BY <1>2, FS_Subset DEF LateDays
<1>. QED  BY <1>1, <1>3, FS_Subset, FS_CardinalityType

(* A step that makes nobody late and withdraws no penalty                  *)
LEMMA OftenKept ==
  ASSUME Often,
         \A e \in Employee, d \in Day : IsLate(rec'[e][d]) => IsLate(rec[e][d]),
         \A e \in Employee, d \in Day :
           Charged(actions, e, d) => Charged(actions', e, d)
  PROVE  Often'
<1>. SUFFICES ASSUME NEW e \in Employee, NEW d \in Day, IsLate(rec'[e][d]),
                     Cardinality(LateDays(rec', e, d)) >= Threshold
              PROVE  Charged(actions', e, d)
  BY DEF Often
<1>1. Cardinality(LateDays(rec, e, d)) >= Threshold
  BY FewerLate, AttendanceAssumption
<1>. QED  BY <1>1 DEF Often

(* The rule's penalty is made, or one for the same days was made before.   *)
LEMMA RuleCharges ==
  ASSUME NEW e \in Employee, NEW d \in Day, NEW book, NEW row,
         policy[Counted] # "off", row.status = "late", TooOften(book, e, d),
         Penalise(Missing(Called(book, e, d, row)))
  PROVE  Charged(actions', e, d)
<1>. DEFINE p == CountPenalty(e, d)
<1>1. /\ p.rule = Counted /\ p.emp = e /\ p.day = 0
      /\ p.span \in {Period, Window_of(d)}
  BY DEF CountPenalty, Penalty, Counted, Window_of
<1>2. p \in Called(book, e, d, row)
  BY <1>1 DEF Called, Counted
<1>. HIDE DEF p
<1>3. CASE p \in Missing(Called(book, e, d, row))
  BY <1>1, <1>3 DEF Penalise, Charged
<1>4. CASE p \notin Missing(Called(book, e, d, row))
  <2>1. PICK a \in actions : SameCause(p, a)
    BY <1>2, <1>4 DEF Missing
  <2>. QED  BY <1>1, <2>1 DEF SameCause, Charged, Penalise
<1>. QED  BY <1>3, <1>4

(* What a write leaves in the row                                          *)
Saved(j, new, fields) == IF j.seen = NoRow THEN new ELSE Save(j.seen, new, fields)

LEMMA StoreAt ==
  ASSUME Typed, Serial, NEW r \in Request, ~Idle(r), NEW new \in Row, NEW fields,
         Store(job[r], new, fields)
  PROVE  LET j == job[r] IN
         /\ j \in Job /\ j.emp \in Employee /\ j.day \in Day /\ Fresh(j)
         /\ rec'[j.emp][j.day] = Saved(j, new, fields)
         /\ \A e \in Employee, d \in Day :
              ~(e = j.emp /\ d = j.day) => rec'[e][d] = rec[e][d]
<1>. DEFINE j == job[r]
<1>1. j \in Job /\ j.emp \in Employee /\ j.day \in Day /\ JobTyped(j) /\ Fresh(j)
  BY DEF Typed, TypeOK, JobsTyped, Idle, Job, Serial, JobsFresh
<1>2. rec' = [rec EXCEPT ![j.emp][j.day] = Saved(j, new, fields)]
  BY <1>1 DEF Store, Fresh, Typed, TypeOK, Saved
<1>. HIDE DEF j
<1>3. /\ rec'[j.emp][j.day] = Saved(j, new, fields)
      /\ \A e \in Employee, d \in Day :
           ~(e = j.emp /\ d = j.day) => rec'[e][d] = rec[e][d]
  BY <1>1, <1>2 DEF Typed, TypeOK
<1>. QED  BY <1>1, <1>3 DEF j

(* Only an arrival that is timed makes anybody late.                       *)
LEMMA ArrivalLate ==
  ASSUME NEW j \in Job, NotArrived(j.seen),
         j.seen # NoRow => (j.seen.status = "late" => j.seen.in # "none"),
         NEW late \in BOOLEAN, NEW over \in BOOLEAN
  PROVE  LET new == Arrival(j, late, over)
             saved == Saved(j, new, ArrivalFields(j.how)) IN
         /\ saved.in # "none"
         /\ Timed(j.how) /\ late => new.status = "late"
         /\ ~(Timed(j.how) /\ late) => saved.status # "late"
<1>. DEFINE new == Arrival(j, late, over)
            saved == Saved(j, new, ArrivalFields(j.how))
<1>1. Found(j) \in Row /\ Found(j).status # "late"
  BY BlankType DEF Found, Job, NotArrived, Blank
<1>2. new.in # "none" /\ new.status = ArrivalStatus(j, late)
  BY <1>1 DEF Arrival, TimeOf, Row
<1>3. /\ Timed(j.how) /\ late => ArrivalStatus(j, late) = "late"
      /\ ~(Timed(j.how) /\ late) => ArrivalStatus(j, late) # "late"
  BY <1>1 DEF ArrivalStatus, Resolved, Timed
<1>4. {"in", "status"} \subseteq ArrivalFields(j.how)
  BY DEF ArrivalFields, Fields
<1>. HIDE DEF new
<1>5. saved.in = new.in /\ saved.status = new.status
  BY <1>4 DEF Saved, Save, Fields
<1>. HIDE DEF saved
<1>6. /\ saved.in # "none"
      /\ Timed(j.how) /\ late => new.status = "late"
      /\ ~(Timed(j.how) /\ late) => saved.status # "late"
  BY <1>2, <1>3, <1>5
<1>. QED  BY <1>6 DEF saved, new

SameLateness(row, next) ==
  /\ next.in = row.in /\ next.deleted = row.deleted
  /\ next.status = "late" => row.status = "late"

LEMMA DepartureLate ==
  ASSUME NEW j \in Job, j.seen \in Row, j.seen # NoRow, NEW early \in BOOLEAN
  PROVE  SameLateness(j.seen, Saved(j, Departure(j, early), DepartureFields(j.how)))
<1>. DEFINE new == Departure(j, early)
<1>1. /\ new.in = j.seen.in /\ new.deleted = j.seen.deleted
      /\ new.status = DepartureStatus(j, early)
  BY DEF Departure, Row
<1>2. DepartureStatus(j, early) = "late" => j.seen.status = "late"
  BY DEF DepartureStatus, Resolved
<1>. HIDE DEF new
<1>3. SameLateness(j.seen, Saved(j, new, DepartureFields(j.how)))
  BY <1>1, <1>2 DEF SameLateness, Saved, Save, Fields
<1>. QED  BY <1>3 DEF new

LEMMA DecisionLate ==
  ASSUME NEW j \in Job, j.seen \in Row, j.seen # NoRow
  PROVE  SameLateness(j.seen, Saved(j, Decision(j), Fields))
<1>. DEFINE new == Decision(j)
<1>1. /\ new.in = j.seen.in /\ new.deleted = j.seen.deleted
      /\ new.status = j.seen.status
  BY DEF Decision, Row
<1>. HIDE DEF new
<1>2. SameLateness(j.seen, Saved(j, new, Fields))
  BY <1>1 DEF SameLateness, Saved, Save, Fields
<1>. QED  BY <1>2 DEF new

-----------------------------------------------------------------------------
LEMMA OnTimeDone ==
  ASSUME Typed, JobsOnTime, NEW r \in Request, Done(r), UNCHANGED today
  PROVE  JobsOnTime'
BY DEF Typed, TypeOK, JobsOnTime, OnTime, Idle, Done

LEMMA OnTimeBegin ==
  ASSUME Typed, JobsOnTime, NEW r \in Request, NEW j, OnTime(j), Begin(r, j),
         UNCHANGED today
  PROVE  JobsOnTime'
BY DEF Typed, TypeOK, JobsOnTime, OnTime, Idle, Begin

LEMMA CountBegin ==
  ASSUME Typed, Counting, NEW r \in Request, NEW j, OnTime(j), Begin(r, j),
         UNCHANGED <<today, rec, actions>>
  PROVE  Counting' /\ (Often => Often')
<1>1. LateArrived' /\ FutureEmpty'
  BY DEF Counting, LateArrived, FutureEmpty
<1>2. JobsOnTime'
  BY OnTimeBegin DEF Counting
<1>3. Often => Often'
  BY OftenKept DEF Charged
<1>. QED  BY <1>1, <1>2, <1>3 DEF Counting

(* A departure or a decision                                               *)
LEMMA CountStore ==
  ASSUME Typed, Serial, Counting, NEW r \in Request, ~Idle(r), Done(r),
         NEW new \in Row, NEW fields, Store(job[r], new, fields),
         UNCHANGED <<today, actions>>,
         job[r].seen # NoRow,
         SameLateness(job[r].seen, Saved(job[r], new, fields))
  PROVE  Counting' /\ (Often => Often')
<1>. DEFINE j == job[r]
            s == Saved(j, new, fields)
<1>1. /\ j \in Job /\ j.emp \in Employee /\ j.day \in Day
      /\ rec'[j.emp][j.day] = s
      /\ \A e \in Employee, d \in Day :
           ~(e = j.emp /\ d = j.day) => rec'[e][d] = rec[e][d]
      /\ j.seen = rec[j.emp][j.day]
  BY StoreAt DEF Fresh
<1>2. SameLateness(rec[j.emp][j.day], s) /\ rec[j.emp][j.day] # NoRow
  BY <1>1
<1>. HIDE DEF s, j
<1>3. LateArrived' /\ FutureEmpty'
  BY <1>1, <1>2 DEF Counting, LateArrived, FutureEmpty, SameLateness
<1>4. \A e \in Employee, d \in Day : IsLate(rec'[e][d]) => IsLate(rec[e][d])
  BY <1>1, <1>2 DEF IsLate, SameLateness
<1>5. Often => Often'
  BY <1>4, OftenKept DEF Charged
<1>6. JobsOnTime'
  BY OnTimeDone DEF Counting
<1>. QED  BY <1>3, <1>5, <1>6 DEF Counting

LEMMA CountArrival ==
  ASSUME Typed, Serial, Counting, NEW r \in Request,
         NEW late \in BOOLEAN, NEW over \in BOOLEAN, ArriveWrite(r, late, over)
  PROVE  Counting' /\ (policy[Counted] # "off" /\ Often => Often')
<1>. DEFINE j == job[r]
            new == Arrival(j, late, over)
            s == Saved(j, new, ArrivalFields(j.how))
<1>1. /\ ~Idle(r) /\ j.op = "arrive" /\ Done(r) /\ UNCHANGED today
      /\ Store(j, new, ArrivalFields(j.how))
      /\ IF Timed(j.how) THEN Penalise(Missing(Called(rec', j.emp, j.day, new)))
         ELSE UNCHANGED actions
  BY DEF ArriveWrite, At
<1>2. j \in Job /\ JobTyped(j) /\ OnTime(j)
  BY <1>1 DEF Typed, TypeOK, JobsTyped, Idle, Counting, JobsOnTime
<1>3. /\ j.emp \in Employee /\ j.day \in Day /\ Fresh(j)
      /\ rec'[j.emp][j.day] = s
      /\ \A e \in Employee, d \in Day :
           ~(e = j.emp /\ d = j.day) => rec'[e][d] = rec[e][d]
  <2>1. new \in Row
    BY <1>2, ArrivalType
  <2>. HIDE DEF new
  <2>. QED  BY <1>1, <2>1, StoreAt
<1>4. j.seen # NoRow => (j.seen.status = "late" => j.seen.in # "none")
  BY <1>3 DEF Fresh, Counting, LateArrived
<1>5. /\ s.in # "none"
      /\ Timed(j.how) /\ late => new.status = "late"
      /\ ~(Timed(j.how) /\ late) => s.status # "late"
  BY <1>1, <1>2, <1>3, <1>4, ArrivalLate DEF Fresh
<1>6. actions \subseteq actions'
  BY <1>1 DEF Penalise
<1>7. \A e \in Employee, d \in Day : Charged(actions, e, d) => Charged(actions', e, d)
  BY <1>6 DEF Charged
<1>. HIDE DEF s, new
<1>8. LateArrived'
  BY <1>3, <1>5 DEF Counting, LateArrived
<1>9. FutureEmpty'
  <2>. SUFFICES ASSUME NEW e \in Employee, NEW d \in Day, d > today
                PROVE  rec'[e][d] = NoRow
    BY <1>1 DEF FutureEmpty
  <2>1. d # j.day
    BY <1>2 DEF OnTime, Typed, TypeOK, Day
  <2>. QED  BY <1>3, <2>1 DEF Counting, FutureEmpty
<1>10. JobsOnTime'
  BY <1>1, OnTimeDone DEF Counting
<1>11. ASSUME policy[Counted] # "off", Often PROVE Often'
  <2>1. CASE ~(Timed(j.how) /\ late)
    <3>1. \A e \in Employee, d \in Day : IsLate(rec'[e][d]) => IsLate(rec[e][d])
      BY <1>3, <1>5, <2>1 DEF IsLate
    <3>. QED  BY <1>7, <1>11, <3>1, OftenKept
  <2>2. CASE Timed(j.how) /\ late
    <3>. SUFFICES ASSUME NEW e \in Employee, NEW d \in Day, IsLate(rec'[e][d]),
                         Cardinality(LateDays(rec', e, d)) >= Threshold
                  PROVE  Charged(actions', e, d)
      BY DEF Often
    <3>1. j.day = today
      BY <1>1, <1>2, <2>2 DEF OnTime, Timed
    <3>2. CASE e = j.emp /\ d = j.day
      BY <1>1, <1>3, <1>5, <1>11, <2>2, <3>2, RuleCharges DEF TooOften
    <3>3. CASE ~(e = j.emp /\ d = j.day)
      <4>1. ~(d > today)
        BY <1>9, <1>1 DEF FutureEmpty, IsLate
      <4>2. \A k \in Day : k <= d /\ IsLate(rec'[e][k]) => IsLate(rec[e][k])
        <5>. SUFFICES ASSUME NEW k \in Day, k <= d, IsLate(rec'[e][k])
                      PROVE  IsLate(rec[e][k])
          OBVIOUS
        <5>1. ~(e = j.emp /\ k = j.day)
          BY <3>1, <3>3, <4>1 DEF Typed, TypeOK, Day
        <5>. QED  BY <1>3, <5>1
      <4>3. Cardinality(LateDays(rec, e, d)) >= Threshold
        BY <4>2, FewerLate, AttendanceAssumption
      <4>4. IsLate(rec[e][d])
        BY <1>3, <3>3
      <4>. QED  BY <1>7, <1>11, <4>3, <4>4 DEF Often
    <3>. QED  BY <3>2, <3>3
  <2>. QED  BY <2>1, <2>2
<1>. QED  BY <1>8, <1>9, <1>10, <1>11 DEF Counting

LEMMA CountStep ==
  ASSUME ~racing, Typed, Serial, Counting, Next
  PROVE  Counting' /\ (policy[Counted] # "off" /\ Often => Often')
<1>1. ASSUME NEW r \in Request, NEW e \in Employee, NEW d \in Day,
             NEW how \in Source, NEW by \in Decider \cup {NoOne},
             NEW op \in {"arrive", "leave"},
             Arrive(r, e, d, how, by) \/ Leave(r, e, d, how, by)
      PROVE  Counting' /\ (Often => Often')
  <2>1. d <= today /\ (how # "manual" => d = today)
    BY <1>1 DEF Arrive, Leave, MayRecord, Typed, TypeOK, Day
  <2>2. PICK o \in {"arrive", "leave"} :
          Begin(r, [op |-> o, how |-> how, emp |-> e, day |-> d,
                    by |-> by, seen |-> Visible(e, d)])
          /\ UNCHANGED <<today, rec, actions>>
    BY <1>1 DEF Arrive, Leave
  <2>3. OnTime([op |-> o, how |-> how, emp |-> e, day |-> d,
                by |-> by, seen |-> Visible(e, d)])
    BY <2>1 DEF OnTime
  <2>. QED  BY <2>2, <2>3, CountBegin
<1>2. ASSUME NEW r \in Request, NEW e \in Employee, NEW d \in Day,
             NEW op \in {"decide_in", "decide_out"}, NEW verdict \in Verdict,
             NEW by \in Decider, Decide(r, e, d, op, verdict, by)
      PROVE  Counting' /\ (Often => Often')
  <2>. DEFINE j == [op |-> op, how |-> verdict, emp |-> e, day |-> d,
                    by |-> by, seen |-> Visible(e, d)]
  <2>1. rec[e][d] # NoRow
    BY <1>2 DEF Decide, Visible
  <2>2. d <= today
    BY <2>1 DEF Counting, FutureEmpty, Typed, TypeOK, Day
  <2>3. OnTime(j) /\ Begin(r, j) /\ UNCHANGED <<today, rec, actions>>
    BY <1>2, <2>2 DEF Decide, OnTime
  <2>. HIDE DEF j
  <2>. QED  BY <2>3, CountBegin
<1>3. ASSUME NEW r \in Request, ~Idle(r), job[r].op # "arrive"
      PROVE  job[r] \in Job /\ JobTyped(job[r])
             /\ job[r].seen \in Row /\ job[r].seen # NoRow
  BY <1>3 DEF Typed, TypeOK, JobsTyped, Idle, JobTyped, Job
<1>4. ASSUME NEW r \in Request, NEW early \in BOOLEAN, LeaveWrite(r, early)
      PROVE  Counting' /\ (Often => Often')
  <2>1. /\ ~Idle(r) /\ job[r].op = "leave" /\ Done(r)
        /\ UNCHANGED <<today, actions>>
        /\ Store(job[r], Departure(job[r], early), DepartureFields(job[r].how))
    BY <1>4 DEF LeaveWrite, At
  <2>. QED  BY <1>3, <2>1, DepartureType, DepartureLate, CountStore
<1>5. ASSUME NEW r \in Request, DecideWrite(r)
      PROVE  Counting' /\ (Often => Often')
  <2>1. /\ ~Idle(r) /\ job[r].op \in {"decide_in", "decide_out"} /\ Done(r)
        /\ UNCHANGED <<today, actions>>
        /\ Store(job[r], Decision(job[r]), Fields)
    BY <1>5 DEF DecideWrite, At
  <2>2. job[r].how \in Verdict
    BY <1>3, <2>1 DEF JobTyped
  <2>. QED  BY <1>3, <2>1, <2>2, DecisionType, DecisionLate, CountStore
<1>6. ASSUME NEW r \in Request, RollBack(r)
      PROVE  Counting' /\ (Often => Often')
  <2>1. Done(r) /\ UNCHANGED <<today, rec, actions>>
    BY <1>6 DEF RollBack
  <2>2. LateArrived' /\ FutureEmpty' /\ JobsOnTime'
    BY <2>1, OnTimeDone DEF Counting, LateArrived, FutureEmpty
  <2>3. Often => Often'
    BY <2>1, OftenKept DEF Charged
  <2>. QED  BY <2>2, <2>3 DEF Counting
<1>7. ASSUME NEW e \in Employee, NEW d \in Day, NEW new,
             rec' = [rec EXCEPT ![e][d] = new],
             UNCHANGED <<today, actions, job>>,
             d <= today, IsLate(new) => IsLate(rec[e][d]),
             new.status = "late" => new.in # "none"
      PROVE  Counting' /\ (Often => Often')
  <2>1. /\ rec'[e][d] = new
        /\ \A f \in Employee, k \in Day :
             ~(f = e /\ k = d) => rec'[f][k] = rec[f][k]
    BY <1>7 DEF Typed, TypeOK
  <2>2. LateArrived' /\ JobsOnTime'
    BY <1>7, <2>1 DEF Counting, LateArrived, JobsOnTime, OnTime, Idle
  <2>3. FutureEmpty'
    BY <1>7, <2>1 DEF Counting, FutureEmpty, Typed, TypeOK, Day
  <2>4. \A f \in Employee, k \in Day : IsLate(rec'[f][k]) => IsLate(rec[f][k])
    BY <1>7, <2>1
  <2>5. Often => Often'
    BY <1>7, <2>4, OftenKept DEF Charged
  <2>. QED  BY <2>2, <2>3, <2>5 DEF Counting
<1>8. ASSUME NEW e \in Employee, NEW d \in Day, DeleteRecord(e, d)
      PROVE  Counting' /\ (Often => Often')
  <2>. DEFINE new == [rec[e][d] EXCEPT !.deleted = TRUE]
  <2>1. rec[e][d] \in Row /\ rec[e][d] # NoRow
    BY <1>8 DEF DeleteRecord, Visible, Typed, TypeOK
  <2>2. d <= today
    BY <2>1 DEF Counting, FutureEmpty, Typed, TypeOK, Day
  <2>3. rec' = [rec EXCEPT ![e][d] = new] /\ UNCHANGED <<today, actions, job>>
    BY <1>8 DEF DeleteRecord, Typed, TypeOK
  <2>4. new.deleted /\ (new.status = "late" => new.in # "none")
    BY <2>1 DEF Row, Counting, LateArrived
  <2>5. ~IsLate(new)
    BY <2>4 DEF IsLate
  <2>. HIDE DEF new
  <2>. QED  BY <1>7, <2>2, <2>3, <2>4, <2>5
<1>9. ASSUME NEW e \in Employee, NEW d \in Day, MarkAbsent(e, d)
      PROVE  Counting' /\ (Often => Often')
  <2>. DEFINE new == [Blank EXCEPT !.status = "absent"]
  <2>1. /\ rec' = [rec EXCEPT ![e][d] = new] /\ d <= today
        /\ UNCHANGED <<today, actions, job>>
    BY <1>9 DEF MarkAbsent
  <2>2. new.status # "late"
    BY DEF Blank
  <2>. HIDE DEF new
  <2>. QED  BY <1>7, <2>1, <2>2 DEF IsLate
<1>10. ASSUME NEW a \in actions, Forgive(a)
       PROVE  Counting' /\ (Often => Often')
  <2>1. Counting'
    BY <1>10 DEF Forgive, Counting, LateArrived, FutureEmpty, JobsOnTime, OnTime,
                 Idle
  <2>2. \A e \in Employee, d \in Day :
          Charged(actions, e, d) => Charged(actions', e, d)
    <3>1. /\ [a EXCEPT !.live = FALSE] \in actions'
          /\ actions' = (actions \ {a}) \cup {[a EXCEPT !.live = FALSE]}
      BY <1>10 DEF Forgive
    <3>2. /\ [a EXCEPT !.live = FALSE].rule = a.rule
          /\ [a EXCEPT !.live = FALSE].emp = a.emp
          /\ [a EXCEPT !.live = FALSE].span = a.span
      BY DEF Typed, TypeOK, Action
    <3>. QED  BY <3>1, <3>2 DEF Charged
  <2>. QED  BY <1>10, <2>1, <2>2, OftenKept DEF Forgive
<1>11. CASE OpenPeriod \/ Midnight
  <2>1. UNCHANGED <<rec, actions, job>>
    BY <1>11 DEF OpenPeriod, Midnight
  <2>2. LateArrived' /\ (Often => Often')
    BY <2>1, OftenKept DEF Counting, LateArrived, Charged
  <2>3. CASE OpenPeriod
    BY <2>1, <2>2, <2>3
       DEF OpenPeriod, Counting, FutureEmpty, JobsOnTime, OnTime, Idle
  <2>4. CASE Midnight
    <3>1. \A r \in Request : Idle(r)'
      BY <2>1, <2>4 DEF Midnight, Idle
    <3>2. FutureEmpty'
      BY <2>1, <2>4 DEF Midnight, Counting, FutureEmpty, Typed, TypeOK, Day
    <3>. QED  BY <2>2, <3>1, <3>2 DEF Counting, JobsOnTime
  <2>. QED  BY <1>11, <2>3, <2>4
<1>. QED
  BY <1>1, <1>2, <1>4, <1>5, <1>6, <1>8, <1>9, <1>10, <1>11, CountArrival DEF Next

LEMMA CountInvStep == CountInv /\ [Next]_vars => CountInv'
<1>. SUFFICES ASSUME CountInv, [Next]_vars PROVE CountInv'
  OBVIOUS
<1>1. SerialInv' /\ racing' = racing /\ policy' = policy
  BY SerialInvStep, RacingFixed DEF CountInv
<1>2. CASE Next
  BY <1>1, <1>2, CountStep DEF CountInv, SerialInv
<1>3. CASE UNCHANGED vars
  <2>1. UNCHANGED <<today, rec, actions, job>>
    BY <1>3 DEF vars
  <2>2. Counting => Counting'
    BY <2>1 DEF Counting, LateArrived, FutureEmpty, JobsOnTime, OnTime, Idle
  <2>3. Often => Often'
    BY <2>1, OftenKept DEF Charged
  <2>. QED  BY <1>1, <2>2, <2>3 DEF CountInv
<1>. QED  BY <1>2, <1>3

(* With one request at a time, whoever has been late too often within the  *)
(* days of the rule has the penalty for those days or for their payroll    *)
(* period, through deletions, forgiven penalties, decisions and manual     *)
(* records: the counts the rule was not asked about only ever shrink.      *)
THEOREM AttendanceOftenLate == Spec => []OftenLatePenalised
<1>1. Init => CountInv
  BY SerialInvInit, CountInit DEF CountInv
<1>2. CountInv => OftenLatePenalised
  BY DEF CountInv, Often, OftenLatePenalised, Counted, IsLate, Visible, Charged,
         Window_of
<1>. QED  BY <1>1, <1>2, CountInvStep, PTL DEF Spec
=============================================================================
