---------------------------- MODULE LeaveWorkflow ----------------------------
(***************************************************************************)
(* Leave requests and leave balances (hr/services/leaves.py,               *)
(* hr/leaves/services.py and the leave views of hr/api_views.py) as the    *)
(* web workers run them on PostgreSQL READ COMMITTED.                      *)
(*                                                                         *)
(* A handler that reads a row, decides, and writes it later is two         *)
(* actions; its copy of what it read is an element of one of the in-flight *)
(* sets.  Approval takes row locks on the request and on the balance       *)
(* before it reads them, so it is one action: nothing it reads can change  *)
(* before its commit.  Rejection, cancellation and balance edits take no   *)
(* lock: their UPDATE waits for a lock holder and then overwrites.         *)
(***************************************************************************)
EXTENDS ApprovalPolicy, Integers, Functions

CONSTANTS Request,       \* the requests submitted in a behaviour
          Draft,         \* the payload each of them is submitted with
          LeaveType,
          Paid,          \* leave types with paid = TRUE
          NeedsBalance,  \* ... with requires_balance
          MayGoNegative, \* ... with allow_negative_balance
          MaxDays,       \* max_per_request_days of a type, 0 when unset
          YearOf,        \* day -> calendar year
          Allotment,     \* allocated + carried-over days at the start
          Settings,      \* what a behaviour may be made of, see setting
          NoUser

Day == DOMAIN YearOf
Payload == [employee: User, leave_type: LeaveType,
            start_date: Day, end_date: Day]
Employee(r) == Draft[r].employee
Days(r) == Draft[r].end_date - Draft[r].start_date + 1
KeyOf(r) == <<Draft[r].employee, Draft[r].leave_type,
              YearOf[Draft[r].start_date]>>
BalanceKey == {KeyOf(r) : r \in Request}
BalanceField == {"allotted", "used_days"}

ASSUME LeaveAssumption ==
  /\ Day \subseteq Int
  /\ Draft \in [Request -> Payload]
  /\ Paid \subseteq LeaveType
  /\ NeedsBalance \subseteq LeaveType
  /\ MayGoNegative \subseteq LeaveType
  /\ MaxDays \in [LeaveType -> Nat]
  /\ Allotment \in [BalanceKey -> Nat]
  /\ \A s \in Settings :
       /\ s.overlapping \in BOOLEAN
       /\ s.submits \subseteq Request /\ s.deciders \subseteq User
       /\ \A p \in s.edits : /\ DOMAIN p \subseteq BalanceField
                            /\ \A f \in DOMAIN p : p[f] \in Int
  /\ NoUser \notin User

VARIABLES status,     \* LeaveRequest.status, "absent" before the INSERT
          decided_by, \* LeaveRequest.decided_by
          balance,    \* LeaveBalance rows: allotted and used days
          rows,       \* the keys that have a LeaveBalance row
          active,     \* leave types with is_active
          submitting, \* submissions past their checks, not yet inserted
          rejecting,  \* <<u, r>>: u's rejection has seen r pending
          cancelling, \* cancellations that have seen r pending
          stamping,   \* cancellations that still have to save decided_by
          editing,    \* balance edits holding the row they will save
          setting     \* chosen once: whether handlers overlap, the requests
                      \* that may be submitted, who may call the decisions and
                      \* the payloads HR may send to the balance endpoint

(* Several handlers run at a time with GUNICORN_WORKERS > 1.               *)
Overlapping == setting.overlapping
Edit == setting.edits

inFlight == <<submitting, rejecting, cancelling, stamping, editing>>
requestVars == <<status, decided_by>>
balanceVars == <<balance, rows>>
vars == <<requestVars, balanceVars, active, inFlight, setting>>

Status == {"absent", "pending", "approved", "rejected", "cancelled"}
BalanceRow == [BalanceField -> Int]
Live(r) == status[r] \in {"pending", "approved"}
Remaining(k) == balance[k]["allotted"] - balance[k]["used_days"]

TypeOK ==
  /\ status \in [Request -> Status]
  /\ decided_by \in [Request -> User \cup {NoUser}]
  /\ balance \in [BalanceKey -> BalanceRow]
  /\ rows \subseteq BalanceKey
  /\ active \subseteq LeaveType
  /\ submitting \subseteq Request
  /\ rejecting \subseteq User \X Request
  /\ cancelling \subseteq Request
  /\ stamping \subseteq Request
  /\ editing \subseteq [key: BalanceKey, row: BalanceRow, insert: BOOLEAN]
  /\ setting \in Settings

Idle == /\ submitting = {} /\ rejecting = {} /\ cancelling = {}
        /\ stamping = {} /\ editing = {}
MayStart == Overlapping \/ Idle

Init ==
  /\ status = [r \in Request |-> "absent"]
  /\ decided_by = [r \in Request |-> NoUser]
  /\ balance = [k \in BalanceKey |->
                 [f \in BalanceField |->
                   IF f = "allotted" THEN Allotment[k] ELSE 0]]
  /\ rows = {k \in BalanceKey : Allotment[k] > 0}
  /\ active = LeaveType
  /\ submitting = {} /\ rejecting = {} /\ cancelling = {}
  /\ stamping = {} /\ editing = {}
  /\ setting \in Settings

-----------------------------------------------------------------------------
(* Submission: _request_leave                                              *)
Overlaps(r, q) ==
  /\ Employee(r) = Employee(q)
  /\ Draft[q].start_date <= Draft[r].end_date
  /\ Draft[q].end_date >= Draft[r].start_date

(* Everything up to the INSERT: a failing check raises and rolls back.     *)
SubmitCheck(r) ==
  /\ MayStart
  /\ r \in setting.submits
  /\ status[r] = "absent" /\ r \notin submitting
  /\ Draft[r].leave_type \in active
  /\ Days(r) >= 1
  /\ LET max == MaxDays[Draft[r].leave_type] IN max > 0 => Days(r) <= max
  /\ \A q \in Request : Live(q) => ~Overlaps(r, q)
  /\ Draft[r].leave_type \in NeedsBalance => Remaining(KeyOf(r)) >= Days(r)
  /\ submitting' = submitting \cup {r}
  /\ UNCHANGED <<requestVars, balanceVars, active, rejecting, cancelling,
                 stamping, editing>>

SubmittedAs == "pending"

(* INSERT of the pending row and, with it, of the balance row that         *)
(* get_or_create_balance made in the same transaction.                     *)
SubmitInsert(r) ==
  /\ r \in submitting
  /\ status' = [status EXCEPT ![r] = SubmittedAs]
  /\ rows' = rows \cup {KeyOf(r)}
  /\ submitting' = submitting \ {r}
  /\ UNCHANGED <<decided_by, balance, active, rejecting, cancelling,
                 stamping, editing>>

-----------------------------------------------------------------------------
(* Approval: LeaveApproveView, approve_leave and apply_balance_deduction   *)
(* mutant: an approval compares with the allotment, not with what is left  *)
CoversDeductionOfAllotment(r) ==
  Draft[r].leave_type \in Paid \ MayGoNegative
    => balance[KeyOf(r)]["allotted"] >= Days(r)

CoversDeduction(r) ==
  Draft[r].leave_type \in Paid \ MayGoNegative
    => Remaining(KeyOf(r)) >= Days(r)

Charge(r) == IF Draft[r].leave_type \in Paid THEN Days(r) ELSE 0

(* mutant: the deduction is written, not added                             *)
DeductionOverwrites(used, r) == Charge(r)
Deduct(used, r) == used + Charge(r)

(* mutant: a request rejected or cancelled meanwhile is approved all the   *)
(* same                                                                    *)
ApprovableUndecided(r) == status[r] \in {"pending", "rejected", "cancelled"}
Approvable(r) == status[r] = "pending"

MayDecide(u, r) == UserCanApprove(u, Employee(r))

Approve(u, r) ==
  /\ MayStart
  /\ MayDecide(u, r)
  /\ Approvable(r)
  /\ CoversDeduction(r)
  /\ balance' = [balance EXCEPT ![KeyOf(r)]["used_days"] = Deduct(@, r)]
  /\ rows' = rows \cup {KeyOf(r)}
  /\ status' = [status EXCEPT ![r] = "approved"]
  /\ decided_by' = [decided_by EXCEPT ![r] = u]
  /\ UNCHANGED <<active, inFlight>>

-----------------------------------------------------------------------------
(* Rejection: a plain read, then an UPDATE of status and decided_by        *)
(* mutant: an approved request may be rejected                             *)
RejectableLive(r) == Live(r)
Rejectable(r) == status[r] = "pending"

RejectRead(u, r) ==
  /\ MayStart
  /\ MayDecide(u, r)
  /\ Rejectable(r)
  /\ rejecting' = rejecting \cup {<<u, r>>}
  /\ UNCHANGED <<requestVars, balanceVars, active, submitting, cancelling,
                 stamping, editing>>

RejectWrite(u, r) ==
  /\ <<u, r>> \in rejecting
  /\ status' = [status EXCEPT ![r] = "rejected"]
  /\ decided_by' = [decided_by EXCEPT ![r] = u]
  /\ rejecting' = rejecting \ {<<u, r>>}
  /\ UNCHANGED <<balanceVars, active, submitting, cancelling, stamping,
                 editing>>

-----------------------------------------------------------------------------
(* Cancellation by the employee: the view loads the row, cancel_leave      *)
(* checks that copy and saves the status, the view then saves decided_by.  *)
CancelRead(r) ==
  /\ MayStart
  /\ status[r] = "pending"
  /\ cancelling' = cancelling \cup {r}
  /\ UNCHANGED <<requestVars, balanceVars, active, submitting, rejecting,
                 stamping, editing>>

CancelWrite(r) ==
  /\ r \in cancelling
  /\ status' = [status EXCEPT ![r] = "cancelled"]
  /\ cancelling' = cancelling \ {r}
  /\ stamping' = stamping \cup {r}
  /\ UNCHANGED <<decided_by, balanceVars, active, submitting, rejecting,
                 editing>>

CancelStamp(r) ==
  /\ r \in stamping
  /\ decided_by' = [decided_by EXCEPT ![r] = Employee(r)]
  /\ stamping' = stamping \ {r}
  /\ UNCHANGED <<status, balanceVars, active, submitting, rejecting,
                 cancelling, editing>>

-----------------------------------------------------------------------------
(* LeaveBalanceViewSet: PATCH and the upserting POST load the row, merge   *)
(* the payload and save every column; POST inserts when it saw no row.     *)
BalanceRead(k, p) ==
  /\ MayStart
  /\ editing' = editing \cup
       {[key |-> k,
         row |-> [f \in BalanceField |->
                   IF f \in DOMAIN p THEN p[f] ELSE balance[k][f]],
         insert |-> k \notin rows]}
  /\ UNCHANGED <<requestVars, balanceVars, active, submitting, rejecting,
                 cancelling, stamping>>

BalanceWrite(e) ==
  /\ e \in editing
  /\ e.insert => e.key \notin rows  \* else IntegrityError: see HandlerFails
  /\ balance' = [balance EXCEPT ![e.key] = e.row]
  /\ rows' = rows \cup {e.key}
  /\ editing' = editing \ {e}
  /\ UNCHANGED <<requestVars, active, submitting, rejecting, cancelling,
                 stamping>>

-----------------------------------------------------------------------------
(* LeaveTypeViewSet: HR switches a type off or on again.  The other fields *)
(* of a type, which may be edited too, are constants here, and no type is  *)
(* deleted.                                                                *)
ToggleActive(t) ==
  /\ MayStart
  /\ active' = IF t \in active THEN active \ {t} ELSE active \cup {t}
  /\ UNCHANGED <<requestVars, balanceVars, inFlight>>

(* A handler ends without its next write: a failing notification or a      *)
(* database error rolls its transaction back, or the worker is killed.     *)
HandlerFails ==
  /\ \/ \E r \in submitting : submitting' = submitting \ {r}
        /\ UNCHANGED <<rejecting, cancelling, stamping, editing>>
     \/ \E h \in rejecting : rejecting' = rejecting \ {h}
        /\ UNCHANGED <<submitting, cancelling, stamping, editing>>
     \/ \E r \in cancelling : cancelling' = cancelling \ {r}
        /\ UNCHANGED <<submitting, rejecting, stamping, editing>>
     \/ \E r \in stamping : stamping' = stamping \ {r}
        /\ UNCHANGED <<submitting, rejecting, cancelling, editing>>
     \/ \E e \in editing : editing' = editing \ {e}
        /\ UNCHANGED <<submitting, rejecting, cancelling, stamping>>
  /\ UNCHANGED <<requestVars, balanceVars, active>>

Step ==
  \/ \E r \in Request :
       \/ SubmitCheck(r) \/ SubmitInsert(r)
       \/ CancelRead(r) \/ CancelWrite(r) \/ CancelStamp(r)
       \/ \E u \in setting.deciders :
            Approve(u, r) \/ RejectRead(u, r) \/ RejectWrite(u, r)
  \/ \E k \in BalanceKey, p \in Edit : BalanceRead(k, p)
  \/ \E e \in editing : BalanceWrite(e)
  \/ \E t \in LeaveType : ToggleActive(t)
  \/ HandlerFails
Next == Step /\ UNCHANGED setting

Spec == Init /\ [][Next]_vars

-----------------------------------------------------------------------------
ApprovedCharge(k) ==
  SumFunction([r \in {q \in Request : status[q] = "approved" /\ KeyOf(q) = k}
                 |-> Charge(r)])

(* With one handler at a time the days used on a balance are exactly the   *)
(* days of the approved paid requests booked on it: a rejected or          *)
(* cancelled request costs nothing and nothing is deducted twice.          *)
BalanceMatchesApproved ==
  ~Overlapping =>
    \A k \in BalanceKey : balance[k]["used_days"] = ApprovedCharge(k)

(* Where HR edits no balance every approved paid request is paid for by    *)
(* its balance: whatever the races, an approval's deduction is not lost.   *)
ApprovedIsCharged ==
  Edit = {} => \A k \in BalanceKey : balance[k]["used_days"] >= ApprovedCharge(k)

(* There concurrent approvals never overdraw a balance whose type does not *)
(* allow a negative one.                                                   *)
NoOverdraft ==
  Edit = {} => \A k \in BalanceKey :
                 k[2] \notin MayGoNegative => Remaining(k) >= 0

(* With one handler at a time an employee is never booked twice for a day. *)
NoDoubleBooking ==
  ~Overlapping =>
    \A r, q \in Request :
      r # q /\ Live(r) /\ Live(q) => ~Overlaps(r, q)

(* An approved request carries the decision of somebody entitled to make   *)
(* it, never of its requester, although a cancellation that raced with the *)
(* approval still saves decided_by afterwards.                             *)
ApprovedByApprover ==
  \A r \in Request : status[r] = "approved" =>
    decided_by[r] \in User /\ UserCanApprove(decided_by[r], Employee(r))

(* Whatever the races, a decided request never becomes approved (again),   *)
(* so no request is deducted twice.                                        *)
ApprovedOnce ==
  [][\A r \in Request :
       status'[r] = "approved" => status[r] \in {"pending", "approved"}]_vars

-----------------------------------------------------------------------------
(* Why they hold.  A pending saving of decided_by belongs to a request     *)
(* that is decided for good:                                               *)
StampedIsDecided ==
  \A r \in stamping : status[r] \in {"rejected", "cancelled"}

(* a request being submitted has no row yet, one being decided has one,     *)
InsertedOnce ==
  /\ \A r \in submitting : status[r] = "absent"
  /\ \A h \in rejecting : status[h[2]] # "absent"
  /\ \A r \in cancelling : status[r] # "absent"

(* and with one handler at a time every copy in flight is still current.   *)
InFlightAlone ==
  /\ \A r \in submitting : /\ submitting = {r} /\ rejecting = {}
                           /\ cancelling = {} /\ stamping = {} /\ editing = {}
  /\ \A h \in rejecting : /\ rejecting = {h} /\ submitting = {}
                          /\ cancelling = {} /\ stamping = {} /\ editing = {}
  /\ \A r \in cancelling : /\ cancelling = {r} /\ submitting = {}
                           /\ rejecting = {} /\ stamping = {} /\ editing = {}
  /\ \A r \in stamping : /\ stamping = {r} /\ submitting = {}
                         /\ rejecting = {} /\ cancelling = {} /\ editing = {}
  /\ \A e \in editing : /\ editing = {e} /\ submitting = {}
                        /\ rejecting = {} /\ cancelling = {} /\ stamping = {}

CopiesCurrent ==
  /\ \A r \in submitting : /\ status[r] = "absent"
                           /\ \A q \in Request : Live(q) => ~Overlaps(r, q)
  /\ \A h \in rejecting : status[h[2]] = "pending"
  /\ \A r \in cancelling : status[r] = "pending"
  /\ \A e \in editing : e.row["used_days"] = balance[e.key]["used_days"]

SerialInv == ~Overlapping => InFlightAlone /\ CopiesCurrent /\ NoDoubleBooking

(* HR's payloads set the allotment only, never used_days.                  *)
GrantsOnly == \A s \in Settings : \A p \in s.edits : "used_days" \notin DOMAIN p

-----------------------------------------------------------------------------
UsedDays == [k \in BalanceKey |-> balance[k]["used_days"]]

Contract == INSTANCE LeaveContract WITH
  Account <- BalanceKey,
  AccountOf <- [r \in Request |-> KeyOf(r)],
  ChargeOf <- [r \in Request |-> Charge(r)],
  Conflict <- {p \in Request \X Request : Overlaps(p[1], p[2])},
  used <- UsedDays

(* With handlers run one at a time the code keeps the contract: stale      *)
(* checks, the late decided_by and full-row balance saves do no harm then. *)
ImplementsContract ==
  /\ ~Overlapping => Contract!Init
  /\ [][~Overlapping => Contract!Next]_<<status, UsedDays>>
=============================================================================
