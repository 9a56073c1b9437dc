------------------------ MODULE LeaveWorkflow_proofs ------------------------
(***************************************************************************)
(* Theorems about LeaveWorkflow, for every set of users, roles, requests,  *)
(* payloads and balances.                                                  *)
(***************************************************************************)
EXTENDS LeaveWorkflow, SetSums

-----------------------------------------------------------------------------
(* Arithmetic of one request and one balance.                              *)

LEMMA KeyOfRequest ==
  ASSUME NEW r \in Request PROVE KeyOf(r) \in BalanceKey
BY DEF BalanceKey

(* The number of days of a request, and so its charge, is an integer.      *)
LEMMA ChargeIsInt ==
  ASSUME NEW r \in Request PROVE Charge(r) \in Int /\ Days(r) \in Int
<1>1. /\ Draft[r].start_date \in Int
      /\ Draft[r].end_date \in Int
  BY LeaveAssumption DEF Payload, Day
<1>. QED  BY <1>1 DEF Charge, Days

(* Overlapping is symmetric.                                               *)
LEMMA OverlapSymmetric ==
  ASSUME NEW r \in Request, NEW q \in Request
  PROVE  Overlaps(r, q) <=> Overlaps(q, r)
BY DEF Overlaps, Employee

(* A payload merged into a row is a row.                                   *)
LEMMA MergeIsRow ==
  ASSUME setting \in Settings, NEW p \in Edit, NEW row \in BalanceRow
  PROVE  [f \in BalanceField |->
            IF f \in DOMAIN p THEN p[f] ELSE row[f]] \in BalanceRow
BY LeaveAssumption DEF BalanceRow, Edit

(* What a step is; its setting never changes and its deciders are users.   *)
LEMMA StepCases ==
  ASSUME setting \in Settings, [Next]_vars
  PROVE  /\ setting' = setting
         /\ \/ \E r \in Request :
                 \/ SubmitCheck(r) \/ SubmitInsert(r)
                 \/ CancelRead(r) \/ CancelWrite(r) \/ CancelStamp(r)
                 \/ \E u \in User :
                      Approve(u, r) \/ RejectRead(u, r) \/ RejectWrite(u, r)
            \/ \E k \in BalanceKey, p \in Edit : BalanceRead(k, p)
            \/ \E e \in editing : BalanceWrite(e)
            \/ \E t \in LeaveType : ToggleActive(t)
            \/ HandlerFails
            \/ UNCHANGED vars
<1>1. setting.deciders \subseteq User
  BY LeaveAssumption
<1>2. CASE UNCHANGED vars
  BY <1>2 DEF vars
<1>3. CASE Step /\ setting' = setting
  BY <1>1, <1>3 DEF Step
<1>. QED  BY <1>2, <1>3 DEF Next

-----------------------------------------------------------------------------
(* Type correctness.                                                       *)

LEMMA TypeOKInit == Init => TypeOK
<1>. SUFFICES ASSUME Init PROVE TypeOK
  OBVIOUS
<1>1. balance \in [BalanceKey -> BalanceRow]
  BY LeaveAssumption DEF Init, BalanceRow, BalanceField
<1>. QED  BY <1>1 DEF Init, TypeOK, Status

LEMMA TypeOKStep == TypeOK /\ [Next]_vars => TypeOK'
<1>. SUFFICES ASSUME TypeOK, [Next]_vars PROVE TypeOK'
  OBVIOUS
<1>0. setting' \in Settings
  BY StepCases DEF TypeOK
<1>1. ASSUME NEW r \in Request, SubmitCheck(r) PROVE TypeOK'
  BY <1>0, <1>1 DEF SubmitCheck, TypeOK, requestVars, balanceVars
<1>2. ASSUME NEW r \in Request, SubmitInsert(r) PROVE TypeOK'
  BY <1>0, <1>2, KeyOfRequest
  DEF SubmitInsert, SubmittedAs, TypeOK, Status
<1>3. ASSUME NEW u \in User, NEW r \in Request, Approve(u, r) PROVE TypeOK'
  <2>1. balance' \in [BalanceKey -> BalanceRow]
    <3>1. balance[KeyOf(r)] \in BalanceRow
      BY KeyOfRequest DEF TypeOK
    <3>2. Deduct(balance[KeyOf(r)]["used_days"], r) \in Int
      BY <3>1, ChargeIsInt DEF Deduct, BalanceRow, BalanceField
    <3>3. [balance[KeyOf(r)] EXCEPT
             !["used_days"] = Deduct(balance[KeyOf(r)]["used_days"], r)]
            \in BalanceRow
      BY <3>1, <3>2 DEF BalanceRow
    <3>. QED  BY <1>3, <3>3, KeyOfRequest DEF Approve, TypeOK
  <2>2. /\ status' \in [Request -> Status]
        /\ decided_by' \in [Request -> User \cup {NoUser}]
        /\ rows' \subseteq BalanceKey
    BY <1>3, KeyOfRequest DEF Approve, TypeOK, Status
  <2>. QED  BY <1>0, <1>3, <2>1, <2>2 DEF Approve, TypeOK, inFlight
<1>4. ASSUME NEW u \in User, NEW r \in Request, RejectRead(u, r) PROVE TypeOK'
  BY <1>0, <1>4 DEF RejectRead, TypeOK, requestVars, balanceVars
<1>5. ASSUME NEW u \in User, NEW r \in Request, RejectWrite(u, r) PROVE TypeOK'
  BY <1>0, <1>5 DEF RejectWrite, TypeOK, Status, balanceVars
<1>6. ASSUME NEW r \in Request, CancelRead(r) PROVE TypeOK'
  BY <1>0, <1>6 DEF CancelRead, TypeOK, requestVars, balanceVars
<1>7. ASSUME NEW r \in Request, CancelWrite(r) PROVE TypeOK'
  BY <1>0, <1>7 DEF CancelWrite, TypeOK, Status, balanceVars
<1>8. ASSUME NEW r \in Request, CancelStamp(r) PROVE TypeOK'
  <2>1. Employee(r) \in User
    BY LeaveAssumption DEF Employee, Payload
  <2>. QED  BY <1>0, <1>8, <2>1 DEF CancelStamp, TypeOK, balanceVars
<1>9. ASSUME NEW k \in BalanceKey, NEW p \in Edit, BalanceRead(k, p)
      PROVE TypeOK'
  <2>. DEFINE merged == [f \in BalanceField |->
                           IF f \in DOMAIN p THEN p[f] ELSE balance[k][f]]
              missing == k \notin rows
  <2>1. merged \in BalanceRow
    BY MergeIsRow DEF TypeOK
  <2>2. missing \in BOOLEAN
    OBVIOUS
  <2>3. editing' = editing \cup
                     {[key |-> k, row |-> merged, insert |-> missing]}
    BY <1>9 DEF BalanceRead
  <2>. HIDE DEF merged, missing
  <2>4. editing' \subseteq [key: BalanceKey, row: BalanceRow, insert: BOOLEAN]
    BY <2>1, <2>2, <2>3 DEF TypeOK
  <2>. QED
    BY <1>0, <1>9, <2>4 DEF BalanceRead, TypeOK, requestVars, balanceVars
<1>10. ASSUME NEW e \in editing, BalanceWrite(e) PROVE TypeOK'
  BY <1>0, <1>10 DEF BalanceWrite, TypeOK, requestVars
<1>11. ASSUME NEW t \in LeaveType, ToggleActive(t) PROVE TypeOK'
  BY <1>0, <1>11 DEF ToggleActive, TypeOK, requestVars, balanceVars, inFlight
<1>12. CASE HandlerFails
  BY <1>0, <1>12 DEF HandlerFails, TypeOK, requestVars, balanceVars
<1>13. CASE UNCHANGED vars
  BY <1>0, <1>13 DEF vars, TypeOK, requestVars, balanceVars, inFlight
<1>. QED
  BY <1>1, <1>2, <1>3, <1>4, <1>5, <1>6, <1>7, <1>8, <1>9, <1>10, <1>11,
     <1>12, <1>13, StepCases DEF TypeOK

(* Every reachable state of the leave component is well typed: statuses    *)
(* and deciders stay in their domains and balances stay integers.          *)
THEOREM LeaveTypes == Spec => []TypeOK
BY TypeOKInit, TypeOKStep, PTL DEF Spec

-----------------------------------------------------------------------------
(* What holds under every interleaving.                                    *)

(* No step of any handler turns a decided request into an approved one.    *)
LEMMA ApprovedOnceStep ==
  ASSUME TypeOK, [Next]_vars, NEW r \in Request
  PROVE  status'[r] = "approved" => status[r] \in {"pending", "approved"}
<1>1. ASSUME NEW q \in Request, NEW u \in User, Approve(u, q)
      PROVE  status'[r] = "approved" => status[r] \in {"pending", "approved"}
  BY <1>1 DEF Approve, Approvable, TypeOK
<1>2. ASSUME NEW q \in Request,
             \/ SubmitInsert(q) \/ CancelWrite(q)
             \/ \E u \in User : RejectWrite(u, q)
      PROVE  status'[r] = "approved" => status[r] \in {"pending", "approved"}
  BY <1>2 DEF SubmitInsert, SubmittedAs, CancelWrite, RejectWrite, TypeOK
<1>3. CASE UNCHANGED status
  BY <1>3
<1>. QED
  BY <1>1, <1>2, <1>3, StepCases
  DEF TypeOK, SubmitCheck, CancelRead, CancelStamp, RejectRead, BalanceRead,
      BalanceWrite, ToggleActive, HandlerFails, requestVars, vars

(* A request is approved at most once, so it is deducted at most once.     *)
THEOREM LeaveApprovedOnce == Spec => ApprovedOnce
<1>1. TypeOK /\ [Next]_vars =>
        [\A r \in Request :
           status'[r] = "approved" => status[r] \in {"pending", "approved"}]_vars
  BY ApprovedOnceStep
<1>. QED  BY <1>1, LeaveTypes, PTL DEF Spec, ApprovedOnce

(* The decider of an approved request is its approver: the late save of    *)
(* decided_by by a cancellation only ever hits requests already rejected   *)
(* or cancelled, which cannot become approved again.                       *)
DeciderInv == InsertedOnce /\ StampedIsDecided /\ ApprovedByApprover

LEMMA DeciderInvStep == TypeOK /\ DeciderInv /\ [Next]_vars => DeciderInv'
<1>. SUFFICES ASSUME TypeOK, DeciderInv, [Next]_vars PROVE DeciderInv'
  OBVIOUS
<1>. USE DEF DeciderInv, InsertedOnce, StampedIsDecided, ApprovedByApprover
<1>1. ASSUME NEW r \in Request, SubmitInsert(r) PROVE DeciderInv'
  BY <1>1 DEF SubmitInsert, SubmittedAs, TypeOK
<1>2. ASSUME NEW r \in Request, NEW u \in User, Approve(u, r)
      PROVE DeciderInv'
  BY <1>2 DEF Approve, Approvable, MayDecide, TypeOK, inFlight
<1>3. ASSUME NEW r \in Request, NEW u \in User, RejectWrite(u, r)
      PROVE DeciderInv'
  BY <1>3 DEF RejectWrite, TypeOK
<1>4. ASSUME NEW r \in Request, CancelWrite(r) PROVE DeciderInv'
  BY <1>4 DEF CancelWrite, TypeOK
<1>5. ASSUME NEW r \in Request, CancelStamp(r) PROVE DeciderInv'
  BY <1>5 DEF CancelStamp, TypeOK
<1>6. ASSUME NEW r \in Request, SubmitCheck(r) PROVE DeciderInv'
  BY <1>6 DEF SubmitCheck, requestVars
<1>7. ASSUME NEW r \in Request, CancelRead(r) PROVE DeciderInv'
  BY <1>7 DEF CancelRead, requestVars
<1>8. ASSUME NEW r \in Request, NEW u \in User, RejectRead(u, r)
      PROVE DeciderInv'
  BY <1>8 DEF RejectRead, Rejectable, requestVars
<1>9. ASSUME UNCHANGED requestVars, submitting' \subseteq submitting,
             rejecting' \subseteq rejecting,
             cancelling' \subseteq cancelling, stamping' \subseteq stamping
      PROVE DeciderInv'
  BY <1>9 DEF requestVars
<1>10. CASE HandlerFails
  BY <1>9, <1>10 DEF HandlerFails
<1>. QED
  BY <1>1, <1>2, <1>3, <1>4, <1>5, <1>6, <1>7, <1>8, <1>9, <1>10, StepCases
  DEF TypeOK, BalanceRead, BalanceWrite, ToggleActive, inFlight, vars

LEMMA DeciderInvariance == Spec => []DeciderInv
<1>1. Init => DeciderInv
  BY DEF Init, DeciderInv, InsertedOnce, StampedIsDecided, ApprovedByApprover
<1>. QED  BY <1>1, DeciderInvStep, LeaveTypes, PTL DEF Spec

(* Nobody's leave is approved by themselves or by an unentitled colleague. *)
THEOREM LeaveApprovedByApprover == Spec => []ApprovedByApprover
<1>1. DeciderInv => ApprovedByApprover
  BY DEF DeciderInv
<1>. QED  BY <1>1, DeciderInvariance, PTL

-----------------------------------------------------------------------------
(* The balance check under the row lock, when HR edits no balance.         *)
BalanceInv == NoOverdraft /\ (Edit = {} => editing = {})

LEMMA BalanceInvStep ==
  ASSUME TypeOK, BalanceInv, [Next]_vars
  PROVE  BalanceInv'
<1>. SUFFICES ASSUME Edit = {} PROVE BalanceInv'
  BY StepCases DEF TypeOK, BalanceInv, NoOverdraft, Edit
<1>. USE DEF BalanceInv
<1>1. ASSUME NEW r \in Request, NEW u \in User, Approve(u, r)
      PROVE  BalanceInv'
  <2>1. editing' = {}
    BY <1>1 DEF Approve, inFlight
  <2>2. ASSUME NEW k \in BalanceKey, k[2] \notin MayGoNegative
        PROVE  Remaining(k)' >= 0
    <3>1. CASE k # KeyOf(r)
      <4>1. balance'[k] = balance[k]
        BY <1>1, <3>1, KeyOfRequest DEF Approve, TypeOK
      <4>. QED  BY <2>2, <4>1 DEF NoOverdraft, Remaining
    <3>2. CASE k = KeyOf(r)
      <4>1. /\ balance[k]["allotted"] \in Int
            /\ balance[k]["used_days"] \in Int
        BY DEF TypeOK, BalanceRow, BalanceField
      <4>2. /\ balance'[k]["allotted"] = balance[k]["allotted"]
            /\ balance'[k]["used_days"] = balance[k]["used_days"] + Charge(r)
        BY <1>1, <3>2, KeyOfRequest
        DEF Approve, Deduct, TypeOK, BalanceRow, BalanceField
      <4>3. Draft[r].leave_type = k[2]
        BY <3>2 DEF KeyOf
      <4>4. Remaining(k) >= Charge(r)
        BY <1>1, <2>2, <3>2, <4>1, <4>3
        DEF Approve, CoversDeduction, Charge, NoOverdraft, Remaining
      <4>. QED
        BY <4>1, <4>2, <4>4, ChargeIsInt DEF Remaining
    <3>. QED  BY <3>1, <3>2
  <2>. QED  BY <2>1, <2>2 DEF NoOverdraft
<1>2. CASE UNCHANGED <<balance, editing>>
  BY <1>2 DEF NoOverdraft, Remaining
<1>. QED
  BY <1>1, <1>2, StepCases
  DEF TypeOK, SubmitCheck, SubmitInsert, RejectRead, RejectWrite, CancelRead,
      CancelWrite, CancelStamp, ToggleActive, HandlerFails, balanceVars,
      inFlight, vars

(* However approvals interleave, a balance that may not go negative does   *)
(* not, provided its allotment is not edited downwards (here: not at all). *)
THEOREM LeaveNoOverdraft == Spec => []NoOverdraft
<1>1. Init => BalanceInv
  BY LeaveAssumption
  DEF Init, BalanceInv, NoOverdraft, Remaining, BalanceField
<1>2. TypeOK /\ BalanceInv /\ [Next]_vars => BalanceInv'
  BY BalanceInvStep
<1>3. Spec => []BalanceInv
  BY <1>1, <1>2, LeaveTypes, PTL DEF Spec
<1>4. BalanceInv => NoOverdraft
  BY DEF BalanceInv
<1>. QED  BY <1>3, <1>4, PTL

-----------------------------------------------------------------------------
(* One handler at a time.                                                  *)

(* In-flight sets: starting needs an idle system, so they stay alone.      *)
LEMMA InFlightAloneStep ==
  ASSUME ~Overlapping, TypeOK, InFlightAlone, [Next]_vars
  PROVE  InFlightAlone'
<1>. USE DEF InFlightAlone
<1>2. ASSUME NEW r \in Request, SubmitCheck(r) PROVE InFlightAlone'
  BY <1>2 DEF SubmitCheck, MayStart, Idle
<1>3. ASSUME NEW r \in Request, NEW u \in User, RejectRead(u, r)
      PROVE InFlightAlone'
  BY <1>3 DEF RejectRead, MayStart, Idle
<1>4. ASSUME NEW r \in Request, CancelRead(r) PROVE InFlightAlone'
  BY <1>4 DEF CancelRead, MayStart, Idle
<1>5. ASSUME NEW k \in BalanceKey, NEW p \in Edit, BalanceRead(k, p)
      PROVE InFlightAlone'
  BY <1>5 DEF BalanceRead, MayStart, Idle
<1>6. ASSUME NEW r \in Request, CancelWrite(r) PROVE InFlightAlone'
  BY <1>6 DEF CancelWrite
<1>7. ASSUME submitting' \subseteq submitting, rejecting' \subseteq rejecting,
             cancelling' \subseteq cancelling, stamping' \subseteq stamping,
             editing' \subseteq editing
      PROVE  InFlightAlone'
  <2>1. \A r \in submitting' : submitting' = {r}
    BY <1>7
  <2>2. \A h \in rejecting' : rejecting' = {h}
    BY <1>7
  <2>3. \A r \in cancelling' : cancelling' = {r}
    BY <1>7
  <2>4. \A r \in stamping' : stamping' = {r}
    BY <1>7
  <2>5. \A e \in editing' : editing' = {e}
    BY <1>7
  <2>. QED  BY <1>7, <2>1, <2>2, <2>3, <2>4, <2>5
<1>8. CASE HandlerFails
  BY <1>7, <1>8 DEF HandlerFails
<1>. QED
  BY <1>2, <1>3, <1>4, <1>5, <1>6, <1>7, <1>8, StepCases
  DEF TypeOK, SubmitInsert, Approve, RejectWrite, CancelStamp, BalanceWrite,
      ToggleActive, inFlight, vars

(* The copy a handler works on still agrees with the database, and booked  *)
(* requests stay disjoint.                                                 *)
LEMMA CopiesCurrentStep ==
  ASSUME ~Overlapping, GrantsOnly, TypeOK, SerialInv, [Next]_vars
  PROVE  CopiesCurrent' /\ NoDoubleBooking'
<1>. USE DEF SerialInv, InFlightAlone, CopiesCurrent, NoDoubleBooking
<1>1. ASSUME NEW r \in Request, SubmitCheck(r)
      PROVE  CopiesCurrent' /\ NoDoubleBooking'
  BY <1>1
  DEF SubmitCheck, MayStart, Idle, requestVars, balanceVars, Live
<1>2. ASSUME NEW r \in Request, SubmitInsert(r)
      PROVE  CopiesCurrent' /\ NoDoubleBooking'
  <2>1. /\ submitting' = {} /\ rejecting' = {} /\ cancelling' = {}
        /\ editing' = {}
    BY <1>2 DEF SubmitInsert
  <2>2. \A q \in Request : Live(q)' => q = r \/ Live(q)
    BY <1>2 DEF SubmitInsert, SubmittedAs, TypeOK, Live
  <2>3. \A q \in Request : Live(q) => ~Overlaps(r, q) /\ ~Overlaps(q, r)
    BY <1>2, OverlapSymmetric DEF SubmitInsert
  <2>4. NoDoubleBooking'
    BY <2>2, <2>3 DEF Overlaps, Employee
  <2>. QED  BY <2>1, <2>4
<1>3. ASSUME NEW r \in Request, NEW u \in User, Approve(u, r)
      PROVE  CopiesCurrent' /\ NoDoubleBooking'
  <2>1. /\ submitting' = {} /\ rejecting' = {} /\ cancelling' = {}
        /\ editing' = {}
    BY <1>3 DEF Approve, MayStart, Idle, inFlight
  <2>2. \A q \in Request : Live(q)' => Live(q)
    BY <1>3 DEF Approve, Approvable, TypeOK, Live
  <2>. QED  BY <2>1, <2>2 DEF Overlaps, Employee
<1>4. ASSUME NEW r \in Request, NEW u \in User, RejectRead(u, r)
      PROVE  CopiesCurrent' /\ NoDoubleBooking'
  BY <1>4
  DEF RejectRead, Rejectable, MayStart, Idle, requestVars, balanceVars, Live
<1>5. ASSUME NEW r \in Request, NEW u \in User, RejectWrite(u, r)
      PROVE  CopiesCurrent' /\ NoDoubleBooking'
  <2>1. /\ submitting' = {} /\ rejecting' = {} /\ cancelling' = {}
        /\ editing' = {}
    BY <1>5 DEF RejectWrite
  <2>2. \A q \in Request : Live(q)' => Live(q)
    BY <1>5 DEF RejectWrite, TypeOK, Live
  <2>. QED  BY <2>1, <2>2 DEF Overlaps, Employee
<1>6. ASSUME NEW r \in Request, CancelRead(r)
      PROVE  CopiesCurrent' /\ NoDoubleBooking'
  BY <1>6 DEF CancelRead, MayStart, Idle, requestVars, balanceVars, Live
<1>7. ASSUME NEW r \in Request, CancelWrite(r)
      PROVE  CopiesCurrent' /\ NoDoubleBooking'
  <2>1. /\ submitting' = {} /\ rejecting' = {} /\ cancelling' = {}
        /\ editing' = {}
    BY <1>7 DEF CancelWrite
  <2>2. \A q \in Request : Live(q)' => Live(q)
    BY <1>7 DEF CancelWrite, TypeOK, Live
  <2>. QED  BY <2>1, <2>2 DEF Overlaps, Employee
<1>8. ASSUME NEW k \in BalanceKey, NEW p \in Edit, BalanceRead(k, p)
      PROVE  CopiesCurrent' /\ NoDoubleBooking'
  <2>1. /\ submitting' = {} /\ rejecting' = {} /\ cancelling' = {}
        /\ UNCHANGED <<status, balance>>
    BY <1>8 DEF BalanceRead, MayStart, Idle, requestVars, balanceVars
  <2>2. "used_days" \notin DOMAIN p
    BY DEF GrantsOnly, TypeOK, Edit
  <2>3. \A e \in editing' : /\ e.key = k
                            /\ e.row["used_days"] = balance[k]["used_days"]
    BY <1>8, <2>2 DEF BalanceRead, MayStart, Idle, BalanceField
  <2>. QED  BY <2>1, <2>3 DEF Live, Overlaps, Employee
<1>9. ASSUME NEW e \in editing, BalanceWrite(e)
      PROVE  CopiesCurrent' /\ NoDoubleBooking'
  <2>1. /\ submitting' = {} /\ rejecting' = {} /\ cancelling' = {}
        /\ editing' = {} /\ status' = status
    BY <1>9 DEF BalanceWrite, requestVars
  <2>. QED  BY <2>1 DEF Live, Overlaps, Employee
<1>10. ASSUME UNCHANGED <<status, balance>>,
              submitting' \subseteq submitting, rejecting' \subseteq rejecting,
              cancelling' \subseteq cancelling, editing' \subseteq editing
       PROVE  CopiesCurrent' /\ NoDoubleBooking'
  BY <1>10 DEF Live, Overlaps, Employee
<1>11. CASE HandlerFails
  BY <1>10, <1>11 DEF HandlerFails, requestVars, balanceVars
<1>. QED
  BY <1>1, <1>2, <1>3, <1>4, <1>5, <1>6, <1>7, <1>8, <1>9, <1>10, <1>11,
     StepCases
  DEF TypeOK, CancelStamp, ToggleActive, inFlight, balanceVars, requestVars,
      vars

LEMMA SerialInvariance == ASSUME GrantsOnly PROVE Spec => []SerialInv
<1>1. Init => SerialInv
  BY DEF Init, SerialInv, InFlightAlone, CopiesCurrent, NoDoubleBooking, Live
<1>2. TypeOK /\ SerialInv /\ [Next]_vars => SerialInv'
  <2>. SUFFICES ASSUME TypeOK, SerialInv, [Next]_vars, ~Overlapping'
                PROVE  InFlightAlone' /\ CopiesCurrent' /\ NoDoubleBooking'
    BY DEF SerialInv
  <2>1. ~Overlapping
    BY StepCases DEF TypeOK, Overlapping
  <2>. QED  BY <2>1, CopiesCurrentStep, InFlightAloneStep DEF SerialInv
<1>. QED  BY <1>1, <1>2, LeaveTypes, PTL DEF Spec

(* With one handler at a time nobody is booked twice for a day.            *)
THEOREM LeaveNoDoubleBooking ==
  ASSUME GrantsOnly PROVE Spec => []NoDoubleBooking
<1>1. SerialInv => NoDoubleBooking
  BY DEF SerialInv, NoDoubleBooking
<1>. QED  BY <1>1, SerialInvariance, PTL

-----------------------------------------------------------------------------
(* Refinement: each step of the code is a step of LeaveContract or leaves  *)
(* the statuses and the used days alone.                                   *)
LEMMA ContractStep ==
  ASSUME ~Overlapping, GrantsOnly, TypeOK, SerialInv, [Next]_vars
  PROVE  [Contract!Next]_<<status, UsedDays>>
<1>. USE DEF SerialInv, CopiesCurrent
<1>1. ASSUME NEW r \in Request, SubmitInsert(r) PROVE Contract!Next
  <2>1. Contract!Book(r)
    BY <1>1 DEF SubmitInsert, SubmittedAs, Contract!Book, Live, UsedDays
  <2>. QED  BY <2>1 DEF Contract!Next
<1>2. ASSUME NEW r \in Request, NEW u \in User, Approve(u, r)
      PROVE  Contract!Next
  <2>1. balance[KeyOf(r)] \in BalanceRow
    BY KeyOfRequest DEF TypeOK
  <2>2. \A k \in BalanceKey : balance'[k]["used_days"] =
          IF k = KeyOf(r) THEN balance[k]["used_days"] + Charge(r)
                          ELSE balance[k]["used_days"]
    BY <1>2, <2>1, KeyOfRequest
    DEF Approve, Deduct, TypeOK, BalanceRow, BalanceField
  <2>3. UsedDays' = [UsedDays EXCEPT ![KeyOf(r)] = @ + Charge(r)]
    BY <2>2, KeyOfRequest DEF UsedDays
  <2>4. Contract!Grant(r)
    BY <1>2, <2>3 DEF Approve, Approvable, Contract!Grant
  <2>. QED  BY <2>4 DEF Contract!Next
<1>3. ASSUME NEW r \in Request, NEW u \in User, RejectWrite(u, r)
      PROVE  Contract!Next
  <2>1. Contract!Decline(r)
    BY <1>3 DEF RejectWrite, Contract!Decline, UsedDays, balanceVars
  <2>. QED  BY <2>1 DEF Contract!Next
<1>4. ASSUME NEW r \in Request, CancelWrite(r) PROVE Contract!Next
  <2>1. Contract!Decline(r)
    BY <1>4 DEF CancelWrite, Contract!Decline, UsedDays, balanceVars
  <2>. QED  BY <2>1 DEF Contract!Next
<1>5. ASSUME NEW e \in editing, BalanceWrite(e)
      PROVE  UNCHANGED <<status, UsedDays>>
  <2>1. \A k \in BalanceKey :
          balance'[k]["used_days"] = balance[k]["used_days"]
    BY <1>5 DEF BalanceWrite, TypeOK
  <2>. QED  BY <1>5, <2>1 DEF BalanceWrite, requestVars, UsedDays
<1>6. ASSUME UNCHANGED <<status, balance>>
      PROVE  UNCHANGED <<status, UsedDays>>
  BY <1>6 DEF UsedDays
<1>. QED
  BY <1>1, <1>2, <1>3, <1>4, <1>5, <1>6, StepCases
  DEF TypeOK, SubmitCheck, RejectRead, CancelRead, CancelStamp, BalanceRead,
      ToggleActive, HandlerFails, requestVars, balanceVars, vars

(* With one handler at a time, and HR changing allotments only, the leave  *)
(* code implements the contract: free days, one decision, exact charge.    *)
THEOREM LeaveImplementsContract ==
  ASSUME GrantsOnly PROVE Spec => ImplementsContract
<1>1. Init => (~Overlapping => Contract!Init)
  BY DEF Init, Contract!Init, UsedDays, BalanceField
<1>2. TypeOK /\ SerialInv /\ [Next]_vars
        => [~Overlapping => Contract!Next]_<<status, UsedDays>>
  BY ContractStep
<1>. QED
  BY <1>1, <1>2, LeaveTypes, SerialInvariance, PTL
  DEF Spec, ImplementsContract

-----------------------------------------------------------------------------
(* What a balance owes: the charges of the requests approved on it.        *)
ApprovedIn(st) == {q \in Request : st[q] = "approved"}
ApprovedOn(st, k) == {q \in Request : st[q] = "approved" /\ KeyOf(q) = k}
Charges == [r \in Request |-> Charge(r)]
Owed(st, k) == SumFunctionOnSet(Charges, ApprovedOn(st, k))

(* What a request is charged is a number of days.                         *)
LEMMA ChargesAreInt ==
  ASSUME NEW r \in Request PROVE Charges[r] = Charge(r) /\ Charges[r] \in Int
BY ChargeIsInt DEF Charges

(* The approved requests of a balance are finitely many.                  *)
LEMMA ApprovedOnFinite ==
  ASSUME NEW st, IsFiniteSet(ApprovedIn(st)), NEW k
  PROVE  IsFiniteSet(ApprovedOn(st, k)) /\ ApprovedOn(st, k) \subseteq Request
<1>1. ApprovedOn(st, k) \subseteq ApprovedIn(st)
  BY DEF ApprovedOn, ApprovedIn
<1>. QED  BY <1>1, FS_Subset DEF ApprovedIn

(* The sum that the property names, over all requests with 0 for the      *)
(* others, is the sum over the approved ones.                             *)
LEMMA OwedIsSum ==
  ASSUME NEW st, IsFiniteSet(ApprovedIn(st)), NEW k
  PROVE  /\ Owed(st, k) \in Int
         /\ SumFunction([r \in {q \in Request :
                                  st[q] = "approved" /\ KeyOf(q) = k}
                           |-> Charge(r)]) = Owed(st, k)
<1>. DEFINE f == [r \in ApprovedOn(st, k) |-> Charge(r)]
<1>1. IsFiniteSet(ApprovedOn(st, k)) /\ ApprovedOn(st, k) \subseteq Request
  BY ApprovedOnFinite
<1>2. \A r \in ApprovedOn(st, k) : f[r] = Charges[r] /\ Charges[r] \in Int
  BY <1>1, ChargesAreInt
<1>3. SumFunction(f) = SumFunctionOnSet(f, ApprovedOn(st, k))
  <2>1. DOMAIN f = ApprovedOn(st, k)
    OBVIOUS
  <2>. HIDE DEF f
  <2>. QED  BY <2>1 DEF SumFunction
<1>4. SumFunction([r \in {q \in Request : st[q] = "approved" /\ KeyOf(q) = k}
                     |-> Charge(r)]) = SumFunction(f)
  BY DEF ApprovedOn
<1>. HIDE DEF f
<1>5. SumFunctionOnSet(f, ApprovedOn(st, k)) = Owed(st, k)
  BY <1>1, <1>2, SumSame DEF Owed
<1>6. Owed(st, k) \in Int
  BY <1>1, <1>2, SumIsInt DEF Owed
<1>. QED  BY <1>3, <1>4, <1>5, <1>6

(* An approval adds its charge to what its own balance owes and to no      *)
(* other.                                                                  *)
LEMMA ApproveOwes ==
  ASSUME TypeOK, IsFiniteSet(ApprovedIn(status)),
         NEW u \in User, NEW r \in Request, Approve(u, r)
  PROVE  /\ IsFiniteSet(ApprovedIn(status'))
         /\ \A k \in BalanceKey : Owed(status', k) =
              Owed(status, k) + IF k = KeyOf(r) THEN Charge(r) ELSE 0
<1>1. ApprovedIn(status') = ApprovedIn(status) \cup {r}
  BY DEF Approve, ApprovedIn, TypeOK
<1>2. IsFiniteSet(ApprovedIn(status'))
  BY <1>1, FS_AddElement
<1>3. ASSUME NEW k \in BalanceKey, k # KeyOf(r)
      PROVE  Owed(status', k) = Owed(status, k)
  <2>1. ApprovedOn(status', k) = ApprovedOn(status, k)
    BY <1>3 DEF Approve, TypeOK, ApprovedOn
  <2>. QED  BY <2>1 DEF Owed
<1>4. Owed(status', KeyOf(r)) = Owed(status, KeyOf(r)) + Charge(r)
  <2>. DEFINE S == ApprovedOn(status, KeyOf(r))
  <2>1. ApprovedOn(status', KeyOf(r)) = S \cup {r} /\ r \notin S
    BY DEF Approve, Approvable, TypeOK, ApprovedOn
  <2>2. /\ IsFiniteSet(S) /\ \A q \in S : Charges[q] \in Int
        /\ Charges[r] = Charge(r) /\ Charges[r] \in Int
    BY ApprovedOnFinite, ChargesAreInt
  <2>. HIDE DEF S
  <2>3. /\ SumFunctionOnSet(Charges, S \cup {r})
             = Charges[r] + SumFunctionOnSet(Charges, S)
        /\ SumFunctionOnSet(Charges, S) \in Int
    BY <2>1, <2>2, SumAdd, SumIsInt
  <2>. QED  BY <2>1, <2>2, <2>3 DEF Owed, S
<1>5. \A k \in BalanceKey : Owed(status, k) \in Int
  BY OwedIsSum
<1>. QED  BY <1>2, <1>3, <1>4, <1>5

(* A rejection or cancellation that overtakes an approval takes its        *)
(* request out of what its balance owes; the charge stays deducted.        *)
LEMMA DeclineOwes ==
  ASSUME IsFiniteSet(ApprovedIn(status)), NEW r \in Request,
         Charge(r) >= 0, ApprovedIn(status') = ApprovedIn(status) \ {r}
  PROVE  /\ IsFiniteSet(ApprovedIn(status'))
         /\ \A k \in BalanceKey : Owed(status', k) <= Owed(status, k)
<1>1. IsFiniteSet(ApprovedIn(status'))
  BY FS_Subset
<1>2. ASSUME NEW k \in BalanceKey
      PROVE  Owed(status', k) <= Owed(status, k)
  <2>. DEFINE S == ApprovedOn(status, k)
  <2>1. ApprovedOn(status', k) = S \ {r}
    BY DEF ApprovedOn, ApprovedIn
  <2>2. IsFiniteSet(S) /\ \A q \in S : Charges[q] \in Int
    BY ApprovedOnFinite, ChargesAreInt
  <2>3. Charges[r] = Charge(r) /\ Charges[r] \in Int
    BY ChargesAreInt
  <2>4. SumFunctionOnSet(Charges, S \ {r}) \in Int
    <3>1. IsFiniteSet(S \ {r}) /\ \A q \in S \ {r} : Charges[q] \in Int
      BY <2>2, FS_Subset
    <3>. HIDE DEF S
    <3>. QED  BY <3>1, SumIsInt
  <2>. HIDE DEF S
  <2>5. CASE r \in S
    <3>1. SumFunctionOnSet(Charges, S)
            = Charges[r] + SumFunctionOnSet(Charges, S \ {r})
      BY <2>2, <2>5, SumRemove
    <3>. QED  BY <2>1, <2>3, <2>4, <3>1 DEF Owed, S
  <2>6. CASE r \notin S
    <3>1. S \ {r} = S
      BY <2>6
    <3>. QED  BY <2>1, <2>4, <3>1 DEF Owed, S
  <2>. QED  BY <2>5, <2>6
<1>. QED  BY <1>1, <1>2

(* With no approved request nothing is owed.                              *)
LEMMA NothingOwed ==
  ASSUME Init
  PROVE  /\ IsFiniteSet(ApprovedIn(status))
         /\ \A k \in BalanceKey : /\ Owed(status, k) = 0
                                  /\ balance[k]["used_days"] = 0
<1>1. ApprovedIn(status) = {}
  BY DEF Init, ApprovedIn
<1>2. ASSUME NEW k \in BalanceKey PROVE Owed(status, k) = 0
  <2>1. ApprovedOn(status, k) = {}
    BY <1>1 DEF ApprovedOn, ApprovedIn
  <2>. QED  BY <2>1, SumOfNone DEF Owed
<1>3. \A k \in BalanceKey : balance[k]["used_days"] = 0
  BY DEF Init, BalanceField
<1>. QED  BY <1>1, <1>2, <1>3, FS_EmptySet

(* An approval charges its own balance, and no other.                     *)
LEMMA ApproveDeducts ==
  ASSUME TypeOK, NEW u \in User, NEW r \in Request, Approve(u, r)
  PROVE  \A k \in BalanceKey :
           /\ balance[k]["used_days"] \in Int
           /\ balance'[k]["used_days"] =
                balance[k]["used_days"] + IF k = KeyOf(r) THEN Charge(r) ELSE 0
<1>1. \A k \in BalanceKey : balance[k]["used_days"] \in Int
  BY DEF TypeOK, BalanceRow, BalanceField
<1>2. \A k \in BalanceKey : balance'[k]["used_days"] =
        IF k = KeyOf(r) THEN balance[k]["used_days"] + Charge(r)
                        ELSE balance[k]["used_days"]
  BY KeyOfRequest DEF Approve, Deduct, TypeOK, BalanceRow, BalanceField
<1>. QED  BY <1>1, <1>2

-----------------------------------------------------------------------------
(* One handler at a time: the used days are what the balance owes.         *)
ExactInv ==
  ~Overlapping =>
    /\ IsFiniteSet(ApprovedIn(status))
    /\ \A k \in BalanceKey : balance[k]["used_days"] = Owed(status, k)

(* Each step keeps every balance equal to what it started from less what  *)
(* is owed.                                                               *)
LEMMA ExactInvStep ==
  ASSUME TypeOK, SerialInv, ExactInv, [Next]_vars
  PROVE  ExactInv'
<1>. SUFFICES ASSUME ~Overlapping PROVE ExactInv'
  BY StepCases DEF TypeOK, ExactInv, Overlapping
<1>1. ASSUME NEW r \in Request, NEW u \in User, Approve(u, r)
      PROVE  ExactInv'
  BY <1>1, ApproveOwes, ApproveDeducts DEF ExactInv
<1>2. ASSUME ApprovedIn(status') = ApprovedIn(status),
             \A k \in BalanceKey :
               balance'[k]["used_days"] = balance[k]["used_days"]
      PROVE  ExactInv'
  <2>1. \A k \in BalanceKey : Owed(status', k) = Owed(status, k)
    BY <1>2 DEF Owed, ApprovedOn, ApprovedIn
  <2>. QED  BY <1>2, <2>1 DEF ExactInv
<1>3. ASSUME NEW r \in Request,
             \/ SubmitInsert(r) \/ CancelWrite(r)
             \/ \E u \in User : RejectWrite(u, r)
      PROVE  ApprovedIn(status') = ApprovedIn(status) /\ balance' = balance
  <2>1. /\ status[r] # "approved" /\ status'[r] # "approved"
        /\ status' = [status EXCEPT ![r] = status'[r]]
    BY <1>3
    DEF SubmitInsert, SubmittedAs, CancelWrite, RejectWrite, TypeOK,
        SerialInv, CopiesCurrent
  <2>2. balance' = balance
    BY <1>3 DEF SubmitInsert, CancelWrite, RejectWrite, balanceVars
  <2>. QED  BY <2>1, <2>2 DEF ApprovedIn, TypeOK
<1>4. ASSUME NEW e \in editing, BalanceWrite(e)
      PROVE  /\ status' = status
             /\ \A k \in BalanceKey :
                  balance'[k]["used_days"] = balance[k]["used_days"]
  BY <1>4 DEF BalanceWrite, TypeOK, SerialInv, CopiesCurrent, requestVars
<1>5. CASE UNCHANGED <<status, balance>>
  BY <1>2, <1>5
<1>. QED
  BY <1>1, <1>2, <1>3, <1>4, <1>5, StepCases
  DEF TypeOK, SubmitCheck, RejectRead, CancelRead, CancelStamp, BalanceRead,
      ToggleActive, HandlerFails, requestVars, balanceVars, vars

(* With one handler at a time, and HR changing allotments only, the used   *)
(* days of every balance are exactly the days of the approved paid         *)
(* requests booked on it, however many requests there are.                 *)
THEOREM LeaveBalanceMatchesApproved ==
  ASSUME GrantsOnly PROVE Spec => []BalanceMatchesApproved
<1>1. Init => ExactInv
  BY NothingOwed DEF ExactInv
<1>2. TypeOK /\ SerialInv /\ ExactInv /\ [Next]_vars => ExactInv'
  BY ExactInvStep
<1>3. Spec => []ExactInv
  BY <1>1, <1>2, LeaveTypes, SerialInvariance, PTL DEF Spec
<1>4. ExactInv => BalanceMatchesApproved
  BY OwedIsSum DEF ExactInv, BalanceMatchesApproved, ApprovedCharge
<1>. QED  BY <1>3, <1>4, PTL

-----------------------------------------------------------------------------
(* Any interleaving, when HR edits no balance: an approval's deduction is  *)
(* never lost.  A request that was submitted has at least one day.         *)
SubmittedLong ==
  \A r \in Request : status[r] # "absent" \/ r \in submitting => Days(r) >= 1

CoveredInv ==
  /\ SubmittedLong
  /\ Edit = {} =>
       /\ IsFiniteSet(ApprovedIn(status))
       /\ editing = {}
       /\ \A k \in BalanceKey : balance[k]["used_days"] >= Owed(status, k)

(* A request that was filed is for a day at least.                        *)
LEMMA SubmittedLongStep ==
  ASSUME TypeOK, InsertedOnce, SubmittedLong, [Next]_vars
  PROVE  SubmittedLong'
<1>. USE DEF SubmittedLong
<1>1. ASSUME NEW r \in Request, SubmitCheck(r) PROVE SubmittedLong'
  BY <1>1 DEF SubmitCheck, requestVars
<1>2. ASSUME NEW r \in Request, SubmitInsert(r) PROVE SubmittedLong'
  BY <1>2 DEF SubmitInsert, TypeOK
<1>3. ASSUME NEW r \in Request, NEW u \in User, Approve(u, r)
      PROVE  SubmittedLong'
  BY <1>3 DEF Approve, Approvable, TypeOK, inFlight
<1>4. ASSUME NEW r \in Request,
             CancelWrite(r) \/ \E u \in User : RejectWrite(u, r)
      PROVE  SubmittedLong'
  BY <1>4 DEF CancelWrite, RejectWrite, TypeOK, InsertedOnce
<1>5. CASE status' = status /\ submitting' \subseteq submitting
  BY <1>5
<1>. QED
  BY <1>1, <1>2, <1>3, <1>4, <1>5, StepCases
  DEF TypeOK, RejectRead, CancelRead, CancelStamp, BalanceRead, BalanceWrite,
      ToggleActive, HandlerFails, requestVars, inFlight, vars

(* Each step keeps every balance charged at least what it owes.           *)
LEMMA CoveredInvStep ==
  ASSUME TypeOK, InsertedOnce, CoveredInv, [Next]_vars
  PROVE  CoveredInv'
<1>1. SubmittedLong'
  BY SubmittedLongStep DEF CoveredInv
<1>. SUFFICES ASSUME Edit = {} PROVE CoveredInv'
  BY <1>1, StepCases DEF TypeOK, CoveredInv, Edit
<1>2. \A k \in BalanceKey : /\ balance[k]["used_days"] \in Int
                            /\ Owed(status, k) \in Int
  BY OwedIsSum DEF TypeOK, BalanceRow, BalanceField, CoveredInv
<1>3. ASSUME NEW r \in Request, NEW u \in User, Approve(u, r)
      PROVE  CoveredInv'
  <2>1. /\ IsFiniteSet(ApprovedIn(status'))
        /\ \A k \in BalanceKey : balance'[k]["used_days"] >= Owed(status', k)
    BY <1>2, <1>3, ApproveOwes, ApproveDeducts, ChargeIsInt DEF CoveredInv
  <2>2. editing' = {}
    BY <1>3 DEF Approve, inFlight, CoveredInv
  <2>. QED  BY <1>1, <2>1, <2>2 DEF CoveredInv
<1>4. ASSUME NEW r \in Request,
             CancelWrite(r) \/ \E u \in User : RejectWrite(u, r)
      PROVE  CoveredInv'
  <2>1. ApprovedIn(status') = ApprovedIn(status) \ {r}
    BY <1>4 DEF CancelWrite, RejectWrite, TypeOK, ApprovedIn
  <2>2. Charge(r) >= 0
    <3>1. status[r] # "absent"
      BY <1>4 DEF CancelWrite, RejectWrite, InsertedOnce
    <3>2. Days(r) >= 1 /\ Days(r) \in Int
      BY <3>1, ChargeIsInt DEF CoveredInv, SubmittedLong
    <3>. QED  BY <3>2 DEF Charge
  <2>3. /\ IsFiniteSet(ApprovedIn(status'))
        /\ \A k \in BalanceKey : Owed(status', k) <= Owed(status, k)
    BY <2>1, <2>2, DeclineOwes DEF CoveredInv
  <2>4. \A k \in BalanceKey : Owed(status', k) \in Int
    BY <2>3, OwedIsSum
  <2>5. balance' = balance /\ editing' = {}
    BY <1>4 DEF CancelWrite, RejectWrite, balanceVars, CoveredInv
  <2>. QED  BY <1>1, <1>2, <2>3, <2>4, <2>5 DEF CoveredInv
<1>5. CASE /\ ApprovedIn(status') = ApprovedIn(status)
           /\ balance' = balance /\ editing' = {}
  <2>1. \A k \in BalanceKey : Owed(status', k) = Owed(status, k)
    BY <1>5 DEF Owed, ApprovedOn, ApprovedIn
  <2>. QED  BY <1>1, <1>5, <2>1 DEF CoveredInv
<1>6. ASSUME NEW r \in Request, SubmitInsert(r) PROVE CoveredInv'
  <2>1. /\ ApprovedIn(status') = ApprovedIn(status)
        /\ balance' = balance /\ editing' = {}
    BY <1>6
    DEF SubmitInsert, SubmittedAs, TypeOK, InsertedOnce, ApprovedIn,
        CoveredInv
  <2>. QED  BY <1>5, <2>1
<1>7. CASE UNCHANGED <<status, balance>> /\ editing' \subseteq editing
  BY <1>5, <1>7 DEF CoveredInv
<1>8. editing = {}
  BY DEF CoveredInv
<1>. QED
  BY <1>3, <1>4, <1>6, <1>7, <1>8, StepCases
  DEF TypeOK, SubmitCheck, RejectRead, CancelRead, CancelStamp, ToggleActive,
      HandlerFails, requestVars, balanceVars, inFlight, vars

(* However submissions, approvals, rejections and cancellations overlap,   *)
(* an approved paid request has had its days deducted: no approval's       *)
(* deduction is lost to another one's.                                     *)
THEOREM LeaveApprovedIsCharged == Spec => []ApprovedIsCharged
<1>1. Init => CoveredInv
  BY NothingOwed DEF CoveredInv, SubmittedLong, Init
<1>2. TypeOK /\ DeciderInv /\ CoveredInv /\ [Next]_vars => CoveredInv'
  BY CoveredInvStep DEF DeciderInv
<1>3. Spec => []CoveredInv
  BY <1>1, <1>2, LeaveTypes, DeciderInvariance, PTL DEF Spec
<1>4. CoveredInv => ApprovedIsCharged
  BY OwedIsSum DEF CoveredInv, ApprovedIsCharged, ApprovedCharge
<1>. QED  BY <1>3, <1>4, PTL
=============================================================================
