--------------------------- MODULE MCLeaveWorkflow ---------------------------
(* A company of one employee, one HR officer and one manager: three         *)
(* submissions by the employee and one by HR with one handler at a time, or *)
(* three by the employee and no edit with several.                          *)
EXTENDS LeaveWorkflow, TLC

CONSTANTS emp, hana, mona, r1, r2, r3, r4, r5, annual, unpaid

MCRoles == Restrict(
  emp :> {"employee"} @@ hana :> {"hr"} @@ mona :> {"manager"}, User)
MCManagerOf == Restrict(emp :> mona @@ hana :> mona @@ mona :> NoManager, User)
MCNoSeeds == [r \in Role |-> {}]
MCLeaveType == {annual, unpaid}
MCYearOf == [d \in 1..4 |-> IF d <= 3 THEN 2025 ELSE 2026]

Leave(e, t, from, to) ==
  [employee |-> e, leave_type |-> t, start_date |-> from, end_date |-> to]
(* r1, r2 and r5 overlap on day 2; r3 draws on the same balance as r1 and   *)
(* r5: it covers r1 and r5 together, but not r1 and r3.                     *)
MCDraft ==
  r1 :> Leave(emp, annual, 1, 2) @@ r2 :> Leave(emp, unpaid, 2, 3)
    @@ r3 :> Leave(emp, annual, 3, 4) @@ r4 :> Leave(hana, annual, 1, 1)
    @@ r5 :> Leave(emp, annual, 2, 2)
MCAllotment == [k \in BalanceKey |-> IF k[2] = unpaid THEN 0 ELSE
                                     IF k[1] = emp THEN 3 ELSE 1]
MCMaxDays == annual :> 2 @@ unpaid :> 0
MCSettings ==
  {[overlapping |-> FALSE, submits |-> {r1, r2, r3, r4}, deciders |-> User,
    edits |-> {"allotted" :> 4}],
   [overlapping |-> TRUE, submits |-> {r1, r3, r5}, deciders |-> {emp, mona},
    edits |-> {}]}
=============================================================================
