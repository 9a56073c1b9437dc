--------------------------- MODULE PayrollContract ---------------------------
(***************************************************************************)
(* What the payroll component promises: while a period is a draft all its  *)
(* runs are computed together, closing it posts their earnings once and    *)
(* approves them, and from then on a run can only be paid.                 *)
(***************************************************************************)
EXTENDS Integers, Sequences

CONSTANTS Payable,
          Billable   \* earnings a period may be closed with

VARIABLES period, run_status, earnings, entries

Init == /\ period \in {"draft", "locked"}
        /\ run_status = [e \in Payable |-> "none"]
        /\ earnings = [e \in Payable |-> 0]
        /\ entries = <<>>

Compute ==
  /\ period = "draft"
  /\ run_status' = [e \in Payable |-> "draft"]
  /\ earnings' \in [Payable -> Nat]
  /\ UNCHANGED <<period, entries>>

Pay(e) ==
  /\ run_status[e] \in {"draft", "approved"}
  /\ run_status' = [run_status EXCEPT ![e] = "paid"]
  /\ UNCHANGED <<period, earnings, entries>>

CloseEmpty ==
  /\ period = "draft"
  /\ \A e \in Payable : run_status[e] = "none"
  /\ period' = "locked"
  /\ UNCHANGED <<run_status, earnings, entries>>

Close ==
  /\ period = "draft"
  /\ earnings \in Billable
  /\ period' = "locked"
  /\ run_status' = [e \in Payable |-> "approved"]
  /\ entries' = <<earnings>>
  /\ UNCHANGED earnings

Next == Compute \/ CloseEmpty \/ Close \/ \E e \in Payable : Pay(e)

Spec == Init /\ [][Next]_<<period, run_status, earnings, entries>>
=============================================================================
