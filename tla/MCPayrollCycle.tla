--------------------------- MODULE MCPayrollCycle ----------------------------
(* One period and two employees: pay that may come out as zero and two lock *)
(* requests with one worker at a time, one lock request with several.       *)
EXTENDS PayrollCycle, TLC

CONSTANTS e1, e2, t1, t2, l1, l2

MCSettings ==
  {[overlapping |-> FALSE, amounts |-> {0, 2}, lockers |-> {l1, l2}],
   [overlapping |-> TRUE, amounts |-> {2}, lockers |-> {l1}]}
=============================================================================
