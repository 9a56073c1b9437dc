----------------------------- MODULE MCPayslips ------------------------------
(* A month of one day, so that it can be worked in full; one employee with  *)
(* a row for every way to count it, another paid by the day, on leave.      *)
EXTENDS Payslips

CONSTANTS e1, e2, d1
MCStarting == {k \in [Employee -> {"daily", "monthly", "commission"}] :
                 k[e1] # "daily" /\ k[e2] = "daily"}

Row(type, period, recurring, created) ==
  [type |-> type, period |-> period, recurring |-> recurring, created |-> created]
MCComponent ==
  [bonus |-> Row("earning", "this", FALSE, "in"),
   foreign |-> Row("earning", "other", FALSE, "in"),
   weekly |-> Row("earning", "within", FALSE, "in"),
   allowance |-> Row("earning", "none", TRUE, "before"),
   raise |-> Row("earning", "none", TRUE, "later"),
   leftover |-> Row("deduction", "none", FALSE, "in"),
   lastminute |-> Row("deduction", "none", FALSE, "last"),
   penalty |-> Row("deduction", "this", FALSE, "in")]
MCAction ==
  [penalty |-> [day |-> "in", span |-> "in", created |-> "in"],
   window |-> [day |-> "none", span |-> "in", created |-> "in"],
   spanning |-> [day |-> "none", span |-> "into", created |-> "in"],
   lastday |-> [day |-> "in", span |-> "none", created |-> "last"]]
MCLoan ==
  [loan |-> [type |-> "loan", starts |-> "before", active |-> TRUE, remaining |-> 9],
   advance |-> [type |-> "advance", starts |-> "in", active |-> TRUE, remaining |-> 2],
   nextadvance |-> [type |-> "advance", starts |-> "later", active |-> TRUE, remaining |-> 9],
   remainder |-> [type |-> "advance", starts |-> "in", active |-> TRUE, remaining |-> 1],
   repaid |-> [type |-> "advance", starts |-> "in", active |-> TRUE, remaining |-> 0],
   closed |-> [type |-> "advance", starts |-> "in", active |-> FALSE, remaining |-> 9]]
MCUnpaidLeave == [unpaid |-> 1]
MCCommission == {"commission"}
(* Two rows never cancel each other out.                                    *)
MCWorth ==
  [i \in DOMAIN MCComponent \cup DOMAIN MCAction \cup DOMAIN MCLoan
           \cup DOMAIN MCUnpaidLeave \cup MCCommission |->
     CASE i \in DOMAIN MCLoan -> 2 [] i \in DOMAIN MCAction -> 7
       [] i \in DOMAIN MCComponent -> 17 [] OTHER -> 41]
MCRows == [e \in Employee |-> IF e = e1 THEN Item ELSE {"unpaid"}]
(* A penalty and nothing else.                                              *)
MCPenalised == [e \in Employee |-> IF e = e1 THEN {"penalty"} ELSE {}]
=============================================================================
