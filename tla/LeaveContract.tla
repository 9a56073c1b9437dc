---------------------------- MODULE LeaveContract ----------------------------
(***************************************************************************)
(* What the leave component promises its users: a request is booked only   *)
(* on free days, is decided once, and costs its account its charge exactly *)
(* when it is granted.                                                     *)
(***************************************************************************)
EXTENDS Integers

CONSTANTS Request, Account,
          AccountOf, \* the account a request is charged to
          ChargeOf,  \* the days it is charged when granted
          Conflict   \* pairs of requests that book a common day

VARIABLES status, used

Init == /\ status = [r \in Request |-> "absent"]
        /\ used = [a \in Account |-> 0]

Book(r) ==
  /\ status[r] = "absent"
  /\ \A q \in Request :
       status[q] \in {"pending", "approved"} => <<r, q>> \notin Conflict
  /\ status' = [status EXCEPT ![r] = "pending"]
  /\ UNCHANGED used

Grant(r) ==
  /\ status[r] = "pending"
  /\ status' = [status EXCEPT ![r] = "approved"]
  /\ used' = [used EXCEPT ![AccountOf[r]] = @ + ChargeOf[r]]

Decline(r) ==
  /\ status[r] = "pending"
  /\ \E verdict \in {"rejected", "cancelled"} :
       status' = [status EXCEPT ![r] = verdict]
  /\ UNCHANGED used

Next == \E r \in Request : Book(r) \/ Grant(r) \/ Decline(r)

Spec == Init /\ [][Next]_<<status, used>>
=============================================================================
