-------------------------- MODULE MCAttendanceBook --------------------------
(* One employee, one account that decides, two days, two requests.         *)
EXTENDS AttendanceBook, TLC

CONSTANTS bo, hr, r1, r2

MCRequests == Permutations({r1, r2})

Both(race, penalty) == [racing |-> race, policy |-> [rule \in Rule |-> penalty]]
MCSettings == {Both(FALSE, "warning"), Both(FALSE, "deduction"),
               Both(TRUE, "warning")}
=============================================================================
