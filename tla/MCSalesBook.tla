---------------------------- MODULE MCSalesBook -----------------------------
(* An invoice of up to two units, paid in units, and two clerks: either one *)
(* request at a time and every row deletable, with payments moved or not,   *)
(* or two at a time that fail anywhere, while journal entries stay.  And    *)
(* two sales of an item in stock, with its corrections and an expense: one  *)
(* request at a time that fails or not, or two at a time.                   *)
EXTENDS SalesBook, TLC

CONSTANTS i1, i2, c1, c2, p, x

Kind(overlapping, failing, moving, deletable) ==
  [overlapping |-> overlapping, failing |-> failing, moving |-> moving,
   deletable |-> deletable]
MCTrading == {Kind(FALSE, FALSE, FALSE, {}), Kind(FALSE, TRUE, FALSE, {}),
              Kind(TRUE, TRUE, FALSE, {})}
MCModes == MCTrading
  \cup {Kind(FALSE, FALSE, FALSE, {"invoice", "entry"}),
        Kind(FALSE, FALSE, TRUE, {"invoice", "entry"}),
        Kind(TRUE, TRUE, TRUE, {"invoice"})}
MCOpening == p :> 1
One == [item |-> p, quantity |-> 1]
MCBasket == {<<One>>, <<One, One>>}
Clerks == Permutations({c1, c2})
=============================================================================
