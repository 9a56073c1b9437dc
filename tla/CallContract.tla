---------------------------- MODULE CallContract ----------------------------
(***************************************************************************)
(* What a page of the web client may expect of a call to the API: the      *)
(* promise it holds is answered once, by success or by failure, unless the *)
(* document is replaced first.                                             *)
(***************************************************************************)
CONSTANT Call

VARIABLE promise   \* per call: what the page that made it knows

Settled == {"resolved", "rejected"}

Init == promise = [c \in Call |-> "none"]

Make(c) ==
  /\ promise[c] # "pending"
  /\ promise' = [promise EXCEPT ![c] = "pending"]

(* The failure of one refresh answers every call that waits for it.        *)
Settle(cs) ==
  /\ \A c \in cs : promise[c] = "pending"
  /\ promise' \in [Call -> Settled \cup {"none", "pending"}]
  /\ \A c \in Call : IF c \in cs THEN promise'[c] \in Settled
                                 ELSE promise'[c] = promise[c]

Replace == promise' = [c \in Call |-> "none"]

Next == (\E c \in Call : Make(c)) \/ (\E cs \in SUBSET Call : Settle(cs)) \/ Replace

Spec == /\ Init /\ [][Next]_promise
        /\ \A c \in Call : (promise[c] = "pending") ~> (promise[c] # "pending")
=============================================================================
