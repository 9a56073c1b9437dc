------------------------------ MODULE SalesBook ------------------------------
(***************************************************************************)
(* The stock of the catalogue, the expenses and the sales that join both   *)
(* to the invoices: CatalogItemViewSet, ExpenseViewSet and record_sale in  *)
(* accounting/views.py, and accounting/services/expenses.py.               *)
(*                                                                         *)
(* A sale tests the stock on the copies that its lines were parsed to; one *)
(* transaction then makes its invoice, moves the stock from those copies,  *)
(* and books what the items have cost as an approved expense.  Corrections *)
(* of the stock and everything else that happens to an expense are         *)
(* statements that commit one by one.                                      *)
(*                                                                         *)
(* Items are products, sold for one each.  Their soft deletion, which only *)
(* stops further sales, is left out, and nobody deletes the entry of an    *)
(* expense.                                                                *)
(***************************************************************************)
EXTENDS InvoiceBook, FiniteSetsExt

CONSTANTS Item, Opening,  \* the stock entered with each item
          Quantity,       \* what is added or removed at a time
          Basket,         \* what is sold at a time: sequences of lines
          Expense,        \* expense ids of a behaviour
          Cost,           \* what an expense may amount to
          MaxStock,       \* bound on the stock by the transactions
          Trading,        \* the modes in which invoices are only sold ...
          Booked,         \* ... and the invoices of the other modes
          NoExpense

ASSUME SalesAssumption ==
  /\ Opening \in [Item -> Nat] /\ MaxStock \in Nat
  /\ Quantity \subseteq Nat \ {0} /\ Cost \subseteq Nat
  /\ Basket \subseteq Seq([item : Item, quantity : Nat \ {0}])
  /\ Trading \subseteq Modes /\ Booked \subseteq Invoice
  /\ Keep \notin {"draft", "approved"} /\ NoExpense \notin Expense

VARIABLES stock,    \* CatalogItem.stock_quantity
          ledger,   \* ghost: what was entered by hand last, and the sum of
                    \* the StockTransactions since
          doubled,  \* ghost: items sold on two lines of one sale
          expense,  \* Expense: status and amount
          booked,   \* the entries of each expense, oldest first
          desk      \* per clerk: the request under way and its copies

bookVars == <<invoiceVars, entries, job>>
stockVars == <<stock, ledger, doubled>>
expenseVars == <<expense, booked>>
salesVars == <<vars, stockVars, expenseVars, desk>>

Line == [item : Item, copy : Nat, quantity : Int]
DeskStep == {"none", "correct", "correct_log", "item_set", "item_keep", "sale",
             "check", "save", "approve", "look", "book"}
Desk == [at : DeskStep, lines : Seq(Line), expense : Expense \cup {NoExpense},
         status : {"draft", "approved"}, amount : Nat, found : BOOLEAN]
NoDesk == [at |-> "none", lines |-> <<>>, expense |-> NoExpense,
           status |-> "draft", amount |-> 0, found |-> FALSE]
Entry == [amount : Nat, posted : BOOLEAN]
NoRow == [status |-> "absent", amount |-> 0]

(* A ledger may run below zero where the stock does not.                   *)
SalesTypeOK ==
  /\ TypeOK
  /\ stock \in [Item -> Int] /\ ledger \in [Item -> Int] /\ doubled \subseteq Item
  /\ expense \in [Expense -> [status : {"absent", "draft", "approved"}, amount : Nat]]
  /\ booked \in [Expense -> Seq(Entry)]
  /\ desk \in [Clerk -> Desk]

SalesInit ==
  /\ Init
  /\ stock = Opening /\ ledger = Opening /\ doubled = {}
  /\ expense = [x \in Expense |-> NoRow]
  /\ booked = [x \in Expense |-> <<>>]
  /\ desk = [c \in Clerk |-> NoDesk]

Doing(c, step) == desk[c].at = step
MayTrade(c) == /\ mode \in Trading /\ Doing(c, "none")
               /\ mode.overlapping \/ \A d \in Clerk : Doing(d, "none")
Takes(c, request) == desk' = [desk EXCEPT ![c] = request]
GoesOn(c, step) == desk' = [desk EXCEPT ![c].at = step]
Leaves(c) == desk' = [desk EXCEPT ![c] = NoDesk]

-----------------------------------------------------------------------------
(* The stock                                                               *)
Copied(p, q) == [item |-> p, copy |-> stock[p], quantity |-> q]

(* mutant: no test                                                         *)
AvailableAlways(p, q) == TRUE
Available(p, q) == stock[p] >= q

(* add_stock, and remove_stock with a negative q (bound: MaxStock)         *)
Correct(c, p, q) ==
  /\ MayTrade(c)
  /\ stock[p] + q <= MaxStock /\ ledger[p] + q \in (0 - MaxStock)..MaxStock
  /\ q < 0 => Available(p, -q)
  /\ Takes(c, [NoDesk EXCEPT !.at = "correct", !.lines = <<Copied(p, q)>>])
  /\ UNCHANGED <<stockVars, expenseVars>>

CorrectSave(c) ==
  LET line == desk[c].lines[1] IN
  /\ Doing(c, "correct")
  /\ stock' = [stock EXCEPT ![line.item] = line.copy + line.quantity]
  /\ GoesOn(c, "correct_log")
  /\ UNCHANGED <<ledger, doubled, expenseVars>>

(* mutant: removed stock is recorded as added                              *)
DeltaUnsigned(q) == IF q < 0 THEN -q ELSE q
Delta(q) == q

CorrectLog(c) ==
  LET line == desk[c].lines[1] IN
  /\ Doing(c, "correct_log")
  /\ ledger' = [ledger EXCEPT ![line.item] = @ + Delta(line.quantity)]
  /\ Leaves(c)
  /\ UNCHANGED <<stock, doubled, expenseVars>>

(* An edit of the item enters a quantity by hand, which no transaction     *)
(* says, or writes back that of its copy.                                  *)
EditItem(c, p, n) ==
  /\ MayTrade(c)
  /\ Takes(c, [NoDesk EXCEPT !.at = IF n = Keep THEN "item_keep" ELSE "item_set",
                 !.lines = <<IF n = Keep THEN Copied(p, 0)
                             ELSE [Copied(p, 0) EXCEPT !.copy = n]>>])
  /\ UNCHANGED <<stockVars, expenseVars>>

EditItemSave(c) ==
  LET line == desk[c].lines[1] IN
  /\ Doing(c, "item_set") \/ Doing(c, "item_keep")
  /\ stock' = [stock EXCEPT ![line.item] = line.copy]
  /\ ledger' = IF Doing(c, "item_set") THEN [ledger EXCEPT ![line.item] = line.copy]
               ELSE ledger
  /\ Leaves(c)
  /\ UNCHANGED <<doubled, expenseVars>>

-----------------------------------------------------------------------------
(* Expenses.  perform_update tests the status of a copy of its own, saves  *)
(* that of the serializer, and leaves an approved expense alone.           *)
ThereIs(x) == expense[x].status # "absent"
NewExpense(x) ==
  ~ThereIs(x) /\ booked[x] = <<>> /\ \A c \in Clerk : desk[c].expense # x
EntryOf(s, m) == [amount |-> m, posted |-> s = "approved"]
OfExpense(step, x, s, m) ==
  [NoDesk EXCEPT !.at = step, !.expense = x, !.status = s, !.amount = m]

CreateExpense(c, x, s, m) ==
  /\ MayTrade(c) /\ NewExpense(x)
  /\ expense' = [expense EXCEPT ![x] = [status |-> s, amount |-> m]]
  /\ Takes(c, OfExpense("look", x, s, m))
  /\ UNCHANGED <<stockVars, booked>>

EditExpense(c, x, s, m) ==
  /\ MayTrade(c) /\ ThereIs(x)
  /\ Takes(c, OfExpense("check", x, IF s = Keep THEN expense[x].status ELSE s,
                        IF m = Keep THEN expense[x].amount ELSE m))
  /\ UNCHANGED <<stockVars, expenseVars>>

(* mutant: an approved expense is edited as well                           *)
EditableAlways(x) == ThereIs(x)
Editable(x) == expense[x].status = "draft"

EditExpenseCheck(c) ==
  /\ Doing(c, "check") /\ Editable(desk[c].expense)
  /\ GoesOn(c, "save")
  /\ UNCHANGED <<stockVars, expenseVars>>

(* Every column is saved, and the row made again if it is gone.            *)
EditExpenseSave(c) ==
  /\ Doing(c, "save")
  /\ expense' = [expense EXCEPT ![desk[c].expense] =
                   [status |-> desk[c].status, amount |-> desk[c].amount]]
  /\ GoesOn(c, "look")
  /\ UNCHANGED <<stockVars, booked>>

ApproveExpense(c, x) ==
  /\ MayTrade(c) /\ expense[x].status = "draft"
  /\ Takes(c, OfExpense("approve", x, "approved", expense[x].amount))
  /\ UNCHANGED <<stockVars, expenseVars>>

ApproveSave(c) ==
  /\ Doing(c, "approve") /\ ThereIs(desk[c].expense)
  /\ expense' = [expense EXCEPT ![desk[c].expense].status = "approved"]
  /\ GoesOn(c, "look")
  /\ UNCHANGED <<stockVars, booked>>

(* ensure_expense_journal_entry refuses zero, looks for the entry and then *)
(* refreshes or makes it.                                                  *)
BookExpenseLook(c) ==
  /\ Doing(c, "look") /\ desk[c].amount > 0
  /\ desk' = [desk EXCEPT ![c].at = "book",
                          ![c].found = booked[desk[c].expense] # <<>>]
  /\ UNCHANGED <<stockVars, expenseVars>>

BookExpense(c) ==
  LET e == EntryOf(desk[c].status, desk[c].amount) IN
  /\ Doing(c, "book")
  /\ booked' = [booked EXCEPT ![desk[c].expense] =
                  IF desk[c].found THEN [@ EXCEPT ![1] = e] ELSE Append(@, e)]
  /\ Leaves(c)
  /\ UNCHANGED <<stockVars, expense>>

(* Its entry stays.                                                        *)
DeleteExpense(c, x) ==
  /\ MayTrade(c) /\ ThereIs(x)
  /\ expense' = [expense EXCEPT ![x] = NoRow]
  /\ UNCHANGED <<stockVars, booked, desk>>

-----------------------------------------------------------------------------
(* record_sale, in the modes of Trading (bound: without a payment, that of *)
(* InvoiceBook has one)                                                    *)
OfItem(ls, p) == {k \in DOMAIN ls : ls[k].item = p}
Sold(ls, ks) == SumFunctionOnSet([k \in DOMAIN ls |-> ls[k].quantity], ks)

(* All its items are read at once, and found in stock; in the code one by  *)
(* one, and their stock is compared when the last is read.                 *)
SaleRead(c, b) ==
  /\ MayTrade(c)
  /\ \A k \in DOMAIN b : Available(b[k].item, b[k].quantity)
  /\ Takes(c, [NoDesk EXCEPT !.at = "sale",
                 !.lines = [k \in DOMAIN b |-> Copied(b[k].item, b[k].quantity)]])
  /\ UNCHANGED <<stockVars, expenseVars>>

(* Each line saves the stock its own copy had less what it sells, so that  *)
(* of two lines of an item only the later counts.                          *)
Rest(ls, p) ==
  LET latest == {k \in OfItem(ls, p) : \A n \in OfItem(ls, p) : n <= k}
      k == CHOOSE k \in latest : TRUE
  IN IF latest = {} THEN stock[p] ELSE ls[k].copy - ls[k].quantity

SaleCommit(c, i, x, cost) ==
  LET ls == desk[c].lines
      worth == Sold(ls, DOMAIN ls) IN
  /\ Doing(c, "sale") /\ worth \in Price
  /\ Sale(c, i, worth, 0)
  /\ stock' = [p \in Item |-> Rest(ls, p)]
  /\ ledger' = [p \in Item |-> ledger[p] - Sold(ls, OfItem(ls, p))]
  /\ doubled' = doubled \cup {p \in Item : Cardinality(OfItem(ls, p)) > 1}
  /\ IF cost = 0 THEN UNCHANGED expenseVars
     ELSE /\ NewExpense(x)
          /\ expense' = [expense EXCEPT ![x] = [status |-> "approved", amount |-> cost]]
          /\ booked' = [booked EXCEPT ![x] = <<EntryOf("approved", cost)>>]
  /\ Leaves(c)

(* A sale may also be refused, for its number or its payment.              *)
Denied(c) ==
  \/ Doing(c, "sale")
  \/ Doing(c, "check") /\ ~Editable(desk[c].expense)
  \/ Doing(c, "approve") /\ ~ThereIs(desk[c].expense)
  \/ Doing(c, "look") /\ desk[c].amount = 0

TradeFails(c) ==
  /\ ~Doing(c, "none") /\ (mode.failing \/ Denied(c))
  /\ Leaves(c)
  /\ UNCHANGED <<stockVars, expenseVars>>

-----------------------------------------------------------------------------
(* In the other modes sales are of services that have cost nothing.        *)
InvoiceStep(c) ==
  /\ mode \notin Trading
  /\ ClerkStep(c)
  /\ \A i \in Invoice \ Booked : status'[i] = status[i]
  /\ UNCHANGED <<stockVars, expenseVars, desk>>

Payable == {"draft", "approved"}
DeskSteps(c) ==
  \/ CorrectSave(c) \/ CorrectLog(c) \/ EditItemSave(c)
  \/ EditExpenseCheck(c) \/ EditExpenseSave(c) \/ ApproveSave(c)
  \/ BookExpenseLook(c) \/ BookExpense(c)
  \/ TradeFails(c)
  \/ \E b \in Basket : SaleRead(c, b)
  \/ \E p \in Item :
       \/ \E q \in Quantity : Correct(c, p, q) \/ Correct(c, p, -q)
       \/ \E n \in Quantity \cup {0, Keep} : EditItem(c, p, n)
  \/ \E x \in Expense :
       \/ ApproveExpense(c, x) \/ DeleteExpense(c, x)
       \/ \E s \in Payable, m \in Cost : CreateExpense(c, x, s, m)
       \/ \E s \in Payable \cup {Keep}, m \in Cost \cup {Keep} : EditExpense(c, x, s, m)

SalesNext ==
  /\ UNCHANGED mode
  /\ \E c \in Clerk :
       \/ InvoiceStep(c)
       \/ DeskSteps(c) /\ UNCHANGED bookVars
       \/ \E i \in Invoice, x \in Expense, cost \in Cost :
            SaleCommit(c, i, x, cost)

SalesSpec == SalesInit /\ [][SalesNext]_salesVars

-----------------------------------------------------------------------------
(* However stale the copies are that sales, corrections and edits write    *)
(* back, no item is ever shown with less than nothing.                     *)
StockNeverNegative == \A p \in Item : stock[p] >= 0

(* With one request at a time, none of which fails, the stock of an item   *)
(* is what was entered by hand last and what was moved since, unless it    *)
(* was sold on two lines of one sale.                                      *)
StockIsRecorded ==
  OneByOne /\ (\A c \in Clerk : ~Doing(c, "correct_log")) =>
    \A p \in Item \ doubled : stock[p] = ledger[p]

(* With one request at a time, wherever it fails, money is booked for an   *)
(* expense only once it is approved, and as much as it says; and if none   *)
(* fails every approved expense is booked, once.                           *)
BookedAsApproved(x) ==
  \A k \in DOMAIN booked[x] :
    booked[x][k].posted => booked[x][k] = EntryOf(expense[x].status, expense[x].amount)
ApprovedIsBooked(x) ==
  expense[x].status = "approved" /\ expense[x].amount > 0 => Len(booked[x]) = 1 /\ booked[x][1].posted
ExpenseIsBooked ==
  ~mode.overlapping =>
    \A x \in Expense : ThereIs(x) =>
      /\ BookedAsApproved(x)
      /\ ~mode.failing /\ (\A c \in Clerk : desk[c].expense # x) => ApprovedIsBooked(x)
=============================================================================
