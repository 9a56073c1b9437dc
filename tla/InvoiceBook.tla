----------------------------- MODULE InvoiceBook -----------------------------
(***************************************************************************)
(* Invoices, their lines, their payments and their journal entries:        *)
(* InvoiceViewSet and PaymentSerializer (accounting/views.py,              *)
(* accounting/serializers.py), accounting/services/invoices.py and         *)
(* payments.py.                                                            *)
(*                                                                         *)
(* Creating and editing an invoice run outside any transaction: each of    *)
(* their statements commits by itself.  Issuing and paying are             *)
(* transactions, but work on the copy of the invoice that the view or the  *)
(* serializer loaded before.                                               *)
(***************************************************************************)
EXTENDS Integers, Sequences

CONSTANTS Invoice,     \* invoice ids of a behaviour
          Price,       \* what the lines of an invoice may sum up to
          Amount,      \* what a payment may amount to
          Clerk,       \* the requests under way at a time
          MaxPaid,     \* bound: no payment once this much has been paid
          Modes,       \* how the requests of a behaviour may run, see Mode
          NoLines, Keep, NoInvoice

(* In a behaviour several requests may be under way at a time and end      *)
(* between two statements, or not; payments are moved from one invoice to  *)
(* another, or not; and some of the rows are deleted.                      *)
Mode == [overlapping: BOOLEAN, failing: BOOLEAN, moving: BOOLEAN,
         deletable: SUBSET {"invoice", "entry"}]

ASSUME InvoiceAssumption ==
  /\ Price \subseteq Nat
  /\ Amount \subseteq Nat \ {0}
  /\ MaxPaid \in Nat
  /\ Modes \subseteq Mode
  /\ NoLines \notin Nat /\ Keep \notin Nat /\ NoInvoice \notin Invoice

VARIABLES status,  \* Invoice.status, "absent" before and after its life
          total,   \* Invoice.total_amount
          lines,   \* the sum of its lines, NoLines if it has none
          paid,    \* the sum of the payments that refer to it
          entries, \* the credits of its POSTED entries, oldest first
          gone,    \* invoices that were deleted
          job,     \* per clerk: the request under way and its copies
          mode     \* the mode of the behaviour, which never changes

invoiceVars == <<status, total, lines, paid, gone>>
vars == <<invoiceVars, entries, job, mode>>

Status == {"absent", "draft", "issued", "partially_paid", "paid"}
Step == {"none", "create", "edit", "edit_lines", "edit_save", "edit_check",
         "edit_book", "issue", "pay", "pay_open"}
Job == [at: Step, inv: Invoice \cup {NoInvoice}, status: Status,
        total: Nat \cup {Keep}, amount: Nat, found: BOOLEAN]
NoJob == [at |-> "none", inv |-> NoInvoice, status |-> "absent",
          total |-> 0, amount |-> 0, found |-> FALSE]

(* Every variable has the values its column or its request can hold: no    *)
(* total is NULL, not even that of an invoice whose lines were never made.  *)
TypeOK ==
  /\ status \in [Invoice -> Status]
  /\ total \in [Invoice -> Nat]
  /\ lines \in [Invoice -> Nat \cup {NoLines}]
  /\ paid \in [Invoice -> Nat]
  /\ entries \in [Invoice -> Seq(Nat)]
  /\ gone \subseteq Invoice
  /\ job \in [Clerk -> Job]
  /\ mode \in Modes

Init ==
  /\ status = [i \in Invoice |-> "absent"]
  /\ total = [i \in Invoice |-> 0]
  /\ lines = [i \in Invoice |-> NoLines]
  /\ paid = [i \in Invoice |-> 0]
  /\ entries = [i \in Invoice |-> <<>>]
  /\ gone = {}
  /\ job = [c \in Clerk |-> NoJob]
  /\ mode \in Modes

Exists(i) == status[i] # "absent"
New(i) == ~Exists(i) /\ i \notin gone
At(c, step) == job[c].at = step
MayStart(c) == /\ At(c, "none")
               /\ mode.overlapping \/ \A d \in Clerk : At(d, "none")
Next_step(c, step) == job' = [job EXCEPT ![c].at = step]
Done(c) == job' = [job EXCEPT ![c] = NoJob]

-----------------------------------------------------------------------------
(* InvoiceSerializer.create: the row, then its lines, which join the ones  *)
(* that an edit may have made in between                                   *)
Joined(i, t) == IF lines[i] = NoLines THEN t ELSE lines[i] + t

CreateRow(c, i, t) ==
  /\ MayStart(c) /\ New(i)
  /\ status' = [status EXCEPT ![i] = "draft"]
  /\ total' = [total EXCEPT ![i] = t]
  /\ job' = [job EXCEPT ![c] = [NoJob EXCEPT !.at = "create", !.inv = i,
                                             !.total = t]]
  /\ UNCHANGED <<lines, paid, gone, entries>>

CreateLines(c) ==
  /\ At(c, "create") /\ Exists(job[c].inv)
  /\ lines' = [lines EXCEPT ![job[c].inv] = Joined(job[c].inv, job[c].total)]
  /\ Done(c)
  /\ UNCHANGED <<status, total, paid, gone, entries>>

-----------------------------------------------------------------------------
(* ensure_invoice_journal_entry: the oldest entry of the invoice is        *)
(* brought up to date, or one is made.                                     *)
(* mutant: an existing entry is not looked for                             *)
BookAgain(es, amount) == Append(es, amount)
Book(es, amount) ==
  IF es = <<>> THEN <<amount>> ELSE [es EXCEPT ![1] = amount]

(* The check constraint on JournalLine refuses an amount of zero.          *)
Bookable(amount) == amount > 0

-----------------------------------------------------------------------------
(* InvoiceViewSet.issue                                                    *)
(* mutant: an invoice may be issued whatever its status                    *)
IssuableAlways(i) == Exists(i)
Issuable(i) == status[i] = "draft"

(* The lines are looked for after the status is read; here at once.        *)
IssueRead(c, i) ==
  /\ MayStart(c)
  /\ Issuable(i) /\ lines[i] # NoLines
  /\ job' = [job EXCEPT ![c] = [NoJob EXCEPT !.at = "issue", !.inv = i,
                                             !.total = total[i]]]
  /\ UNCHANGED <<invoiceVars, entries>>

(* mutant: the status is saved, the journal is left to somebody else       *)
BookLater(es, amount) == es
BookOnIssue(es, amount) == Book(es, amount)

(* The UPDATE of the status locks the row before the entry is looked for,  *)
(* so two of these transactions run one after the other.                   *)
IssueWrite(c) ==
  LET i == job[c].inv IN
  /\ At(c, "issue") /\ Exists(i)
  /\ Bookable(job[c].total)
  /\ status' = [status EXCEPT ![i] = "issued"]
  /\ entries' = [entries EXCEPT ![i] = BookOnIssue(@, job[c].total)]
  /\ Done(c)
  /\ UNCHANGED <<total, lines, paid, gone>>

-----------------------------------------------------------------------------
(* InvoiceSerializer.update and perform_update                             *)
EditRead(c, i, t) ==
  /\ MayStart(c) /\ Exists(i)
  /\ job' = [job EXCEPT ![c] = [NoJob EXCEPT !.at = "edit", !.inv = i,
                                  !.status = status[i], !.total = t]]
  /\ UNCHANGED <<invoiceVars, entries>>

SumOf(i) == IF lines[i] = NoLines THEN 0 ELSE lines[i]

(* A payload without lines recomputes the total from the present ones; the *)
(* tax is counted among them.                                              *)
EditKeep(c) ==
  LET i == job[c].inv IN
  /\ At(c, "edit") /\ job[c].total = Keep
  /\ job' = [job EXCEPT ![c].at = "edit_save",
                        ![c].total = SumOf(i)]
  /\ UNCHANGED <<invoiceVars, entries>>

EditDropLines(c) ==
  /\ At(c, "edit") /\ job[c].total # Keep
  /\ lines' = [lines EXCEPT ![job[c].inv] = NoLines]
  /\ Next_step(c, "edit_lines")
  /\ UNCHANGED <<status, total, paid, gone, entries>>

EditNewLines(c) ==
  /\ At(c, "edit_lines") /\ Exists(job[c].inv)
  /\ lines' = [lines EXCEPT ![job[c].inv] = Joined(job[c].inv, job[c].total)]
  /\ Next_step(c, "edit_save")
  /\ UNCHANGED <<status, total, paid, gone, entries>>

(* mutant: an edited invoice is a draft again                              *)
SavedAsDraft(s) == "draft"
SavedAs(s) == s

(* save() writes every column, the status of the copy included, and inserts *)
(* the row again if it was deleted in the meantime.                        *)
EditSave(c) ==
  LET i == job[c].inv IN
  /\ At(c, "edit_save")
  /\ gone' = gone \ {i}
  /\ status' = [status EXCEPT ![i] = SavedAs(job[c].status)]
  /\ total' = [total EXCEPT ![i] = job[c].total]
  /\ IF job[c].status = "issued" THEN Next_step(c, "edit_check") ELSE Done(c)
  /\ UNCHANGED <<lines, paid, entries>>

EditCheck(c) ==
  /\ At(c, "edit_check")
  /\ job' = [job EXCEPT ![c].at = "edit_book",
                        ![c].found = entries[job[c].inv] # <<>>]
  /\ UNCHANGED <<invoiceVars, entries>>

(* mutant: only the entry's head is refreshed, its line is not             *)
RefreshHead(es, amount) == es
Refresh(es, amount) == [es EXCEPT ![1] = amount]

EditBook(c) ==
  LET i == job[c].inv IN
  /\ At(c, "edit_book") /\ Bookable(job[c].total)
  /\ job[c].found => entries[i] # <<>>
  /\ entries' = [entries EXCEPT ![i] =
       IF job[c].found THEN Refresh(@, job[c].total)
                       ELSE Append(@, job[c].total)]
  /\ Done(c)
  /\ UNCHANGED invoiceVars

-----------------------------------------------------------------------------
(* PaymentSerializer.create and record_payment: the sum of the payments is *)
(* read inside the transaction, the invoice before it.  Foreign keys are   *)
(* checked at the commit: a payment's insert does not lock its invoice.    *)
PayRead(c, i, a) ==
  /\ MayStart(c) /\ Exists(i) /\ paid[i] < MaxPaid
  /\ job' = [job EXCEPT ![c] = [NoJob EXCEPT !.at = "pay", !.inv = i,
                                  !.total = total[i], !.amount = a]]
  /\ UNCHANGED <<invoiceVars, entries>>

Settled(before, a, t) ==
  IF before + a >= t THEN "paid" ELSE "partially_paid"

PayInsert(c) ==
  LET i == job[c].inv IN
  /\ At(c, "pay") /\ Exists(i)
  /\ job' = [job EXCEPT
       ![c].at = "pay_open",
       ![c].status = Settled(paid[i], job[c].amount, job[c].total)]
  /\ UNCHANGED <<invoiceVars, entries>>

PayCommit(c) ==
  LET i == job[c].inv IN
  /\ At(c, "pay_open") /\ Exists(i)
  /\ paid' = [paid EXCEPT ![i] = @ + job[c].amount]
  /\ status' = [status EXCEPT ![i] = job[c].status]
  /\ Done(c)
  /\ UNCHANGED <<total, lines, gone, entries>>

-----------------------------------------------------------------------------
(* record_sale: one transaction makes, books and possibly pays an invoice. *)
Sale(c, i, t, a) ==
  /\ MayStart(c) /\ New(i) /\ Bookable(t)
  /\ status' = [status EXCEPT ![i] =
                  IF a = 0 THEN "issued" ELSE Settled(0, a, t)]
  /\ total' = [total EXCEPT ![i] = t]
  /\ lines' = [lines EXCEPT ![i] = t]
  /\ paid' = [paid EXCEPT ![i] = a]
  /\ entries' = [entries EXCEPT ![i] = Book(@, t)]
  /\ UNCHANGED <<gone, job>>

(* PaymentViewSet.update and destroy: one of the payments becomes b instead *)
(* of a; with b = 0 it is deleted or moved to another invoice, with a = 0  *)
(* it is moved to this one.  The status is nobody's concern.  (bound: no   *)
(* more than MaxPaid)                                                      *)
Repay(c, i, a, b) ==
  /\ MayStart(c) /\ Exists(i)
  /\ a = 0 => mode.moving
  /\ paid[i] >= a /\ paid[i] - a + b <= MaxPaid
  /\ paid' = [paid EXCEPT ![i] = @ - a + b]
  /\ UNCHANGED <<status, total, lines, gone, entries, job>>

(* destroy of an invoice: its lines go with it, its payments stop          *)
(* referring to it, its entry stays.                                       *)
DeleteInvoice(c, i) ==
  /\ "invoice" \in mode.deletable
  /\ MayStart(c) /\ Exists(i)
  /\ status' = [status EXCEPT ![i] = "absent"]
  /\ lines' = [lines EXCEPT ![i] = NoLines]
  /\ paid' = [paid EXCEPT ![i] = 0]
  /\ gone' = gone \cup {i}
  /\ UNCHANGED <<total, entries, job>>

(* JournalEntryViewSet.destroy takes any entry.                            *)
DeleteEntry(c, i) ==
  /\ "entry" \in mode.deletable
  /\ MayStart(c) /\ entries[i] # <<>>
  /\ entries' = [entries EXCEPT ![i] = Tail(@)]
  /\ UNCHANGED <<invoiceVars, job>>

(* An exception, a constraint or a killed worker ends a request before its *)
(* next statement.                                                         *)
Refused(c) ==
  LET i == job[c].inv IN
  \/ At(c, "issue") /\ ~(Exists(i) /\ Bookable(job[c].total))
  \/ At(c, "edit_book") /\ ~Bookable(job[c].total)
  \/ At(c, "edit_book") /\ job[c].found /\ entries[i] = <<>>
  \/ job[c].at \in {"create", "edit_lines", "pay", "pay_open"} /\ ~Exists(i)

RequestFails(c) ==
  /\ ~At(c, "none") /\ (mode.failing \/ Refused(c))
  /\ Done(c)
  /\ UNCHANGED <<invoiceVars, entries>>

ClerkStep(c) ==
  \/ CreateLines(c) \/ IssueWrite(c)
  \/ EditKeep(c) \/ EditDropLines(c) \/ EditNewLines(c) \/ EditSave(c)
  \/ EditCheck(c) \/ EditBook(c)
  \/ PayInsert(c) \/ PayCommit(c)
  \/ RequestFails(c)
  \/ \E i \in Invoice :
       \/ IssueRead(c, i) \/ DeleteInvoice(c, i) \/ DeleteEntry(c, i)
       \/ \E t \in Price : CreateRow(c, i, t)
       \/ \E t \in Price \cup {Keep} : EditRead(c, i, t)
       \/ \E a \in Amount : PayRead(c, i, a)
       \/ \E t \in Price, a \in Amount \cup {0} : Sale(c, i, t, a)
       \/ \E a, b \in Amount \cup {0} : Repay(c, i, a, b)

Next == UNCHANGED mode /\ \E c \in Clerk : ClerkStep(c)

Spec == Init /\ [][Next]_vars

-----------------------------------------------------------------------------
EntriesKept == "entry" \notin mode.deletable
OneByOne == ~mode.overlapping /\ ~mode.failing

BookedOnce == \A i \in Invoice : Len(entries[i]) <= 1
IssuedBooked ==
  \A i \in Invoice : status[i] = "issued" => entries[i] # <<>>

(* However requests interleave and fail, an invoice has at most one entry, *)
(* as long as nobody deletes entries.                                      *)
OneEntryPerInvoice == EntriesKept => BookedOnce

(* However requests interleave and fail, issued means booked: the revenue  *)
(* of an issued invoice is in the journal, unless entries are deleted.     *)
IssuedIsPosted == EntriesKept => IssuedBooked

Quiet(i) == \A c \in Clerk : job[c].inv # i

(* With one request at a time, once it is over, what the journal says of   *)
(* an issued invoice (unless its entry was deleted) is its total, once.    *)
(* Not so for a total edited to zero: it is saved, the entry refuses it.   *)
JournalMatchesIssued ==
  OneByOne =>
    \A i \in Invoice :
      status[i] = "issued" /\ entries[i] # <<>> /\ Quiet(i) /\ Bookable(total[i])
        => entries[i] = <<total[i]>>

(* With one request at a time, an invoice that has been paid for, if only  *)
(* in part, says so, unless a payment was moved to it: that is not counted.*)
PaidIsShown ==
  OneByOne /\ ~mode.moving =>
    \A i \in Invoice : Exists(i) /\ paid[i] > 0
                         => status[i] \in {"partially_paid", "paid"}

(* With one request at a time, nothing makes an issued invoice a draft.    *)
NeverUnissued ==
  [][\A i \in Invoice :
       OneByOne /\ status[i] \in {"issued", "partially_paid", "paid"}
         => status'[i] # "draft"]_vars
=============================================================================
