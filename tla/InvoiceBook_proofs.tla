------------------------- MODULE InvoiceBook_proofs -------------------------
(***************************************************************************)
(* Theorems about InvoiceBook, for every set of invoices, prices, amounts  *)
(* and clerks: first with requests that overlap and fail at any point, then *)
(* with one at a time.  Then about SalesBook, which refines it: its stock   *)
(* and its expenses.                                                        *)
(***************************************************************************)
EXTENDS SalesBook, SequenceTheorems, SetSums

-----------------------------------------------------------------------------
(* Type correctness.  A request under way names an invoice, and the total  *)
(* it copied is an amount except before an edit has computed one.          *)

JobNamed == \A c \in Clerk : ~At(c, "none") => job[c].inv \in Invoice
JobPriced == \A c \in Clerk : ~At(c, "edit") => job[c].total \in Nat
Typed == TypeOK /\ JobNamed /\ JobPriced

LEMMA NoJobType == NoJob \in Job
BY DEF NoJob, Job, Step, Status

LEMMA TypedInit == Init => Typed
<1>. SUFFICES ASSUME Init PROVE Typed
  OBVIOUS
<1>1. entries \in [Invoice -> Seq(Nat)]
  BY DEF Init
<1>2. job \in [Clerk -> Job]
  BY NoJobType DEF Init
<1>3. JobNamed /\ JobPriced
  BY DEF Init, JobNamed, JobPriced, At, NoJob
<1>. QED  BY <1>1, <1>2, <1>3 DEF Init, Typed, TypeOK, Status

(* A request that ends or moves on leaves the others' copies alone.        *)
LEMMA DoneType == ASSUME Typed, NEW c \in Clerk, Done(c)
                  PROVE job' \in [Clerk -> Job] /\ JobNamed' /\ JobPriced'
BY NoJobType DEF Typed, TypeOK, Done, JobNamed, JobPriced, At, NoJob

LEMMA NextStepType ==
  ASSUME Typed, NEW c \in Clerk, NEW s \in Step, Next_step(c, s),
         job[c].inv \in Invoice, job[c].total \in Nat
  PROVE  job' \in [Clerk -> Job] /\ JobNamed' /\ JobPriced'
BY DEF Typed, TypeOK, Job, Next_step, JobNamed, JobPriced, At

LEMMA StartType ==
  ASSUME Typed, NEW c \in Clerk, NEW j \in Job, j.inv \in Invoice,
         j.at # "edit" => j.total \in Nat, job' = [job EXCEPT ![c] = j]
  PROVE  job' \in [Clerk -> Job] /\ JobNamed' /\ JobPriced'
BY DEF Typed, TypeOK, JobNamed, JobPriced, At

LEMMA SettledType == ASSUME NEW b \in Nat, NEW a \in Nat, NEW t \in Nat
                     PROVE Settled(b, a, t) \in {"partially_paid", "paid"}
BY DEF Settled

(* Booking keeps a journal of amounts, and never leaves it empty or longer *)
(* than one entry if it was not.                                           *)
LEMMA BookType ==
  ASSUME NEW es \in Seq(Nat), NEW a \in Nat
  PROVE  /\ Book(es, a) \in Seq(Nat) /\ Book(es, a) # <<>>
         /\ Len(es) <= 1 => Len(Book(es, a)) <= 1
<1>1. CASE es = <<>>
  BY <1>1 DEF Book
<1>2. CASE es # <<>>
  <2>1. 1 \in 1..Len(es)
    BY <1>2, EmptySeq
  <2>2. Book(es, a) = [es EXCEPT ![1] = a]
    BY <1>2 DEF Book
  <2>. QED  BY <2>1, <2>2, ExceptSeq, EmptySeq
<1>. QED  BY <1>1, <1>2

LEMMA RefreshType ==
  ASSUME NEW es \in Seq(Nat), NEW a \in Nat, es # <<>>
  PROVE  /\ Refresh(es, a) \in Seq(Nat) /\ Refresh(es, a) # <<>>
         /\ Len(Refresh(es, a)) = Len(es)
<1>1. 1 \in 1..Len(es)
  BY EmptySeq
<1>. QED  BY <1>1, ExceptSeq, EmptySeq DEF Refresh

LEMMA TypedStep == Typed /\ [Next]_vars => Typed'
<1>. SUFFICES ASSUME Typed, [Next]_vars PROVE Typed'
  OBVIOUS
<1>. USE DEF Typed, TypeOK
<1>0. mode' \in Modes
  BY DEF Next, vars
<1>. USE <1>0
<1>1. ASSUME NEW c \in Clerk, NEW i \in Invoice, NEW t \in Price,
             CreateRow(c, i, t)
      PROVE Typed'
  <2>1. [NoJob EXCEPT !.at = "create", !.inv = i, !.total = t] \in Job
    BY InvoiceAssumption DEF InvoiceAssumption, NoJob, Job, Step, Status
  <2>2. job' \in [Clerk -> Job] /\ JobNamed' /\ JobPriced'
    BY <1>1, <2>1, StartType, InvoiceAssumption
       DEF InvoiceAssumption, CreateRow, NoJob
  <2>. QED  BY <1>1, <2>2, InvoiceAssumption
            DEF InvoiceAssumption, CreateRow, Status
<1>2. ASSUME NEW c \in Clerk, CreateLines(c) PROVE Typed'
  <2>1. job[c].inv \in Invoice /\ job[c].total \in Nat
    BY <1>2 DEF CreateLines, JobNamed, JobPriced, At
  <2>2. Joined(job[c].inv, job[c].total) \in Nat
    BY <2>1 DEF Joined
  <2>. QED  BY <1>2, <2>1, <2>2, DoneType DEF CreateLines
<1>3. ASSUME NEW c \in Clerk, NEW i \in Invoice, IssueRead(c, i) PROVE Typed'
  <2>1. [NoJob EXCEPT !.at = "issue", !.inv = i, !.total = total[i]] \in Job
    BY DEF NoJob, Job, Step, Status
  <2>2. job' \in [Clerk -> Job] /\ JobNamed' /\ JobPriced'
    BY <1>3, <2>1, StartType DEF IssueRead, NoJob
  <2>. QED  BY <1>3, <2>2 DEF IssueRead, invoiceVars
<1>4. ASSUME NEW c \in Clerk, IssueWrite(c) PROVE Typed'
  <2>1. job[c].inv \in Invoice /\ job[c].total \in Nat
    BY <1>4 DEF IssueWrite, JobNamed, JobPriced, At
  <2>2. entries' \in [Invoice -> Seq(Nat)]
    BY <1>4, <2>1, BookType DEF IssueWrite, BookOnIssue
  <2>. QED  BY <1>4, <2>1, <2>2, DoneType DEF IssueWrite, Status
<1>5. ASSUME NEW c \in Clerk, NEW i \in Invoice, NEW t \in Price \cup {Keep},
             EditRead(c, i, t)
      PROVE Typed'
  <2>1. [NoJob EXCEPT !.at = "edit", !.inv = i, !.status = status[i],
                      !.total = t] \in Job
    BY InvoiceAssumption DEF InvoiceAssumption, NoJob, Job, Step, Status
  <2>2. job' \in [Clerk -> Job] /\ JobNamed' /\ JobPriced'
    BY <1>5, <2>1, StartType DEF EditRead, NoJob
  <2>. QED  BY <1>5, <2>2 DEF EditRead, invoiceVars
<1>6. ASSUME NEW c \in Clerk, EditKeep(c) PROVE Typed'
  <2>1. job[c].inv \in Invoice
    BY <1>6 DEF EditKeep, JobNamed, At
  <2>2. SumOf(job[c].inv) \in Nat
    BY <2>1 DEF SumOf
  <2>3. job' \in [Clerk -> Job] /\ JobNamed' /\ JobPriced'
    BY <1>6, <2>1, <2>2 DEF EditKeep, JobNamed, JobPriced, At, Job, Step
  <2>. QED  BY <1>6, <2>3 DEF EditKeep, invoiceVars
<1>7. ASSUME NEW c \in Clerk, EditDropLines(c) PROVE Typed'
  <2>1. job[c].inv \in Invoice /\ job[c].total \in Nat
    BY <1>7 DEF EditDropLines, JobNamed, At, Job
  <2>2. job' \in [Clerk -> Job] /\ JobNamed' /\ JobPriced'
    BY <1>7, <2>1, NextStepType DEF EditDropLines, Step
  <2>. QED  BY <1>7, <2>1, <2>2 DEF EditDropLines
<1>8. ASSUME NEW c \in Clerk, EditNewLines(c) PROVE Typed'
  <2>1. job[c].inv \in Invoice /\ job[c].total \in Nat
    BY <1>8 DEF EditNewLines, JobNamed, JobPriced, At
  <2>2. job' \in [Clerk -> Job] /\ JobNamed' /\ JobPriced'
    BY <1>8, <2>1, NextStepType DEF EditNewLines, Step
  <2>3. Joined(job[c].inv, job[c].total) \in Nat
    BY <2>1 DEF Joined
  <2>. QED  BY <1>8, <2>1, <2>2, <2>3 DEF EditNewLines
<1>9. ASSUME NEW c \in Clerk, EditSave(c) PROVE Typed'
  <2>1. job[c].inv \in Invoice /\ job[c].total \in Nat /\ job[c].status \in Status
    BY <1>9 DEF EditSave, JobNamed, JobPriced, At, Job
  <2>2. job' \in [Clerk -> Job] /\ JobNamed' /\ JobPriced'
    BY <1>9, <2>1, NextStepType, DoneType DEF EditSave, Step
  <2>. QED  BY <1>9, <2>1, <2>2 DEF EditSave, SavedAs
<1>10. ASSUME NEW c \in Clerk, EditCheck(c) PROVE Typed'
  <2>1. job[c].inv \in Invoice /\ job[c].total \in Nat
    BY <1>10 DEF EditCheck, JobNamed, JobPriced, At
  <2>2. (entries[job[c].inv] # <<>>) \in BOOLEAN
    OBVIOUS
  <2>3. job' \in [Clerk -> Job] /\ JobNamed' /\ JobPriced'
    BY <1>10, <2>1, <2>2 DEF EditCheck, JobNamed, JobPriced, At, Job, Step
  <2>. QED  BY <1>10, <2>3 DEF EditCheck, invoiceVars
<1>11. ASSUME NEW c \in Clerk, EditBook(c) PROVE Typed'
  <2>1. job[c].inv \in Invoice /\ job[c].total \in Nat
    BY <1>11 DEF EditBook, JobNamed, JobPriced, At
  <2>2. entries' \in [Invoice -> Seq(Nat)]
    BY <1>11, <2>1, RefreshType DEF EditBook
  <2>. QED  BY <1>11, <2>2, DoneType DEF EditBook, invoiceVars
<1>12. ASSUME NEW c \in Clerk, NEW i \in Invoice, NEW a \in Amount,
              PayRead(c, i, a)
       PROVE Typed'
  <2>1. [NoJob EXCEPT !.at = "pay", !.inv = i, !.total = total[i],
                      !.amount = a] \in Job
    BY InvoiceAssumption DEF InvoiceAssumption, NoJob, Job, Step, Status
  <2>2. job' \in [Clerk -> Job] /\ JobNamed' /\ JobPriced'
    BY <1>12, <2>1, StartType DEF PayRead, NoJob
  <2>. QED  BY <1>12, <2>2 DEF PayRead, invoiceVars
<1>13. ASSUME NEW c \in Clerk, PayInsert(c) PROVE Typed'
  <2>1. /\ job[c].inv \in Invoice /\ job[c].total \in Nat
        /\ job[c].amount \in Nat
    BY <1>13 DEF PayInsert, JobNamed, JobPriced, At, Job
  <2>2. Settled(paid[job[c].inv], job[c].amount, job[c].total) \in Status
    BY <2>1, SettledType DEF Status
  <2>3. job' \in [Clerk -> Job] /\ JobNamed' /\ JobPriced'
    BY <1>13, <2>1, <2>2 DEF PayInsert, JobNamed, JobPriced, At, Job, Step
  <2>. QED  BY <1>13, <2>3 DEF PayInsert, invoiceVars
<1>14. ASSUME NEW c \in Clerk, PayCommit(c) PROVE Typed'
  <2>1. /\ job[c].inv \in Invoice /\ job[c].status \in Status
        /\ job[c].amount \in Nat
    BY <1>14 DEF PayCommit, JobNamed, At, Job
  <2>. QED  BY <1>14, <2>1, DoneType DEF PayCommit
<1>15. ASSUME NEW c \in Clerk, NEW i \in Invoice, NEW t \in Price,
              NEW a \in Amount \cup {0}, Sale(c, i, t, a)
       PROVE Typed'
  <2>1. t \in Nat /\ a \in Nat
    BY InvoiceAssumption DEF InvoiceAssumption
  <2>2. Settled(0, a, t) \in Status
    BY <2>1, SettledType DEF Status
  <2>3. entries' \in [Invoice -> Seq(Nat)]
    BY <1>15, <2>1, BookType DEF Sale
  <2>4. status' \in [Invoice -> Status]
    BY <1>15, <2>2 DEF Sale, Status
  <2>. QED  BY <1>15, <2>1, <2>3, <2>4 DEF Sale, JobNamed, JobPriced, At
<1>16. ASSUME NEW c \in Clerk, NEW i \in Invoice, DeleteInvoice(c, i)
       PROVE Typed'
  BY <1>16 DEF DeleteInvoice, JobNamed, JobPriced, At, Status
<1>17. ASSUME NEW c \in Clerk, NEW i \in Invoice, DeleteEntry(c, i)
       PROVE Typed'
  <2>1. Tail(entries[i]) \in Seq(Nat)
    BY <1>17 DEF DeleteEntry, EntriesKept
  <2>. QED  BY <1>17, <2>1 DEF DeleteEntry, JobNamed, JobPriced, At, invoiceVars
<1>18. ASSUME NEW c \in Clerk, RequestFails(c) PROVE Typed'
  BY <1>18, DoneType DEF RequestFails, invoiceVars
<1>19. ASSUME NEW c \in Clerk, NEW i \in Invoice, NEW a \in Amount \cup {0},
              NEW b \in Amount \cup {0}, Repay(c, i, a, b)
       PROVE Typed'
  <2>1. a \in Nat /\ b \in Nat /\ paid[i] >= a
    BY <1>19, InvoiceAssumption DEF Repay, InvoiceAssumption
  <2>2. paid[i] - a + b \in Nat
    BY <2>1
  <2>. QED  BY <1>19, <2>2 DEF Repay, JobNamed, JobPriced, At
<1>20. CASE UNCHANGED vars
  BY <1>20 DEF vars, invoiceVars, JobNamed, JobPriced, At
<1>. QED
  BY <1>1, <1>2, <1>3, <1>4, <1>5, <1>6, <1>7, <1>8, <1>9, <1>10, <1>11,
     <1>12, <1>13, <1>14, <1>15, <1>16, <1>17, <1>18, <1>19,
     <1>20 DEF Next, ClerkStep

(* Every total, line sum, payment sum and journal amount is a number,      *)
(* whatever the requests do to each other.                                 *)
THEOREM InvoiceTypes == Spec => []TypeOK
<1>1. Typed => TypeOK
  BY DEF Typed
<1>. QED  BY <1>1, TypedInit, TypedStep, PTL DEF Spec

-----------------------------------------------------------------------------
(* The journal.  The two properties are not inductive: an edit that copied *)
(* the invoice as issued goes on to book it, and makes an entry unless it  *)
(* finds one.  That it does find one is what the copies have to remember.  *)

CopiesPosted ==
  \A c \in Clerk : ~At(c, "none") /\ job[c].status = "issued"
                     => entries[job[c].inv] # <<>>
EditsPosted ==
  \A c \in Clerk :
    /\ At(c, "edit_check") => job[c].status = "issued"
    /\ At(c, "edit_book") => job[c].status = "issued" /\ job[c].found
Kept == BookedOnce /\ IssuedBooked /\ CopiesPosted /\ EditsPosted
IInv == Typed /\ (EntriesKept => Kept)

LEMMA KeptInit == Init => Kept
<1>. SUFFICES ASSUME Init PROVE Kept
  OBVIOUS
<1>1. BookedOnce /\ IssuedBooked
  BY DEF Init, BookedOnce, IssuedBooked
<1>2. CopiesPosted /\ EditsPosted
  BY DEF Init, CopiesPosted, EditsPosted, At, NoJob
<1>. QED  BY <1>1, <1>2 DEF Kept

(* A step that leaves the journal and every status that is not issued      *)
(* alone, and moves one request on without making its copy issued.         *)
LEMMA KeptByReader ==
  ASSUME Typed, Kept, NEW c \in Clerk, NEW j \in Job,
         job' = [job EXCEPT ![c] = j], UNCHANGED entries,
         \A i \in Invoice : status'[i] = "issued" => entries[i] # <<>>,
         j.at # "none" /\ j.status = "issued" => entries[j.inv] # <<>>,
         j.at = "edit_check" => j.status = "issued",
         j.at = "edit_book" => j.status = "issued" /\ j.found
  PROVE  Kept'
<1>1. BookedOnce' /\ IssuedBooked'
  BY DEF Kept, BookedOnce, IssuedBooked
<1>2. CopiesPosted'
  BY DEF Typed, TypeOK, Kept, CopiesPosted, At
<1>3. EditsPosted'
  BY DEF Typed, TypeOK, Kept, EditsPosted, At
<1>. QED  BY <1>1, <1>2, <1>3 DEF Kept

(* A step that books an invoice and ends its request, if any.              *)
LEMMA KeptByBooking ==
  ASSUME Typed, Kept, NEW i \in Invoice, NEW es, es # <<>>, Len(es) <= 1,
         entries' = [entries EXCEPT ![i] = es],
         \A k \in Invoice \ {i} : status'[k] = status[k],
         \A d \in Clerk : job'[d] = job[d] \/ job'[d] = NoJob
  PROVE  Kept'
<1>1. \A k \in Invoice : entries'[k] = IF k = i THEN es ELSE entries[k]
  BY DEF Typed, TypeOK
<1>2. BookedOnce' /\ IssuedBooked'
  BY <1>1 DEF Kept, BookedOnce, IssuedBooked
<1>3. CopiesPosted'
  BY <1>1 DEF Kept, CopiesPosted, At, NoJob, Typed, JobNamed
<1>4. EditsPosted'
  BY DEF Kept, EditsPosted, At, NoJob
<1>. QED  BY <1>2, <1>3, <1>4 DEF Kept

LEMMA KeptStep ==
  ASSUME EntriesKept, Typed, Kept, [Next]_vars
  PROVE  Kept'
<1>. USE DEF Typed, TypeOK
<1>. DEFINE Quiet_status == \A k \in Invoice : status[k] = "issued"
                                               => entries[k] # <<>>
<1>0. Quiet_status
  BY DEF Kept, IssuedBooked
<1>1. ASSUME NEW c \in Clerk, NEW i \in Invoice, NEW t \in Price,
             CreateRow(c, i, t)
      PROVE Kept'
  <2>1. [NoJob EXCEPT !.at = "create", !.inv = i, !.total = t] \in Job
    BY InvoiceAssumption DEF InvoiceAssumption, NoJob, Job, Step, Status
  <2>. QED  BY <1>0, <1>1, <2>1, KeptByReader DEF CreateRow, NoJob
<1>2. ASSUME NEW c \in Clerk, CreateLines(c) PROVE Kept'
  BY <1>0, <1>2, KeptByReader, NoJobType DEF CreateLines, Done, NoJob
<1>3. ASSUME NEW c \in Clerk, NEW i \in Invoice, IssueRead(c, i) PROVE Kept'
  <2>1. [NoJob EXCEPT !.at = "issue", !.inv = i, !.total = total[i]] \in Job
    BY DEF NoJob, Job, Step, Status
  <2>. QED  BY <1>0, <1>3, <2>1, KeptByReader DEF IssueRead, NoJob, invoiceVars
<1>4. ASSUME NEW c \in Clerk, IssueWrite(c) PROVE Kept'
  <2>. DEFINE i == job[c].inv
              es == Book(entries[i], job[c].total)
  <2>1. i \in Invoice /\ job[c].total \in Nat
    BY <1>4 DEF IssueWrite, JobNamed, JobPriced, At
  <2>2. es # <<>> /\ Len(es) <= 1
    BY <2>1, BookType DEF Kept, BookedOnce
  <2>3. entries' = [entries EXCEPT ![i] = es]
    BY <1>4 DEF IssueWrite, BookOnIssue
  <2>4. \A k \in Invoice \ {i} : status'[k] = status[k]
    BY <1>4 DEF IssueWrite
  <2>5. \A d \in Clerk : job'[d] = job[d] \/ job'[d] = NoJob
    BY <1>4 DEF IssueWrite, Done
  <2>. QED  BY <2>1, <2>2, <2>3, <2>4, <2>5, KeptByBooking
<1>5. ASSUME NEW c \in Clerk, NEW i \in Invoice, NEW t \in Price \cup {Keep},
             EditRead(c, i, t)
      PROVE Kept'
  <2>1. [NoJob EXCEPT !.at = "edit", !.inv = i, !.status = status[i],
                      !.total = t] \in Job
    BY InvoiceAssumption DEF InvoiceAssumption, NoJob, Job, Step, Status
  <2>. QED  BY <1>0, <1>5, <2>1, KeptByReader DEF EditRead, NoJob, invoiceVars
<1>6. ASSUME NEW c \in Clerk, EditKeep(c) PROVE Kept'
  <2>1. job[c].inv \in Invoice
    BY <1>6 DEF EditKeep, JobNamed, At
  <2>2. SumOf(job[c].inv) \in Nat
    BY <2>1 DEF SumOf
  <2>. DEFINE j == [job[c] EXCEPT !.at = "edit_save",
                                  !.total = SumOf(job[c].inv)]
  <2>3. j \in Job
    BY <2>1, <2>2 DEF Job, Step
  <2>4. j.at = "edit_save" /\ j.status = job[c].status /\ j.inv = job[c].inv
    BY DEF Job
  <2>5. job' = [job EXCEPT ![c] = j]
    BY <1>6 DEF EditKeep
  <2>6. job[c].status = "issued" => entries[job[c].inv] # <<>>
    BY <1>6 DEF EditKeep, At, Kept, CopiesPosted
  <2>7. UNCHANGED <<status, entries>>
    BY <1>6 DEF EditKeep, invoiceVars
  <2>. HIDE DEF j
  <2>. QED  BY <1>0, <2>3, <2>4, <2>5, <2>6, <2>7, KeptByReader
<1>7. ASSUME NEW c \in Clerk, EditDropLines(c) PROVE Kept'
  <2>1. [job[c] EXCEPT !.at = "edit_lines"] \in Job
    BY DEF Job, Step
  <2>2. job' = [job EXCEPT ![c] = [job[c] EXCEPT !.at = "edit_lines"]]
    BY <1>7 DEF EditDropLines, Next_step
  <2>3. job[c].status = "issued" => entries[job[c].inv] # <<>>
    BY <1>7 DEF EditDropLines, At, Kept, CopiesPosted
  <2>. QED  BY <1>0, <1>7, <2>1, <2>2, <2>3, KeptByReader DEF EditDropLines, Job
<1>8. ASSUME NEW c \in Clerk, EditNewLines(c) PROVE Kept'
  <2>1. [job[c] EXCEPT !.at = "edit_save"] \in Job
    BY DEF Job, Step
  <2>2. job' = [job EXCEPT ![c] = [job[c] EXCEPT !.at = "edit_save"]]
    BY <1>8 DEF EditNewLines, Next_step
  <2>3. job[c].status = "issued" => entries[job[c].inv] # <<>>
    BY <1>8 DEF EditNewLines, At, Kept, CopiesPosted
  <2>. QED  BY <1>0, <1>8, <2>1, <2>2, <2>3, KeptByReader DEF EditNewLines, Job
<1>9. ASSUME NEW c \in Clerk, EditSave(c) PROVE Kept'
  <2>1. job[c].inv \in Invoice
    BY <1>9 DEF EditSave, JobNamed, At
  <2>2. job[c].status = "issued" => entries[job[c].inv] # <<>>
    BY <1>9 DEF EditSave, At, Kept, CopiesPosted
  <2>3. \A k \in Invoice : status'[k] = "issued" => entries[k] # <<>>
    BY <1>0, <1>9, <2>1, <2>2 DEF EditSave, SavedAs
  <2>4. CASE job[c].status = "issued"
    <3>1. [job[c] EXCEPT !.at = "edit_check"] \in Job
      BY DEF Job, Step
    <3>2. job' = [job EXCEPT ![c] = [job[c] EXCEPT !.at = "edit_check"]]
      BY <1>9, <2>4 DEF EditSave, Next_step
    <3>. QED  BY <1>9, <2>2, <2>3, <2>4, <3>1, <3>2, KeptByReader
              DEF EditSave, Job
  <2>5. CASE job[c].status # "issued"
    BY <1>9, <2>3, <2>5, KeptByReader, NoJobType DEF EditSave, Done, NoJob
  <2>. QED  BY <2>4, <2>5
<1>10. ASSUME NEW c \in Clerk, EditCheck(c) PROVE Kept'
  <2>1. job[c].status = "issued" /\ entries[job[c].inv] # <<>>
    BY <1>10 DEF EditCheck, At, Kept, CopiesPosted, EditsPosted
  <2>2. [job[c] EXCEPT !.at = "edit_book", !.found = TRUE] \in Job
    BY DEF Job, Step
  <2>3. job' = [job EXCEPT ![c] = [job[c] EXCEPT !.at = "edit_book",
                                                 !.found = TRUE]]
    BY <1>10, <2>1 DEF EditCheck
  <2>. QED  BY <1>0, <1>10, <2>1, <2>2, <2>3, KeptByReader
            DEF EditCheck, invoiceVars, Job
<1>11. ASSUME NEW c \in Clerk, EditBook(c) PROVE Kept'
  <2>. DEFINE i == job[c].inv
              es == Refresh(entries[i], job[c].total)
  <2>1. i \in Invoice /\ job[c].total \in Nat
    BY <1>11 DEF EditBook, JobNamed, JobPriced, At
  <2>2. job[c].found /\ entries[i] # <<>>
    BY <1>11 DEF EditBook, At, Kept, EditsPosted, CopiesPosted
  <2>3. es # <<>> /\ Len(es) <= 1
    BY <2>1, <2>2, RefreshType DEF Kept, BookedOnce
  <2>4. entries' = [entries EXCEPT ![i] = es]
    BY <1>11, <2>2 DEF EditBook
  <2>5. \A k \in Invoice \ {i} : status'[k] = status[k]
    BY <1>11 DEF EditBook, invoiceVars
  <2>6. \A d \in Clerk : job'[d] = job[d] \/ job'[d] = NoJob
    BY <1>11 DEF EditBook, Done
  <2>. QED  BY <2>1, <2>3, <2>4, <2>5, <2>6, KeptByBooking
<1>12. ASSUME NEW c \in Clerk, NEW i \in Invoice, NEW a \in Amount,
              PayRead(c, i, a)
       PROVE Kept'
  <2>1. [NoJob EXCEPT !.at = "pay", !.inv = i, !.total = total[i],
                      !.amount = a] \in Job
    BY InvoiceAssumption DEF InvoiceAssumption, NoJob, Job, Step, Status
  <2>. QED  BY <1>0, <1>12, <2>1, KeptByReader DEF PayRead, NoJob, invoiceVars
<1>13. ASSUME NEW c \in Clerk, PayInsert(c) PROVE Kept'
  <2>. DEFINE s == Settled(paid[job[c].inv], job[c].amount, job[c].total)
  <2>1. /\ job[c].inv \in Invoice /\ job[c].total \in Nat
        /\ job[c].amount \in Nat
    BY <1>13 DEF PayInsert, JobNamed, JobPriced, At, Job
  <2>2. s \in Status /\ s # "issued"
    BY <2>1, SettledType DEF Status
  <2>3. [job[c] EXCEPT !.at = "pay_open", !.status = s] \in Job
    BY <2>2 DEF Job, Step
  <2>4. job' = [job EXCEPT ![c] = [job[c] EXCEPT !.at = "pay_open",
                                                 !.status = s]]
    BY <1>13 DEF PayInsert
  <2>5. /\ [job[c] EXCEPT !.at = "pay_open", !.status = s].at = "pay_open"
        /\ [job[c] EXCEPT !.at = "pay_open", !.status = s].status = s
    BY DEF Job
  <2>6. UNCHANGED <<status, entries>>
    BY <1>13 DEF PayInsert, invoiceVars
  <2>. HIDE DEF s
  <2>. QED  BY <1>0, <2>2, <2>3, <2>4, <2>5, <2>6, KeptByReader
<1>14. ASSUME NEW c \in Clerk, PayCommit(c) PROVE Kept'
  <2>1. job[c].inv \in Invoice
    BY <1>14 DEF PayCommit, JobNamed, At
  <2>2. job[c].status = "issued" => entries[job[c].inv] # <<>>
    BY <1>14 DEF PayCommit, At, Kept, CopiesPosted
  <2>3. \A k \in Invoice : status'[k] = "issued" => entries[k] # <<>>
    BY <1>0, <1>14, <2>1, <2>2 DEF PayCommit
  <2>. QED  BY <1>14, <2>3, KeptByReader, NoJobType DEF PayCommit, Done, NoJob
<1>15. ASSUME NEW c \in Clerk, NEW i \in Invoice, NEW t \in Price,
              NEW a \in Amount \cup {0}, Sale(c, i, t, a)
       PROVE Kept'
  <2>. DEFINE es == Book(entries[i], t)
  <2>1. es # <<>> /\ Len(es) <= 1
    BY BookType, InvoiceAssumption
       DEF InvoiceAssumption, Kept, BookedOnce
  <2>2. entries' = [entries EXCEPT ![i] = es]
    BY <1>15 DEF Sale
  <2>3. \A k \in Invoice \ {i} : status'[k] = status[k]
    BY <1>15 DEF Sale
  <2>4. \A d \in Clerk : job'[d] = job[d]
    BY <1>15 DEF Sale
  <2>. QED  BY <2>1, <2>2, <2>3, <2>4, KeptByBooking
<1>16. ASSUME NEW c \in Clerk, NEW i \in Invoice, DeleteInvoice(c, i)
       PROVE Kept'
  <2>1. IssuedBooked'
    BY <1>0, <1>16 DEF DeleteInvoice, IssuedBooked
  <2>2. UNCHANGED <<entries, job>>
    BY <1>16 DEF DeleteInvoice
  <2>. QED  BY <2>1, <2>2
            DEF Kept, BookedOnce, CopiesPosted, EditsPosted, At
<1>17. ASSUME NEW c \in Clerk, NEW i \in Invoice, DeleteEntry(c, i)
       PROVE Kept'
  BY <1>17 DEF DeleteEntry, EntriesKept
<1>18. ASSUME NEW c \in Clerk, RequestFails(c) PROVE Kept'
  BY <1>0, <1>18, KeptByReader, NoJobType
     DEF RequestFails, Done, NoJob, invoiceVars
<1>19. ASSUME NEW c \in Clerk, NEW i \in Invoice, NEW a \in Amount \cup {0},
              NEW b \in Amount \cup {0}, Repay(c, i, a, b)
       PROVE Kept'
  <2>1. UNCHANGED <<status, entries, job>>
    BY <1>19 DEF Repay
  <2>. QED  BY <2>1 DEF Kept, BookedOnce, IssuedBooked, CopiesPosted,
                        EditsPosted, At
<1>20. CASE UNCHANGED vars
  BY <1>20 DEF vars, invoiceVars, Kept, BookedOnce, IssuedBooked,
               CopiesPosted, EditsPosted, At
<1>. QED
  BY <1>1, <1>2, <1>3, <1>4, <1>5, <1>6, <1>7, <1>8, <1>9, <1>10, <1>11,
     <1>12, <1>13, <1>14, <1>15, <1>16, <1>17, <1>18, <1>19,
     <1>20 DEF Next, ClerkStep

LEMMA BookInit == Init => IInv
BY TypedInit, KeptInit DEF IInv

(* The mode never changes: either no entry is ever deleted, or any may be. *)
LEMMA BookStep == IInv /\ [Next]_vars => IInv'
<1>. SUFFICES ASSUME IInv, [Next]_vars PROVE IInv'
  OBVIOUS
<1>1. Typed'
  BY TypedStep DEF IInv
<1>2. mode' = mode
  BY DEF Next, vars
<1>3. EntriesKept' => EntriesKept
  BY <1>2 DEF EntriesKept
<1>4. EntriesKept => Kept'
  BY KeptStep DEF IInv
<1>. QED  BY <1>1, <1>3, <1>4 DEF IInv

(* An invoice has at most one entry, however issues, edits, sales and      *)
(* payments interleave and fail, as long as nobody deletes entries.        *)
THEOREM InvoiceBookedOnce == Spec => []OneEntryPerInvoice
<1>1. IInv => OneEntryPerInvoice
  BY DEF IInv, Kept, OneEntryPerInvoice
<1>. QED  BY <1>1, BookInit, BookStep, PTL DEF Spec

(* ... and an issued invoice has its revenue in the journal.               *)
THEOREM InvoiceIssuedIsPosted == Spec => []IssuedIsPosted
<1>1. IInv => IssuedIsPosted
  BY DEF IInv, Kept, IssuedIsPosted
<1>. QED  BY <1>1, BookInit, BookStep, PTL DEF Spec

-----------------------------------------------------------------------------
(* What holds when one request ends before the next one starts, with       *)
(* invoices and entries deleted in between: the journal shows the total of *)
(* an issued invoice, the status shows its payments, and nothing turns an  *)
(* issued invoice into a draft.                                            *)
(*                                                                         *)
(* The invariant: whoever is at work is alone, so what it has copied is    *)
(* still so; and the journal is right except between the two statements of *)
(* an edit that save the total and bring the entry up to date.             *)

PaidFor == {"partially_paid", "paid"}
Booking == {"edit_check", "edit_book"}

Alone == \A c, d \in Clerk : ~At(c, "none") /\ ~At(d, "none") => c = d

Current(j, st, t, es) ==
  /\ j.at \in {"edit", "edit_lines", "edit_save"} => j.status = st
  /\ j.at = "issue" => st = "draft" /\ j.total = t
  /\ j.at = "pay_open" => j.status \in PaidFor
  /\ j.at \in Booking => j.total = t
  /\ j.at = "edit_book" => (j.found <=> es # <<>>)

CopiesCurrent ==
  \A c \in Clerk :
    ~At(c, "none") => Current(job[c], status[job[c].inv], total[job[c].inv],
                              entries[job[c].inv])

Shown ==
  ~mode.moving => \A i \in Invoice : paid[i] > 0 => status[i] \in PaidFor

Right(st, t, es) == st = "issued" /\ es # <<>> /\ Bookable(t) => es = <<t>>

EntriesRight ==
  \A i \in Invoice :
    (\A c \in Clerk : ~(job[c].at \in Booking /\ job[c].inv = i))
      => Right(status[i], total[i], entries[i])

Serial == Alone /\ CopiesCurrent /\ Shown /\ BookedOnce /\ EntriesRight
SerialInv == Typed /\ (OneByOne => Serial)

-----------------------------------------------------------------------------
(* Sequences of at most one entry                                          *)
LEMMA LenIsOne ==
  ASSUME NEW es \in Seq(Nat), Len(es) <= 1, es # <<>>
  PROVE  Len(es) = 1
<1>1. Len(es) \in Nat \ {0}
  BY EmptySeq, Zenon
<1>2. \A n \in Nat \ {0} : n <= 1 => n = 1
  OBVIOUS
<1>. QED  BY <1>1, <1>2, Zenon

LEMMA OneEntry ==
  ASSUME NEW es \in Seq(Nat), Len(es) <= 1, es # <<>>, NEW a \in Nat, es[1] = a
  PROVE  es = <<a>>
<1>1. Len(es) = 1
  BY LenIsOne
<1>2. <<a>> \in Seq(Nat) /\ Len(<<a>>) = 1 /\ <<a>>[1] = a
  OBVIOUS
<1>. QED  BY <1>1, <1>2, SeqEqual

LEMMA BookRight ==
  ASSUME NEW es \in Seq(Nat), Len(es) <= 1, NEW a \in Nat
  PROVE  Book(es, a) = <<a>>
<1>1. CASE es = <<>>
  BY <1>1 DEF Book
<1>2. CASE es # <<>>
  <2>1. 1 \in 1..Len(es)
    BY <1>2, EmptySeq
  <2>2. Book(es, a) = [es EXCEPT ![1] = a]
    BY <1>2 DEF Book
  <2>3. [es EXCEPT ![1] = a][1] = a
    BY <2>1, ExceptSeq
  <2>. QED  BY <2>2, <2>3, BookType, OneEntry
<1>. QED  BY <1>1, <1>2

LEMMA RefreshRight ==
  ASSUME NEW es \in Seq(Nat), Len(es) <= 1, es # <<>>, NEW a \in Nat
  PROVE  Refresh(es, a) = <<a>>
BY BookRight DEF Book, Refresh

LEMMA AppendRight == ASSUME NEW a \in Nat PROVE Append(<<>>, a) = <<a>>
OBVIOUS

LEMMA LastEntry ==
  ASSUME NEW es \in Seq(Nat), Len(es) <= 1, es # <<>>
  PROVE  Tail(es) = <<>>
<1>1. Len(es) = 1
  BY LenIsOne
<1>2. Tail(es) \in Seq(Nat) /\ Len(Tail(es)) = 0
  BY <1>1, HeadTailProperties
<1>. QED  BY <1>2, EmptySeq

-----------------------------------------------------------------------------
LEMMA SerialInit == Init => Serial
<1>. SUFFICES ASSUME Init PROVE Serial
  OBVIOUS
<1>1. Alone /\ CopiesCurrent
  BY DEF Init, Alone, CopiesCurrent, At, NoJob
<1>2. Shown /\ BookedOnce /\ EntriesRight
  BY DEF Init, Shown, BookedOnce, EntriesRight, Right
<1>. QED  BY <1>1, <1>2 DEF Serial

(* Whoever starts a request or goes on with one is the only one at work.   *)
LEMMA Starter ==
  ASSUME OneByOne, NEW c \in Clerk, MayStart(c)
  PROVE  At(c, "none") /\ \A d \in Clerk \ {c} : At(d, "none")
BY DEF OneByOne, MayStart

LEMMA Worker ==
  ASSUME Alone, NEW c \in Clerk, ~At(c, "none")
  PROVE  \A d \in Clerk \ {c} : At(d, "none")
BY DEF Alone

(* A step of the only one at work, on one invoice, keeps the invariant if  *)
(* what it leaves of that invoice agrees with its request and its journal. *)
LEMMA SerialBy ==
  ASSUME Typed, Serial, UNCHANGED mode,
         NEW c \in Clerk, NEW j \in Job, NEW i \in Invoice,
         \A d \in Clerk \ {c} : At(d, "none"),
         job' = [job EXCEPT ![c] = j],
         \A k \in Invoice \ {i} :
           /\ status'[k] = status[k] /\ total'[k] = total[k]
           /\ paid'[k] = paid[k] /\ entries'[k] = entries[k],
         j.at # "none" => j.inv = i,
         ~At(c, "none") => job[c].inv = i,
         Current(j, status'[i], total'[i], entries'[i]),
         ~mode.moving /\ paid'[i] > 0 => status'[i] \in PaidFor,
         Len(entries'[i]) <= 1,
         j.at \notin Booking => Right(status'[i], total'[i], entries'[i])
  PROVE  Serial'
<1>1. \A d \in Clerk : job'[d] = IF d = c THEN j ELSE job[d]
  BY DEF Typed, TypeOK
<1>2. \A d \in Clerk \ {c} : At(d, "none") /\ At(d, "none")'
  BY <1>1 DEF At
<1>3. Alone'
  BY <1>2 DEF Alone
<1>4. CopiesCurrent'
  BY <1>1, <1>2 DEF CopiesCurrent, At
<1>5. Shown' /\ BookedOnce'
  BY DEF Serial, Shown, BookedOnce
<1>6. EntriesRight'
  <2>. SUFFICES ASSUME NEW k \in Invoice,
                       (\A d \in Clerk : ~(job[d].at \in Booking /\ job[d].inv = k))'
                PROVE  Right(status'[k], total'[k], entries'[k])
    BY DEF EntriesRight
  <2>1. CASE k = i
    BY <1>1, <2>1 DEF Booking
  <2>2. CASE k # i
    <3>1. \A d \in Clerk : ~(job[d].at \in Booking /\ job[d].inv = k)
      BY <1>2, <2>2 DEF At, Booking
    <3>. QED  BY <2>2, <3>1 DEF Serial, EntriesRight
  <2>. QED  BY <2>1, <2>2
<1>. QED  BY <1>3, <1>4, <1>5, <1>6 DEF Serial

(* What the work of the only request leaves of its invoice.                *)
LEMMA AtWork ==
  ASSUME Typed, Serial, NEW c \in Clerk, ~At(c, "none")
  PROVE  /\ \A d \in Clerk \ {c} : At(d, "none")
         /\ job[c] \in Job /\ job[c].inv \in Invoice
         /\ job[c].total \in Nat \cup {Keep} /\ job[c].amount \in Nat
         /\ Current(job[c], status[job[c].inv], total[job[c].inv],
                    entries[job[c].inv])
BY Worker DEF Serial, CopiesCurrent, Typed, TypeOK, JobNamed, Job

(* An invoice on which nobody is booking has the right entry.              *)
LEMMA RightAt ==
  ASSUME Serial, NEW c \in Clerk, NEW i \in Invoice,
         \A d \in Clerk \ {c} : At(d, "none"),
         job[c].at \notin Booking
  PROVE  Right(status[i], total[i], entries[i])
BY DEF Serial, EntriesRight, At, Booking

(* A request that only reads, with what it then knows.                     *)
LEMMA SerialByReader ==
  ASSUME Typed, Serial, UNCHANGED mode,
         NEW c \in Clerk, NEW j \in Job, NEW i \in Invoice,
         \A d \in Clerk \ {c} : At(d, "none"),
         job' = [job EXCEPT ![c] = j],
         UNCHANGED <<status, total, paid, entries>>,
         j.at # "none" => j.inv = i,
         ~At(c, "none") => job[c].inv = i,
         Current(j, status[i], total[i], entries[i]),
         j.at \notin Booking => Right(status[i], total[i], entries[i])
  PROVE  Serial'
<1>1. ~mode.moving /\ paid[i] > 0 => status[i] \in PaidFor
  BY DEF Serial, Shown
<1>2. Len(entries[i]) <= 1
  BY DEF Serial, BookedOnce
<1>. QED  BY <1>1, <1>2, SerialBy

LEMMA IdleCurrent ==
  ASSUME NEW st, NEW t, NEW es
  PROVE  Current(NoJob, st, t, es) /\ NoJob \in Job /\ NoJob.at = "none"
BY NoJobType DEF Current, NoJob, Booking

LEMMA SerialStep ==
  ASSUME OneByOne, Typed, Serial, [Next]_vars
  PROVE  Serial'
<1>. USE DEF Typed, TypeOK
<1>0. ~mode.overlapping /\ ~mode.failing
  BY DEF OneByOne
<1>mode. UNCHANGED mode
  BY DEF Next, vars
<1>. USE <1>mode
<1>1. ASSUME NEW c \in Clerk, NEW i \in Invoice, NEW t \in Price,
             CreateRow(c, i, t)
      PROVE Serial'
  <2>. DEFINE j == [NoJob EXCEPT !.at = "create", !.inv = i, !.total = t]
  <2>1. j \in Job /\ j.at = "create" /\ j.inv = i
    BY InvoiceAssumption DEF InvoiceAssumption, NoJob, Job, Step, Status
  <2>2. At(c, "none") /\ \A d \in Clerk \ {c} : At(d, "none")
    BY <1>1, Starter DEF CreateRow
  <2>3. /\ job' = [job EXCEPT ![c] = j]
        /\ status' = [status EXCEPT ![i] = "draft"]
        /\ total' = [total EXCEPT ![i] = t]
        /\ UNCHANGED <<paid, entries>> /\ status[i] = "absent"
    BY <1>1 DEF CreateRow, New, Exists
  <2>4. Current(j, status'[i], total'[i], entries'[i])
    BY <2>1 DEF Current, Booking
  <2>5. ~mode.moving => ~(paid[i] > 0)
    BY <2>3 DEF Serial, Shown, PaidFor
  <2>6. Len(entries[i]) <= 1
    BY DEF Serial, BookedOnce
  <2>7. Right(status'[i], total'[i], entries'[i])
    BY <2>3 DEF Right
  <2>. HIDE DEF j
  <2>. QED  BY <2>1, <2>2, <2>3, <2>4, <2>5, <2>6, <2>7, SerialBy
<1>2. ASSUME NEW c \in Clerk, CreateLines(c) PROVE Serial'
  <2>1. At(c, "create") /\ UNCHANGED <<status, total, paid, entries>>
        /\ job' = [job EXCEPT ![c] = NoJob]
    BY <1>2 DEF CreateLines, Done
  <2>2. ~At(c, "none") /\ job[c].at \notin Booking
    BY <2>1 DEF At, Booking
  <2>. QED  BY <2>1, <2>2, AtWork, RightAt, IdleCurrent, SerialByReader
<1>3. ASSUME NEW c \in Clerk, NEW i \in Invoice, IssueRead(c, i) PROVE Serial'
  <2>. DEFINE j == [NoJob EXCEPT !.at = "issue", !.inv = i, !.total = total[i]]
  <2>1. j \in Job /\ j.at = "issue" /\ j.inv = i /\ j.total = total[i]
    BY DEF NoJob, Job, Step, Status
  <2>2. At(c, "none") /\ \A d \in Clerk \ {c} : At(d, "none")
    BY <1>3, Starter DEF IssueRead
  <2>3. /\ job' = [job EXCEPT ![c] = j] /\ status[i] = "draft"
        /\ UNCHANGED <<status, total, paid, entries>>
    BY <1>3 DEF IssueRead, Issuable, invoiceVars
  <2>4. Current(j, status[i], total[i], entries[i])
    BY <2>1, <2>3 DEF Current, Booking
  <2>5. Right(status[i], total[i], entries[i])
    BY <2>3 DEF Right
  <2>. HIDE DEF j
  <2>. QED  BY <2>1, <2>2, <2>3, <2>4, <2>5, SerialByReader
<1>4. ASSUME NEW c \in Clerk, IssueWrite(c) PROVE Serial'
  <2>. DEFINE i == job[c].inv
  <2>1. ~At(c, "none") /\ At(c, "issue")
    BY <1>4 DEF IssueWrite, At
  <2>2. /\ i \in Invoice /\ \A d \in Clerk \ {c} : At(d, "none")
        /\ status[i] = "draft" /\ job[c].total = total[i]
    BY <2>1, AtWork DEF Current, At
  <2>3. /\ status' = [status EXCEPT ![i] = "issued"]
        /\ entries' = [entries EXCEPT ![i] = Book(entries[i], total[i])]
        /\ job' = [job EXCEPT ![c] = NoJob] /\ UNCHANGED <<total, paid>>
    BY <1>4, <2>2 DEF IssueWrite, BookOnIssue, Done
  <2>4. ~mode.moving => ~(paid[i] > 0)
    BY <2>2 DEF Serial, Shown, PaidFor
  <2>5. entries'[i] = <<total[i]>>
    BY <2>2, <2>3, BookRight DEF Serial, BookedOnce
  <2>6. total'[i] = total[i] /\ Len(<<total[i]>>) <= 1
    BY <2>3
  <2>7. Len(entries'[i]) <= 1 /\ Right(status'[i], total'[i], entries'[i])
    BY <2>5, <2>6, Zenon DEF Right
  <2>. QED  BY <2>1, <2>2, <2>3, <2>4, <2>7, IdleCurrent, SerialBy
<1>5. ASSUME NEW c \in Clerk, NEW i \in Invoice, NEW t \in Price \cup {Keep},
             EditRead(c, i, t)
      PROVE Serial'
  <2>. DEFINE j == [NoJob EXCEPT !.at = "edit", !.inv = i,
                                 !.status = status[i], !.total = t]
  <2>1. j \in Job /\ j.at = "edit" /\ j.inv = i /\ j.status = status[i]
    BY InvoiceAssumption DEF InvoiceAssumption, NoJob, Job, Step, Status
  <2>2. At(c, "none") /\ \A d \in Clerk \ {c} : At(d, "none")
    BY <1>5, Starter DEF EditRead
  <2>3. /\ job' = [job EXCEPT ![c] = j]
        /\ UNCHANGED <<status, total, paid, entries>>
    BY <1>5 DEF EditRead, invoiceVars
  <2>4. Current(j, status[i], total[i], entries[i])
    BY <2>1 DEF Current, Booking
  <2>5. Right(status[i], total[i], entries[i])
    BY <2>2, RightAt DEF At, Booking
  <2>. HIDE DEF j
  <2>. QED  BY <2>1, <2>2, <2>3, <2>4, <2>5, SerialByReader
<1>6. ASSUME NEW c \in Clerk, EditKeep(c) PROVE Serial'
  <2>. DEFINE i == job[c].inv
              j == [job[c] EXCEPT !.at = "edit_save", !.total = SumOf(i)]
  <2>1. ~At(c, "none") /\ At(c, "edit") /\ job[c].at \notin Booking
    BY <1>6 DEF EditKeep, At, Booking
  <2>2. i \in Invoice /\ SumOf(i) \in Nat
    BY <2>1, AtWork DEF SumOf
  <2>3. j \in Job /\ j.at = "edit_save" /\ j.inv = i /\ j.status = job[c].status
    BY <2>2 DEF Job, Step
  <2>4. job' = [job EXCEPT ![c] = j] /\ UNCHANGED <<status, total, paid, entries>>
    BY <1>6 DEF EditKeep, invoiceVars
  <2>5. Current(j, status[i], total[i], entries[i])
    BY <2>1, <2>3, AtWork DEF Current, Booking, At
  <2>. HIDE DEF j
  <2>. QED  BY <2>1, <2>2, <2>3, <2>4, <2>5, AtWork, RightAt, SerialByReader
<1>7. ASSUME NEW c \in Clerk, EditDropLines(c) PROVE Serial'
  <2>. DEFINE i == job[c].inv
              j == [job[c] EXCEPT !.at = "edit_lines"]
  <2>1. ~At(c, "none") /\ At(c, "edit") /\ job[c].at \notin Booking
    BY <1>7 DEF EditDropLines, At, Booking
  <2>2. j \in Job /\ j.at = "edit_lines" /\ j.inv = i /\ j.status = job[c].status
    BY DEF Job, Step
  <2>3. job' = [job EXCEPT ![c] = j] /\ UNCHANGED <<status, total, paid, entries>>
    BY <1>7 DEF EditDropLines, Next_step
  <2>4. Current(j, status[i], total[i], entries[i])
    BY <2>1, <2>2, AtWork DEF Current, Booking, At
  <2>. HIDE DEF j
  <2>. QED  BY <2>1, <2>2, <2>3, <2>4, AtWork, RightAt, SerialByReader
<1>8. ASSUME NEW c \in Clerk, EditNewLines(c) PROVE Serial'
  <2>. DEFINE i == job[c].inv
              j == [job[c] EXCEPT !.at = "edit_save"]
  <2>1. ~At(c, "none") /\ At(c, "edit_lines") /\ job[c].at \notin Booking
    BY <1>8 DEF EditNewLines, At, Booking
  <2>2. j \in Job /\ j.at = "edit_save" /\ j.inv = i /\ j.status = job[c].status
    BY DEF Job, Step
  <2>3. job' = [job EXCEPT ![c] = j] /\ UNCHANGED <<status, total, paid, entries>>
    BY <1>8 DEF EditNewLines, Next_step
  <2>4. Current(j, status[i], total[i], entries[i])
    BY <2>1, <2>2, AtWork DEF Current, Booking, At
  <2>. HIDE DEF j
  <2>. QED  BY <2>1, <2>2, <2>3, <2>4, AtWork, RightAt, SerialByReader
<1>9. ASSUME NEW c \in Clerk, EditSave(c) PROVE Serial'
  <2>. DEFINE i == job[c].inv
              j == [job[c] EXCEPT !.at = "edit_check"]
  <2>1. ~At(c, "none") /\ At(c, "edit_save") /\ job[c].at \notin Booking
    BY <1>9 DEF EditSave, At, Booking
  <2>2. i \in Invoice /\ job[c].total \in Nat /\ job[c].status = status[i]
    BY <2>1, AtWork DEF Current, At, JobPriced
  <2>3. /\ UNCHANGED <<status, paid, entries>>
        /\ total' = [total EXCEPT ![i] = job[c].total]
    BY <1>9, <2>2 DEF EditSave, SavedAs
  <2>4. /\ Len(entries[i]) <= 1
        /\ ~mode.moving /\ paid[i] > 0 => status[i] \in PaidFor
    BY <2>2 DEF Serial, BookedOnce, Shown
  <2>5. CASE status[i] = "issued"
    <3>1. /\ j \in Job /\ j.at = "edit_check" /\ j.inv = i
          /\ j.total = job[c].total
      BY DEF Job, Step
    <3>2. job' = [job EXCEPT ![c] = j]
      BY <1>9, <2>2, <2>5 DEF EditSave, Next_step
    <3>3. Current(j, status'[i], total'[i], entries'[i]) /\ j.at \in Booking
      BY <2>2, <2>3, <3>1 DEF Current, Booking
    <3>. HIDE DEF j
    <3>. QED  BY <2>1, <2>2, <2>3, <2>4, <3>1, <3>2, <3>3, AtWork, SerialBy
  <2>6. CASE status[i] # "issued"
    <3>1. job' = [job EXCEPT ![c] = NoJob]
      BY <1>9, <2>2, <2>6 DEF EditSave, Done
    <3>2. Right(status'[i], total'[i], entries'[i])
      BY <2>3, <2>6 DEF Right
    <3>. QED  BY <2>1, <2>2, <2>3, <2>4, <3>1, <3>2, AtWork, IdleCurrent, SerialBy
  <2>. QED  BY <2>5, <2>6
<1>10. ASSUME NEW c \in Clerk, EditCheck(c) PROVE Serial'
  <2>. DEFINE i == job[c].inv
              f == entries[i] # <<>>
              j == [job[c] EXCEPT !.at = "edit_book", !.found = f]
  <2>1. ~At(c, "none") /\ At(c, "edit_check")
    BY <1>10 DEF EditCheck, At
  <2>2. i \in Invoice /\ job[c].total = total[i] /\ f \in BOOLEAN
    BY <2>1, AtWork DEF Current, At, Booking
  <2>3. job' = [job EXCEPT ![c] = j] /\ UNCHANGED <<status, total, paid, entries>>
    BY <1>10 DEF EditCheck, invoiceVars
  <2>. HIDE DEF f
  <2>4. /\ j \in Job /\ j.at = "edit_book" /\ j.inv = i /\ j.total = job[c].total
        /\ j.found = f
    BY <2>2 DEF Job, Step
  <2>. USE DEF f
  <2>5. Current(j, status[i], total[i], entries[i]) /\ j.at \in Booking
    BY <2>2, <2>4 DEF Current, Booking
  <2>. HIDE DEF j, f
  <2>. QED  BY <2>1, <2>2, <2>3, <2>4, <2>5, AtWork, SerialByReader
<1>11. ASSUME NEW c \in Clerk, EditBook(c) PROVE Serial'
  <2>. DEFINE i == job[c].inv
  <2>1. ~At(c, "none") /\ At(c, "edit_book")
    BY <1>11 DEF EditBook, At
  <2>2. /\ i \in Invoice /\ job[c].total = total[i] /\ total[i] \in Nat
        /\ job[c].found <=> entries[i] # <<>>
    BY <2>1, AtWork DEF Current, At, Booking
  <2>3. /\ UNCHANGED <<status, total, paid>> /\ job' = [job EXCEPT ![c] = NoJob]
        /\ \A k \in Invoice \ {i} : entries'[k] = entries[k]
    BY <1>11 DEF EditBook, Done, invoiceVars
  <2>4. entries'[i] = <<total[i]>>
    <3>1. Len(entries[i]) <= 1 /\ entries[i] \in Seq(Nat)
      BY <2>2 DEF Serial, BookedOnce
    <3>2. CASE entries[i] # <<>>
      BY <1>11, <2>2, <3>1, <3>2, RefreshRight DEF EditBook
    <3>3. CASE entries[i] = <<>>
      BY <1>11, <2>2, <3>3, AppendRight DEF EditBook
    <3>. QED  BY <3>2, <3>3
  <2>5. Len(entries'[i]) <= 1 /\ Right(status'[i], total'[i], entries'[i])
    BY <2>3, <2>4 DEF Right
  <2>6. ~mode.moving /\ paid[i] > 0 => status[i] \in PaidFor
    BY <2>2 DEF Serial, Shown
  <2>. QED  BY <2>1, <2>2, <2>3, <2>5, <2>6, AtWork, IdleCurrent, SerialBy
<1>12. ASSUME NEW c \in Clerk, NEW i \in Invoice, NEW a \in Amount,
              PayRead(c, i, a)
       PROVE Serial'
  <2>. DEFINE j == [NoJob EXCEPT !.at = "pay", !.inv = i, !.total = total[i],
                                 !.amount = a]
  <2>1. j \in Job /\ j.at = "pay" /\ j.inv = i
    BY InvoiceAssumption DEF InvoiceAssumption, NoJob, Job, Step, Status
  <2>2. At(c, "none") /\ \A d \in Clerk \ {c} : At(d, "none")
    BY <1>12, Starter DEF PayRead
  <2>3. job' = [job EXCEPT ![c] = j] /\ UNCHANGED <<status, total, paid, entries>>
    BY <1>12 DEF PayRead, invoiceVars
  <2>4. Current(j, status[i], total[i], entries[i])
    BY <2>1 DEF Current, Booking
  <2>5. Right(status[i], total[i], entries[i])
    BY <2>2, RightAt DEF At, Booking
  <2>. HIDE DEF j
  <2>. QED  BY <2>1, <2>2, <2>3, <2>4, <2>5, SerialByReader
<1>13. ASSUME NEW c \in Clerk, PayInsert(c) PROVE Serial'
  <2>. DEFINE i == job[c].inv
              s == Settled(paid[i], job[c].amount, job[c].total)
              j == [job[c] EXCEPT !.at = "pay_open", !.status = s]
  <2>1. ~At(c, "none") /\ At(c, "pay") /\ job[c].at \notin Booking
    BY <1>13 DEF PayInsert, At, Booking
  <2>2. /\ i \in Invoice /\ s \in PaidFor
        /\ \A d \in Clerk \ {c} : At(d, "none")
    BY <2>1, AtWork, SettledType DEF JobPriced, At, PaidFor
  <2>3. job' = [job EXCEPT ![c] = j] /\ UNCHANGED <<status, total, paid, entries>>
    BY <1>13 DEF PayInsert, invoiceVars
  <2>. HIDE DEF s
  <2>4. j \in Job /\ j.at = "pay_open" /\ j.inv = i /\ j.status = s
    BY <2>2 DEF Job, Step, Status, PaidFor
  <2>5. Current(j, status[i], total[i], entries[i])
    BY <2>2, <2>4 DEF Current, Booking
  <2>. HIDE DEF j
  <2>. QED  BY <2>1, <2>2, <2>3, <2>4, <2>5, RightAt, SerialByReader
<1>14. ASSUME NEW c \in Clerk, PayCommit(c) PROVE Serial'
  <2>. DEFINE i == job[c].inv
  <2>1. ~At(c, "none") /\ At(c, "pay_open")
    BY <1>14 DEF PayCommit, At
  <2>2. i \in Invoice /\ job[c].status \in PaidFor
    BY <2>1, AtWork DEF Current, At
  <2>3. /\ UNCHANGED <<total, entries>> /\ job' = [job EXCEPT ![c] = NoJob]
        /\ status' = [status EXCEPT ![i] = job[c].status]
        /\ \A k \in Invoice \ {i} : paid'[k] = paid[k]
    BY <1>14 DEF PayCommit, Done
  <2>4. status'[i] \in PaidFor /\ Right(status'[i], total'[i], entries'[i])
    BY <2>2, <2>3 DEF Right, PaidFor
  <2>5. Len(entries[i]) <= 1
    BY <2>2 DEF Serial, BookedOnce
  <2>. QED  BY <2>1, <2>2, <2>3, <2>4, <2>5, AtWork, IdleCurrent, SerialBy
<1>15. ASSUME NEW c \in Clerk, NEW i \in Invoice, NEW t \in Price,
              NEW a \in Amount \cup {0}, Sale(c, i, t, a)
       PROVE Serial'
  <2>1. At(c, "none") /\ \A d \in Clerk \ {c} : At(d, "none")
    BY <1>15, Starter DEF Sale
  <2>2. t \in Nat /\ a \in Nat /\ (a # 0 => Settled(0, a, t) \in PaidFor)
    BY SettledType, InvoiceAssumption DEF InvoiceAssumption, PaidFor
  <2>3. /\ status'[i] = (IF a = 0 THEN "issued" ELSE Settled(0, a, t))
        /\ total'[i] = t /\ paid'[i] = a
        /\ entries'[i] = Book(entries[i], t)
        /\ \A k \in Invoice \ {i} :
             /\ status'[k] = status[k] /\ total'[k] = total[k]
             /\ paid'[k] = paid[k] /\ entries'[k] = entries[k]
        /\ job' = [job EXCEPT ![c] = job[c]]
    BY <1>15 DEF Sale
  <2>4. entries'[i] = <<t>>
    BY <2>2, <2>3, BookRight DEF Serial, BookedOnce
  <2>5. Len(entries'[i]) <= 1 /\ Right(status'[i], total'[i], entries'[i])
    BY <2>3, <2>4 DEF Right
  <2>6. paid'[i] > 0 => status'[i] \in PaidFor
    BY <2>2, <2>3
  <2>7. Current(job[c], status'[i], total'[i], entries'[i]) /\ job[c] \in Job
    BY <2>1 DEF Current, At, Booking
  <2>8. job[c].at = "none"
    BY <2>1 DEF At
  <2>. QED  BY <2>1, <2>3, <2>5, <2>6, <2>7, <2>8, SerialBy
<1>16. ASSUME NEW c \in Clerk, NEW i \in Invoice, DeleteInvoice(c, i)
       PROVE Serial'
  <2>1. At(c, "none") /\ \A d \in Clerk \ {c} : At(d, "none")
    BY <1>16, Starter DEF DeleteInvoice
  <2>2. /\ status' = [status EXCEPT ![i] = "absent"]
        /\ paid' = [paid EXCEPT ![i] = 0] /\ UNCHANGED <<total, entries>>
        /\ job' = [job EXCEPT ![c] = job[c]]
    BY <1>16 DEF DeleteInvoice
  <2>3. Len(entries[i]) <= 1 /\ Right(status'[i], total'[i], entries'[i])
    BY <2>2 DEF Right, Serial, BookedOnce
  <2>4. Current(job[c], status'[i], total'[i], entries'[i]) /\ job[c] \in Job
    BY <2>1 DEF Current, At, Booking
  <2>5. job[c].at = "none" /\ ~(paid'[i] > 0)
    BY <2>1, <2>2 DEF At
  <2>. QED  BY <2>1, <2>2, <2>3, <2>4, <2>5, SerialBy
<1>17. ASSUME NEW c \in Clerk, NEW i \in Invoice, DeleteEntry(c, i)
       PROVE Serial'
  <2>1. At(c, "none") /\ \A d \in Clerk \ {c} : At(d, "none")
    BY <1>17, Starter DEF DeleteEntry
  <2>2. /\ UNCHANGED <<status, total, paid>> /\ entries[i] # <<>>
        /\ entries' = [entries EXCEPT ![i] = Tail(entries[i])]
        /\ job' = [job EXCEPT ![c] = job[c]]
    BY <1>17 DEF DeleteEntry, invoiceVars
  <2>3. entries'[i] = <<>>
    BY <2>2, LastEntry DEF Serial, BookedOnce
  <2>4. Len(entries'[i]) <= 1 /\ Right(status'[i], total'[i], entries'[i])
    BY <2>3 DEF Right
  <2>5. Current(job[c], status'[i], total'[i], entries'[i]) /\ job[c] \in Job
    BY <2>1 DEF Current, At, Booking
  <2>6. /\ job[c].at = "none"
        /\ ~mode.moving /\ paid[i] > 0 => status[i] \in PaidFor
    BY <2>1 DEF At, Serial, Shown
  <2>. QED  BY <2>1, <2>2, <2>4, <2>5, <2>6, SerialBy
<1>18. ASSUME NEW c \in Clerk, RequestFails(c) PROVE Serial'
  <2>. DEFINE i == job[c].inv
  <2>1. /\ ~At(c, "none") /\ Refused(c) /\ job' = [job EXCEPT ![c] = NoJob]
        /\ UNCHANGED <<status, total, paid, entries>>
    BY <1>0, <1>18 DEF RequestFails, Done, invoiceVars
  <2>2. /\ i \in Invoice /\ \A d \in Clerk \ {c} : At(d, "none")
        /\ Current(job[c], status[i], total[i], entries[i])
    BY <2>1, AtWork
  <2>3. Right(status[i], total[i], entries[i])
    <3>1. CASE job[c].at \notin Booking
      BY <2>2, <3>1, RightAt
    <3>2. CASE job[c].at \in Booking
      <4>1. job[c].total = total[i] /\ At(c, "edit_book")
        BY <2>1, <2>2, <3>2 DEF Current, Refused, At, Booking
      <4>2. ~Bookable(total[i])
        BY <2>1, <2>2, <4>1 DEF Refused, Current, At
      <4>. QED  BY <4>2 DEF Right
    <3>. QED  BY <3>1, <3>2
  <2>. QED  BY <2>1, <2>2, <2>3, IdleCurrent, SerialByReader
<1>19. ASSUME NEW c \in Clerk, NEW i \in Invoice, NEW a \in Amount \cup {0},
              NEW b \in Amount \cup {0}, Repay(c, i, a, b)
       PROVE Serial'
  <2>1. At(c, "none") /\ \A d \in Clerk \ {c} : At(d, "none")
    BY <1>19, Starter DEF Repay
  <2>2. /\ UNCHANGED <<status, total, entries>>
        /\ \A k \in Invoice \ {i} : paid'[k] = paid[k]
        /\ job' = [job EXCEPT ![c] = job[c]]
    BY <1>19 DEF Repay
  <2>3. Len(entries[i]) <= 1 /\ Right(status[i], total[i], entries[i])
    BY <2>1, RightAt DEF At, Booking, Serial, BookedOnce
  <2>4. Current(job[c], status'[i], total'[i], entries'[i]) /\ job[c] \in Job
    BY <2>1 DEF Current, At, Booking
  <2>5. ~mode.moving => paid[i] > 0
    <3>1. a \in Nat /\ (a = 0 => mode.moving) /\ paid[i] >= a
      BY <1>19, InvoiceAssumption DEF Repay, InvoiceAssumption
    <3>. QED  BY <3>1
  <2>6. /\ job[c].at = "none"
        /\ ~mode.moving /\ paid'[i] > 0 => status'[i] \in PaidFor
    BY <2>1, <2>2, <2>5 DEF At, Serial, Shown
  <2>. QED  BY <2>1, <2>2, <2>3, <2>4, <2>6, SerialBy
<1>20. CASE UNCHANGED vars
  <2>1. UNCHANGED <<status, total, paid, entries, job>>
    BY <1>20 DEF vars, invoiceVars
  <2>2. Alone' /\ CopiesCurrent'
    BY <2>1 DEF Serial, Alone, CopiesCurrent, At
  <2>3. Shown' /\ BookedOnce' /\ EntriesRight'
    BY <2>1 DEF Serial, Shown, BookedOnce, EntriesRight
  <2>. QED  BY <2>2, <2>3 DEF Serial
<1>. QED
  BY <1>1, <1>2, <1>3, <1>4, <1>5, <1>6, <1>7, <1>8, <1>9, <1>10, <1>11,
     <1>12, <1>13, <1>14, <1>15, <1>16, <1>17, <1>18, <1>19,
     <1>20 DEF Next, ClerkStep

LEMMA SerialInvInit == Init => SerialInv
BY TypedInit, SerialInit DEF SerialInv

LEMMA SerialInvStep == SerialInv /\ [Next]_vars => SerialInv'
<1>. SUFFICES ASSUME SerialInv, [Next]_vars PROVE SerialInv'
  OBVIOUS
<1>1. Typed'
  BY TypedStep DEF SerialInv
<1>2. OneByOne' => OneByOne
  BY DEF Next, vars, OneByOne
<1>3. OneByOne => Serial'
  BY SerialStep DEF SerialInv
<1>. QED  BY <1>1, <1>2, <1>3 DEF SerialInv

-----------------------------------------------------------------------------
(* With one request at a time, once it is over, the entry of an issued     *)
(* invoice that still has one is of its total, through any edits, sales,   *)
(* payments and deletions.                                                 *)
THEOREM InvoiceJournalMatches == Spec => []JournalMatchesIssued
<1>1. SerialInv => JournalMatchesIssued
  <2>. SUFFICES ASSUME SerialInv, OneByOne, NEW i \in Invoice,
                       status[i] = "issued", entries[i] # <<>>, Quiet(i),
                       Bookable(total[i])
                PROVE  entries[i] = <<total[i]>>
    BY DEF JournalMatchesIssued
  <2>. QED  BY DEF SerialInv, Serial, EntriesRight, Quiet, Right
<1>. QED  BY <1>1, SerialInvInit, SerialInvStep, PTL DEF Spec

(* ... an invoice that has been paid for says so, unless payments are moved *)
(* from one invoice to another: a payment moved to it is not counted.       *)
THEOREM InvoicePaidIsShown == Spec => []PaidIsShown
<1>1. SerialInv => PaidIsShown
  BY DEF SerialInv, Serial, Shown, PaidFor, PaidIsShown
<1>. QED  BY <1>1, SerialInvInit, SerialInvStep, PTL DEF Spec

(* ... and no step makes an issued invoice a draft again: the status that  *)
(* an edit saves is the one the invoice still has.                         *)
THEOREM InvoiceNeverUnissued == Spec => NeverUnissued
<1>. DEFINE Kept_issued ==
       \A i \in Invoice :
         OneByOne /\ status[i] \in {"issued", "partially_paid", "paid"}
           => status'[i] # "draft"
<1>1. SerialInv /\ [Next]_vars => [Kept_issued]_vars
  <2>. SUFFICES ASSUME SerialInv, Next, OneByOne, NEW i \in Invoice,
                       status[i] \in {"issued", "partially_paid", "paid"}
                PROVE  status'[i] # "draft"
    OBVIOUS
  <2>. USE DEF SerialInv, Typed, TypeOK
  <2>1. ASSUME NEW c \in Clerk, EditSave(c) PROVE status'[i] # "draft"
    <3>1. ~At(c, "none") /\ At(c, "edit_save")
      BY <2>1 DEF EditSave, At
    <3>2. job[c].status = status[job[c].inv]
      BY <3>1, AtWork DEF Current, At
    <3>. QED  BY <2>1, <3>2 DEF EditSave, SavedAs
  <2>2. ASSUME NEW c \in Clerk, PayCommit(c) PROVE status'[i] # "draft"
    <3>1. ~At(c, "none") /\ At(c, "pay_open")
      BY <2>2 DEF PayCommit, At
    <3>2. job[c].status \in PaidFor
      BY <3>1, AtWork DEF Current, At
    <3>. QED  BY <2>2, <3>2 DEF PayCommit, PaidFor
  <2>3. ASSUME NEW c \in Clerk, NEW k \in Invoice, NEW t \in Price,
               CreateRow(c, k, t)
        PROVE status'[i] # "draft"
    BY <2>3 DEF CreateRow, New, Exists
  <2>4. ASSUME NEW c \in Clerk, NEW k \in Invoice, NEW t \in Price,
               NEW a \in Amount \cup {0}, Sale(c, k, t, a)
        PROVE status'[i] # "draft"
    BY <2>4 DEF Sale, New, Exists
  <2>5. ASSUME NEW c \in Clerk, IssueWrite(c) PROVE status'[i] # "draft"
    BY <2>5 DEF IssueWrite
  <2>6. ASSUME NEW c \in Clerk, NEW k \in Invoice, DeleteInvoice(c, k)
        PROVE status'[i] # "draft"
    BY <2>6 DEF DeleteInvoice
  <2>. QED
    BY <2>1, <2>2, <2>3, <2>4, <2>5, <2>6
       DEF Next, ClerkStep, CreateLines, IssueRead, EditRead, EditKeep,
           EditDropLines, EditNewLines, EditCheck, EditBook, PayRead, PayInsert,
           Repay, DeleteEntry, RequestFails, invoiceVars
<1>. QED  BY <1>1, SerialInvInit, SerialInvStep, PTL DEF Spec, NeverUnissued
-----------------------------------------------------------------------------
(* Sales.  A step of SalesBook is a step of InvoiceBook, or leaves the     *)
(* invoices alone: what is proved above holds of a company that also sells. *)
LEMMA SaleIsInvoiceStep == [SalesNext]_salesVars => [Next]_vars
<1>. SUFFICES ASSUME [SalesNext]_salesVars PROVE [Next]_vars
  OBVIOUS
<1>1. ASSUME NEW c \in Clerk, mode' = mode, InvoiceStep(c) PROVE Next
  BY <1>1 DEF InvoiceStep, Next
<1>2. ASSUME NEW c \in Clerk, mode' = mode, NEW i \in Invoice, NEW x \in Expense,
             NEW cost \in Cost, SaleCommit(c, i, x, cost)
      PROVE Next
  <2>1. PICK t \in Price : Sale(c, i, t, 0)
    BY <1>2 DEF SaleCommit
  <2>2. ClerkStep(c)
    BY <2>1 DEF ClerkStep
  <2>. QED  BY <1>2, <2>2 DEF Next
<1>. QED  BY <1>1, <1>2 DEF SalesNext, salesVars, bookVars, vars

THEOREM SalesRefineInvoices == SalesSpec => Spec
<1>1. SalesInit => Init
  BY DEF SalesInit
<1>. QED  BY <1>1, SaleIsInvoiceStep, PTL DEF SalesSpec, Spec

-----------------------------------------------------------------------------
(* The stock.  Every copy that a request under way writes back, plus or    *)
(* minus what it moves, was tested not to be negative.                     *)
ExpenseRow == [status : {"absent", "draft", "approved"}, amount : Nat]
Reserved(c) ==
  /\ desk[c].at \in {"correct", "correct_log", "item_set", "item_keep"} =>
       desk[c].lines # <<>>
  /\ Doing(c, "correct") => desk[c].lines[1].copy + desk[c].lines[1].quantity >= 0
  /\ Doing(c, "sale") =>
       \A k \in DOMAIN desk[c].lines : desk[c].lines[k].copy >= desk[c].lines[k].quantity
StockSafe ==
  /\ stock \in [Item -> Nat]
  /\ expense \in [Expense -> ExpenseRow]
  /\ desk \in [Clerk -> Desk]
  /\ \A c \in Clerk : Reserved(c)

LEMMA NoDeskType == NoDesk \in Desk
BY DEF NoDesk, Desk, DeskStep

LEMMA StockInit == SalesInit => StockSafe
BY NoDeskType, SalesAssumption
   DEF SalesAssumption, SalesInit, StockSafe, ExpenseRow, NoRow, Reserved, Doing, NoDesk

LEMMA FirstLine ==
  ASSUME NEW ls \in Seq(Line), ls # <<>> PROVE 1 \in DOMAIN ls /\ ls[1] \in Line
BY EmptySeq

LEMMA CopiedType ==
  ASSUME StockSafe, NEW p \in Item, NEW q \in Int PROVE Copied(p, q) \in Line
BY DEF StockSafe, Copied, Line

(* A request that takes d leaves the desks safe ...                        *)
LEMMA TakesSafely ==
  ASSUME StockSafe, NEW c \in Clerk, NEW d \in Desk, Takes(c, d),
         d.at \in {"correct", "correct_log", "item_set", "item_keep"} => d.lines # <<>>,
         d.at = "correct" => d.lines[1].copy + d.lines[1].quantity >= 0,
         d.at = "sale" => \A k \in DOMAIN d.lines : d.lines[k].copy >= d.lines[k].quantity
  PROVE  desk' \in [Clerk -> Desk] /\ \A b \in Clerk : Reserved(b)'
BY DEF StockSafe, Takes, Reserved, Doing

(* ... as does one that leaves, or goes on to a step that needs no more.   *)
LEMMA LeavesSafely ==
  ASSUME StockSafe, NEW c \in Clerk, Leaves(c)
  PROVE  desk' \in [Clerk -> Desk] /\ \A b \in Clerk : Reserved(b)'
<1>1. Takes(c, NoDesk)
  BY DEF Leaves, Takes
<1>2. NoDesk.at = "none"
  BY DEF NoDesk
<1>. QED  BY <1>1, <1>2, NoDeskType, TakesSafely

LEMMA GoesOnSafely ==
  ASSUME StockSafe, NEW c \in Clerk, NEW step \in DeskStep, GoesOn(c, step),
         step \notin {"correct", "item_set", "item_keep", "sale"},
         step = "correct_log" => desk[c].lines # <<>>
  PROVE  desk' \in [Clerk -> Desk] /\ \A b \in Clerk : Reserved(b)'
<1>1. Takes(c, [desk[c] EXCEPT !.at = step])
  BY DEF GoesOn, Takes, StockSafe
<1>2. /\ [desk[c] EXCEPT !.at = step] \in Desk
      /\ [desk[c] EXCEPT !.at = step].at = step
      /\ [desk[c] EXCEPT !.at = step].lines = desk[c].lines
  BY DEF StockSafe, Desk
<1>. QED  BY <1>1, <1>2, TakesSafely
LEMMA RestType ==
  ASSUME StockSafe, NEW c \in Clerk, Doing(c, "sale"), NEW p \in Item
  PROVE  Rest(desk[c].lines, p) \in Nat
<1>. DEFINE ls == desk[c].lines
            latest == {k \in OfItem(ls, p) : \A n \in OfItem(ls, p) : n <= k}
            k == CHOOSE k \in latest : TRUE
<1>1. CASE latest = {}
  <2>1. Rest(ls, p) = stock[p]
    BY <1>1 DEF Rest
  <2>. QED  BY <2>1 DEF StockSafe
<1>2. CASE latest # {}
  <2>1. k \in latest
    BY <1>2
  <2>2. k \in DOMAIN ls
    BY <2>1 DEF OfItem
  <2>3. ls \in Seq(Line)
    BY DEF StockSafe, Desk
  <2>4. ls[k] \in Line
    <3>. HIDE DEF k
    <3>1. k \in 1..Len(ls)
      BY <2>2, <2>3
    <3>. QED  BY <2>3, <3>1, ElementOfSeq
  <2>5. ls[k].copy >= ls[k].quantity
    BY <2>2 DEF StockSafe, Reserved
  <2>6. Rest(ls, p) = ls[k].copy - ls[k].quantity
    BY <1>2 DEF Rest
  <2>. QED  BY <2>4, <2>5, <2>6 DEF Line
<1>. QED  BY <1>1, <1>2

LEMMA StockStep == StockSafe /\ [SalesNext]_salesVars => StockSafe'
<1>. SUFFICES ASSUME StockSafe, [SalesNext]_salesVars PROVE StockSafe'
  OBVIOUS
<1>. USE DEF StockSafe
<1>1. ASSUME NEW c \in Clerk, NEW p \in Item, NEW q \in Int, Correct(c, p, q)
      PROVE StockSafe'
  <2>. DEFINE d == [NoDesk EXCEPT !.at = "correct", !.lines = <<Copied(p, q)>>]
  <2>1. d \in Desk /\ d.at = "correct" /\ d.lines = <<Copied(p, q)>>
    <3>1. <<Copied(p, q)>> \in Seq(Line)
      BY CopiedType
    <3>. QED  BY <3>1 DEF NoDesk, Desk, DeskStep
  <2>2. d.lines # <<>> /\ d.lines[1].copy + d.lines[1].quantity >= 0
    BY <1>1, <2>1 DEF Correct, Copied, Available
  <2>3. Takes(c, d)
    BY <1>1 DEF Correct
  <2>. QED  BY <1>1, <2>1, <2>2, <2>3, TakesSafely DEF Correct, stockVars, expenseVars
<1>2. ASSUME NEW c \in Clerk, CorrectSave(c) PROVE StockSafe'
  <2>1. desk[c].lines \in Seq(Line) /\ desk[c].lines # <<>>
    BY <1>2 DEF CorrectSave, Doing, Reserved, Desk
  <2>2. desk[c].lines[1] \in Line
    BY <2>1, FirstLine
  <2>3. desk[c].lines[1].copy + desk[c].lines[1].quantity >= 0
    BY <1>2 DEF CorrectSave, Reserved
  <2>4. stock' \in [Item -> Nat]
    BY <1>2, <2>2, <2>3 DEF CorrectSave, Line
  <2>5. desk' \in [Clerk -> Desk] /\ \A b \in Clerk : Reserved(b)'
    BY <1>2, <2>1, GoesOnSafely DEF CorrectSave, DeskStep
  <2>. QED  BY <1>2, <2>4, <2>5 DEF CorrectSave, expenseVars
<1>3. ASSUME NEW c \in Clerk, CorrectLog(c) PROVE StockSafe'
  BY <1>3, LeavesSafely DEF CorrectLog, expenseVars
<1>4. ASSUME NEW c \in Clerk, NEW p \in Item, NEW n \in Quantity \cup {0, Keep},
             EditItem(c, p, n)
      PROVE StockSafe'
  <2>. DEFINE at == IF n = Keep THEN "item_keep" ELSE "item_set"
              line == IF n = Keep THEN Copied(p, 0) ELSE [Copied(p, 0) EXCEPT !.copy = n]
              d == [NoDesk EXCEPT !.at = at, !.lines = <<line>>]
  <2>1. line \in Line
    <3>1. Copied(p, 0) \in Line
      BY CopiedType
    <3>2. n # Keep => n \in Nat
      BY SalesAssumption DEF SalesAssumption
    <3>. QED  BY <3>1, <3>2 DEF Line, Copied
  <2>2. d \in Desk /\ d.at \in {"item_keep", "item_set"} /\ d.lines # <<>>
    <3>. HIDE DEF line
    <3>1. <<line>> \in Seq(Line) /\ <<line>> # <<>>
      BY <2>1
    <3>2. at \in {"item_keep", "item_set"}
      OBVIOUS
    <3>. QED  BY <3>1, <3>2 DEF NoDesk, Desk, DeskStep
  <2>3. Takes(c, d)
    BY <1>4 DEF EditItem
  <2>. QED  BY <1>4, <2>2, <2>3, TakesSafely DEF EditItem, stockVars, expenseVars
<1>5. ASSUME NEW c \in Clerk, EditItemSave(c) PROVE StockSafe'
  <2>1. desk[c].lines \in Seq(Line) /\ desk[c].lines # <<>>
    BY <1>5 DEF EditItemSave, Doing, Reserved, Desk
  <2>2. desk[c].lines[1] \in Line
    BY <2>1, FirstLine
  <2>3. stock' \in [Item -> Nat]
    BY <1>5, <2>2 DEF EditItemSave, Line
  <2>. QED  BY <1>5, <2>3, LeavesSafely DEF EditItemSave, expenseVars
<1>6. ASSUME NEW c \in Clerk, NEW b \in Basket, SaleRead(c, b) PROVE StockSafe'
  <2>. DEFINE ls == [k \in DOMAIN b |-> Copied(b[k].item, b[k].quantity)]
              d == [NoDesk EXCEPT !.at = "sale", !.lines = ls]
  <2>1. b \in Seq([item : Item, quantity : Nat \ {0}])
    BY SalesAssumption DEF SalesAssumption
  <2>2. \A k \in DOMAIN b : b[k].item \in Item /\ b[k].quantity \in Nat
    <3>1. ASSUME NEW k \in DOMAIN b PROVE b[k] \in [item : Item, quantity : Nat \ {0}]
      <4>1. k \in 1..Len(b)
        BY <2>1, <3>1
      <4>. HIDE DEF ls
      <4>. QED  BY <2>1, <4>1, ElementOfSeq
    <3>. QED  BY <3>1
  <2>3. \A k \in DOMAIN b : Copied(b[k].item, b[k].quantity) \in Line
    BY <2>2, CopiedType
  <2>4. ls \in Seq(Line)
    <3>1. DOMAIN b = 1..Len(b) /\ Len(b) \in Nat
      BY <2>1
    <3>2. ls \in [1..Len(b) -> Line]
      BY <2>3, <3>1
    <3>. QED  BY <3>1, <3>2
  <2>5. d \in Desk /\ d.at = "sale" /\ d.lines = ls
    BY NoDeskType, <2>4 DEF NoDesk, Desk, DeskStep
  <2>6. \A k \in DOMAIN ls : ls[k].copy >= ls[k].quantity
    BY <1>6 DEF SaleRead, Available, Copied
  <2>7. Takes(c, d)
    BY <1>6 DEF SaleRead
  <2>. QED  BY <1>6, <2>5, <2>6, <2>7, TakesSafely DEF SaleRead, stockVars, expenseVars
<1>7. ASSUME NEW c \in Clerk, NEW i \in Invoice, NEW x \in Expense, NEW cost \in Cost,
             SaleCommit(c, i, x, cost)
      PROVE StockSafe'
  <2>1. stock' \in [Item -> Nat]
    BY <1>7, RestType DEF SaleCommit
  <2>2. expense' \in [Expense -> ExpenseRow]
    BY <1>7, SalesAssumption DEF SalesAssumption, SaleCommit, expenseVars, ExpenseRow
  <2>. QED  BY <1>7, <2>1, <2>2, LeavesSafely DEF SaleCommit
<1>8. ASSUME NEW c \in Clerk, NEW x \in Expense, NEW s \in Payable, NEW m \in Cost,
             CreateExpense(c, x, s, m)
      PROVE StockSafe'
  <2>1. OfExpense("look", x, s, m) \in Desk /\ OfExpense("look", x, s, m).at = "look"
    BY NoDeskType, SalesAssumption
       DEF SalesAssumption, OfExpense, NoDesk, Desk, DeskStep, Payable
  <2>2. expense' \in [Expense -> ExpenseRow]
    BY <1>8, SalesAssumption DEF SalesAssumption, CreateExpense, ExpenseRow, Payable
  <2>. QED  BY <1>8, <2>1, <2>2, TakesSafely DEF CreateExpense, stockVars
<1>9. ASSUME NEW c \in Clerk, NEW x \in Expense, NEW s \in Payable \cup {Keep},
             NEW m \in Cost \cup {Keep}, EditExpense(c, x, s, m)
      PROVE StockSafe'
  <2>. DEFINE d == OfExpense("check", x, IF s = Keep THEN expense[x].status ELSE s,
                             IF m = Keep THEN expense[x].amount ELSE m)
  <2>1. d \in Desk /\ d.at = "check"
    BY <1>9, NoDeskType, SalesAssumption
       DEF EditExpense, ThereIs, ExpenseRow, SalesAssumption, OfExpense, NoDesk, Desk,
           DeskStep, Payable
  <2>2. Takes(c, d)
    BY <1>9 DEF EditExpense
  <2>. QED  BY <1>9, <2>1, <2>2, TakesSafely DEF EditExpense, stockVars, expenseVars
<1>10. ASSUME NEW c \in Clerk, EditExpenseCheck(c) PROVE StockSafe'
  BY <1>10, GoesOnSafely DEF EditExpenseCheck, DeskStep, stockVars, expenseVars
<1>11. ASSUME NEW c \in Clerk, EditExpenseSave(c) PROVE StockSafe'
  <2>1. expense' \in [Expense -> ExpenseRow]
    BY <1>11 DEF EditExpenseSave, ExpenseRow, Desk
  <2>. QED  BY <1>11, <2>1, GoesOnSafely DEF EditExpenseSave, DeskStep, stockVars
<1>12. ASSUME NEW c \in Clerk, NEW x \in Expense, ApproveExpense(c, x)
       PROVE StockSafe'
  <2>. DEFINE d == OfExpense("approve", x, "approved", expense[x].amount)
  <2>1. d \in Desk /\ d.at = "approve"
    BY NoDeskType DEF ExpenseRow, OfExpense, NoDesk, Desk, DeskStep
  <2>. QED  BY <1>12, <2>1, TakesSafely DEF ApproveExpense, stockVars, expenseVars
<1>13. ASSUME NEW c \in Clerk, ApproveSave(c) PROVE StockSafe'
  <2>1. expense' \in [Expense -> ExpenseRow]
    BY <1>13 DEF ApproveSave, ExpenseRow
  <2>. QED  BY <1>13, <2>1, GoesOnSafely DEF ApproveSave, DeskStep, stockVars
<1>14. ASSUME NEW c \in Clerk, BookExpenseLook(c) PROVE StockSafe'
  <2>. DEFINE d == [desk[c] EXCEPT !.at = "book",
                                   !.found = booked[desk[c].expense] # <<>>]
  <2>1. d \in Desk /\ d.at = "book"
    BY DEF Desk, DeskStep
  <2>2. Takes(c, d)
    BY <1>14 DEF BookExpenseLook, Takes
  <2>. QED  BY <1>14, <2>1, <2>2, TakesSafely DEF BookExpenseLook, stockVars, expenseVars
<1>15. ASSUME NEW c \in Clerk, BookExpense(c) PROVE StockSafe'
  BY <1>15, LeavesSafely DEF BookExpense, stockVars
<1>16. ASSUME NEW c \in Clerk, NEW x \in Expense, DeleteExpense(c, x)
       PROVE StockSafe'
  BY <1>16 DEF DeleteExpense, ExpenseRow, NoRow, stockVars, Reserved, Doing
<1>17. ASSUME NEW c \in Clerk, TradeFails(c) PROVE StockSafe'
  BY <1>17, LeavesSafely DEF TradeFails, stockVars, expenseVars
<1>18. CASE UNCHANGED <<stockVars, expenseVars, desk>>
  BY <1>18 DEF stockVars, expenseVars, Reserved, Doing
<1>19. Quantity \subseteq Int /\ \A q \in Quantity : -q \in Int
  BY SalesAssumption DEF SalesAssumption
<1>20. ASSUME NEW c \in Clerk, DeskSteps(c) PROVE StockSafe'
  BY <1>20, <1>1, <1>2, <1>3, <1>4, <1>5, <1>6, <1>8, <1>9, <1>10, <1>11, <1>12,
     <1>13, <1>14, <1>15, <1>16, <1>17, <1>19
     DEF DeskSteps
<1>. QED  BY <1>7, <1>18, <1>20 DEF SalesNext, InvoiceStep, salesVars

(* However stale the copies are that sales, corrections and edits write    *)
(* back, in any overlap and with any failure, no stock becomes negative.   *)
THEOREM SalesStockNeverNegative == SalesSpec => []StockNeverNegative
<1>1. StockSafe => StockNeverNegative
  BY DEF StockSafe, StockNeverNegative
<1>. QED  BY <1>1, StockInit, StockStep, PTL DEF SalesSpec
-----------------------------------------------------------------------------
(* The expenses, with one request at a time.  The copy of the one request  *)
(* under way agrees with the row, what is posted agrees with the row, and  *)
(* an approved expense that is not being posted has been.                  *)
Posting(c) == desk[c].at \in {"look", "book"}
CopyRight(c) ==
  /\ desk[c].at \in {"check", "save", "approve", "look", "book"} =>
       desk[c].expense \in Expense /\ ThereIs(desk[c].expense)
  /\ desk[c].at \in {"save", "approve"} => expense[desk[c].expense].status = "draft"
  /\ Doing(c, "approve") => /\ desk[c].status = "approved"
                            /\ desk[c].amount = expense[desk[c].expense].amount
  /\ Posting(c) => expense[desk[c].expense] =
                     [status |-> desk[c].status, amount |-> desk[c].amount]
  /\ Doing(c, "book") => /\ desk[c].amount > 0
                         /\ desk[c].found <=> booked[desk[c].expense] # <<>>
HeadRight(x) ==
  ThereIs(x) /\ booked[x] # <<>> /\ booked[x][1].posted =>
    booked[x][1] = EntryOf(expense[x].status, expense[x].amount)
IsBooked(x) == booked[x] # <<>> /\ booked[x][1].posted
AwaitsNothing(x) ==
  /\ \A c \in Clerk : Posting(c) => desk[c].expense # x
  /\ expense[x].status = "approved" /\ expense[x].amount > 0
ExpenseSerial ==
  /\ \A c, d \in Clerk : ~Doing(c, "none") /\ ~Doing(d, "none") => c = d
  /\ \A c \in Clerk : CopyRight(c)
  /\ \A x \in Expense : Len(booked[x]) <= 1 /\ HeadRight(x)
  /\ ~mode.failing => \A x \in Expense : AwaitsNothing(x) => IsBooked(x)
ExpenseInv ==
  /\ StockSafe
  /\ mode \in Modes
  /\ ~mode.overlapping => booked \in [Expense -> Seq(Entry)] /\ ExpenseSerial

LEMMA ExpenseInit == SalesInit => ExpenseInv
BY StockInit
   DEF SalesInit, Init, ExpenseInv, ExpenseSerial, CopyRight, HeadRight, IsBooked,
       AwaitsNothing, Posting, Doing, NoDesk, NoRow

LEMMA OneLong ==
  ASSUME NEW es \in Seq(Entry), Len(es) <= 1, es # <<>>
  PROVE  Len(es) = 1 /\ 1 \in 1..Len(es)
<1>1. Len(es) \in Nat \ {0}
  BY EmptySeq
<1>2. \A n \in Nat \ {0} : n <= 1 => n = 1
  OBVIOUS
<1>3. Len(es) = 1
  BY <1>1, <1>2, Zenon
<1>. QED  BY <1>3

LEMMA ExpenseEntries ==
  ASSUME NEW es \in Seq(Entry), Len(es) <= 1, NEW e \in Entry, NEW r,
         r = IF es # <<>> THEN [es EXCEPT ![1] = e] ELSE Append(es, e)
  PROVE  r \in Seq(Entry) /\ Len(r) = 1 /\ r[1] = e /\ r # <<>>
<1>1. CASE es = <<>>
  BY <1>1
<1>2. CASE es # <<>>
  <2>1. Len(es) = 1 /\ 1 \in 1..Len(es)
    BY <1>2, OneLong
  <2>. QED  BY <1>2, <2>1, ExceptSeq, EmptySeq
<1>. QED  BY <1>1, <1>2

LEMMA EntryOfType == ASSUME NEW s, NEW m \in Nat PROVE EntryOf(s, m) \in Entry
BY DEF EntryOf, Entry

(* Whoever makes a step is the only one at work.                           *)
LEMMA OnlyOne ==
  ASSUME ExpenseSerial, mode \in Modes, ~mode.overlapping, NEW c \in Clerk,
         MayTrade(c) \/ ~Doing(c, "none")
  PROVE  \A b \in Clerk : b # c => Doing(b, "none")
<1>1. mode.overlapping \in BOOLEAN
  BY InvoiceAssumption DEF InvoiceAssumption, Mode
<1>. QED  BY <1>1, Zenon DEF ExpenseSerial, MayTrade

(* So the others' copies do not matter.                                    *)
LEMMA SerialDesk ==
  ASSUME StockSafe, ExpenseSerial, mode \in Modes, ~mode.overlapping, NEW c \in Clerk,
         MayTrade(c) \/ ~Doing(c, "none"), NEW d \in Desk, Takes(c, d)
  PROVE  /\ \A a, b \in Clerk : ~Doing(a, "none")' /\ ~Doing(b, "none")' => a = b
         /\ CopyRight(c)' => \A b \in Clerk : CopyRight(b)'
         /\ desk'[c] = d
<1>1. \A b \in Clerk : b # c => Doing(b, "none") /\ desk'[b] = desk[b]
  BY OnlyOne DEF Takes, StockSafe
<1>2. desk'[c] = d
  BY DEF Takes, StockSafe
<1>. QED  BY <1>1, <1>2 DEF Doing, CopyRight, Posting

(* A request that is not about an expense.                                 *)
LEMMA SerialBystander ==
  ASSUME StockSafe, ExpenseSerial, mode \in Modes, ~mode.overlapping, mode' = mode,
         NEW c \in Clerk, MayTrade(c) \/ ~Doing(c, "none"), ~Posting(c),
         NEW d \in Desk, Takes(c, d), UNCHANGED expenseVars,
         d.at \in {"none", "correct", "correct_log", "item_set", "item_keep", "sale"}
  PROVE  ExpenseSerial'
<1>1. CopyRight(c)' /\ ~Posting(c)'
  BY SerialDesk DEF CopyRight, Posting, Doing
<1>2. \A b \in Clerk : b # c => ~Posting(b)
  BY OnlyOne DEF Posting, Doing
<1>3. \A x \in Expense : AwaitsNothing(x)' => AwaitsNothing(x)
  BY <1>2 DEF AwaitsNothing, expenseVars
<1>. QED
  BY <1>1, <1>3, SerialDesk
     DEF ExpenseSerial, HeadRight, ThereIs, IsBooked, expenseVars
(* A request about the expense x.                                          *)
LEMMA SerialAbout ==
  ASSUME StockSafe, ExpenseSerial, mode \in Modes, ~mode.overlapping, mode' = mode,
         NEW c \in Clerk, MayTrade(c) \/ ~Doing(c, "none"),
         NEW d \in Desk, Takes(c, d), CopyRight(c)',
         NEW x \in Expense, Posting(c) => desk[c].expense = x,
         \A y \in Expense \ {x} : expense'[y] = expense[y] /\ booked'[y] = booked[y],
         Len(booked'[x]) <= 1, HeadRight(x)',
         ~mode.failing /\ AwaitsNothing(x)' => IsBooked(x)'
  PROVE  ExpenseSerial'
<1>1. \A b \in Clerk : b # c => ~Posting(b)
  BY OnlyOne DEF Posting, Doing
<1>2. \A y \in Expense \ {x} :
        /\ Len(booked'[y]) <= 1 /\ HeadRight(y)'
        /\ ~mode.failing /\ AwaitsNothing(y)' => IsBooked(y)'
  <2>. SUFFICES ASSUME NEW y \in Expense \ {x}
                PROVE  /\ Len(booked'[y]) <= 1 /\ HeadRight(y)'
                       /\ ~mode.failing /\ AwaitsNothing(y)' => IsBooked(y)'
    OBVIOUS
  <2>1. expense'[y] = expense[y] /\ booked'[y] = booked[y]
    OBVIOUS
  <2>2. AwaitsNothing(y)' => AwaitsNothing(y)
    BY <1>1, <2>1 DEF AwaitsNothing
  <2>. QED  BY <2>1, <2>2 DEF ExpenseSerial, HeadRight, ThereIs, IsBooked
<1>. QED  BY <1>2, SerialDesk DEF ExpenseSerial

(* ... which does not post it and leaves it as it is.                      *)
LEMMA SerialReader ==
  ASSUME StockSafe, ExpenseSerial, mode \in Modes, ~mode.overlapping, mode' = mode,
         NEW c \in Clerk, MayTrade(c) \/ ~Doing(c, "none"), ~Posting(c),
         NEW d \in Desk, Takes(c, d), CopyRight(c)', UNCHANGED expenseVars
  PROVE  ExpenseSerial'
<1>1. \A b \in Clerk : b # c => ~Posting(b)
  BY OnlyOne DEF Posting, Doing
<1>2. \A x \in Expense : AwaitsNothing(x)' => AwaitsNothing(x)
  BY <1>1 DEF AwaitsNothing, expenseVars
<1>. QED
  BY <1>2, SerialDesk
     DEF ExpenseSerial, HeadRight, ThereIs, IsBooked, expenseVars

LEMMA SerialEdit ==
  ASSUME ExpenseInv, ~mode.overlapping, mode' = mode, NEW c \in Clerk
  PROVE  /\ \A x \in Expense, s \in Payable, m \in Cost :
              CreateExpense(c, x, s, m) => ExpenseSerial'
         /\ \A x \in Expense, s \in Payable \cup {Keep}, m \in Cost \cup {Keep} :
              EditExpense(c, x, s, m) => ExpenseSerial'
         /\ EditExpenseCheck(c) => ExpenseSerial'
         /\ EditExpenseSave(c) => ExpenseSerial'
<1>. USE DEF ExpenseInv
<1>1. ASSUME NEW x \in Expense, NEW s \in Payable, NEW m \in Cost,
             CreateExpense(c, x, s, m)
      PROVE ExpenseSerial'
  <2>. DEFINE d == OfExpense("look", x, s, m)
  <2>1. d \in Desk /\ d.at = "look" /\ d.expense = x /\ d.status = s /\ d.amount = m
    BY NoDeskType, SalesAssumption
       DEF SalesAssumption, OfExpense, NoDesk, Desk, DeskStep, Payable
  <2>2. Takes(c, d) /\ MayTrade(c) /\ ~Posting(c)
    BY <1>1 DEF CreateExpense, MayTrade, Doing, Posting
  <2>3. desk'[c] = d
    BY <2>1, <2>2, SerialDesk
  <2>4. expense' = [expense EXCEPT ![x] = [status |-> s, amount |-> m]]
        /\ booked' = booked /\ booked[x] = <<>>
    BY <1>1 DEF CreateExpense, NewExpense
  <2>5. expense'[x] = [status |-> s, amount |-> m]
    BY <2>4 DEF StockSafe
  <2>6. CopyRight(c)' /\ Posting(c)'
    BY <2>1, <2>3, <2>5 DEF CopyRight, Posting, Doing, ThereIs, Payable
  <2>7. Len(booked'[x]) <= 1 /\ HeadRight(x)'
    BY <2>4 DEF HeadRight, ExpenseSerial
  <2>8. ~AwaitsNothing(x)'
    BY <2>1, <2>3, <2>6 DEF AwaitsNothing
  <2>9. \A y \in Expense \ {x} : expense'[y] = expense[y] /\ booked'[y] = booked[y]
    BY <2>4 DEF StockSafe
  <2>. HIDE DEF d
  <2>. QED  BY <2>1, <2>2, <2>6, <2>7, <2>8, <2>9, SerialAbout
<1>2. ASSUME NEW x \in Expense, NEW s \in Payable \cup {Keep}, NEW m \in Cost \cup {Keep},
             EditExpense(c, x, s, m)
      PROVE ExpenseSerial'
  <2>. DEFINE d == OfExpense("check", x, IF s = Keep THEN expense[x].status ELSE s,
                             IF m = Keep THEN expense[x].amount ELSE m)
  <2>1. d \in Desk /\ d.at = "check" /\ d.expense = x
    BY <1>2, NoDeskType, SalesAssumption
       DEF EditExpense, ThereIs, StockSafe, ExpenseRow, SalesAssumption, OfExpense,
           NoDesk, Desk, DeskStep, Payable
  <2>2. Takes(c, d) /\ MayTrade(c) /\ ~Posting(c) /\ UNCHANGED expenseVars /\ ThereIs(x)
    BY <1>2 DEF EditExpense, MayTrade, Doing, Posting
  <2>. HIDE DEF d
  <2>3. desk'[c] = d
    BY <2>1, <2>2, SerialDesk
  <2>4. CopyRight(c)'
    BY <2>1, <2>2, <2>3 DEF CopyRight, Posting, Doing, ThereIs, expenseVars
  <2>. QED  BY <2>1, <2>2, <2>4, SerialReader
<1>3. ASSUME EditExpenseCheck(c) PROVE ExpenseSerial'
  <2>. DEFINE d == [desk[c] EXCEPT !.at = "save"]
  <2>1. d \in Desk /\ d.at = "save" /\ d.expense = desk[c].expense
    BY DEF StockSafe, Desk, DeskStep
  <2>2. Takes(c, d) /\ ~Doing(c, "none") /\ ~Posting(c) /\ UNCHANGED expenseVars
        /\ Editable(desk[c].expense)
    BY <1>3 DEF EditExpenseCheck, GoesOn, Takes, Doing, Posting
  <2>. HIDE DEF d
  <2>3. desk'[c] = d
    BY <2>1, <2>2, SerialDesk
  <2>4. CopyRight(c)
    BY DEF ExpenseSerial
  <2>5. CopyRight(c)'
    BY <1>3, <2>1, <2>2, <2>3, <2>4
       DEF EditExpenseCheck, Editable, CopyRight, Posting, Doing, ThereIs, expenseVars
  <2>. QED  BY <2>1, <2>2, <2>5, SerialReader
<1>4. ASSUME EditExpenseSave(c) PROVE ExpenseSerial'
  <2>0. PICK x \in Expense : x = desk[c].expense
    BY <1>4 DEF ExpenseSerial, EditExpenseSave, CopyRight, Doing
  <2>. DEFINE d == [desk[c] EXCEPT !.at = "look"]
  <2>1. d \in Desk /\ d.at = "look" /\ d.expense = x
        /\ d.status = desk[c].status /\ d.amount = desk[c].amount
        /\ desk[c].status \in {"draft", "approved"}
    BY <2>0 DEF StockSafe, Desk, DeskStep
  <2>2. Takes(c, d) /\ ~Doing(c, "none") /\ ~Posting(c)
    BY <1>4 DEF EditExpenseSave, GoesOn, Takes, Doing, Posting
  <2>. HIDE DEF d
  <2>3. desk'[c] = d
    BY <2>1, <2>2, SerialDesk
  <2>4. x \in Expense /\ expense[x].status = "draft" /\ ThereIs(x)
    BY <1>4, <2>0 DEF ExpenseSerial, EditExpenseSave, CopyRight, Doing
  <2>5. expense'[x] = [status |-> desk[c].status, amount |-> desk[c].amount]
        /\ booked' = booked
        /\ \A y \in Expense \ {x} : expense'[y] = expense[y]
    BY <1>4, <2>0, <2>4 DEF EditExpenseSave, StockSafe
  <2>6. CopyRight(c)' /\ Posting(c)'
    BY <2>1, <2>3, <2>4, <2>5 DEF CopyRight, Posting, Doing, ThereIs
  <2>7. Len(booked[x]) <= 1 /\ HeadRight(x)
    BY <2>4 DEF ExpenseSerial
  <2>8. EntryOf(expense[x].status, expense[x].amount).posted = FALSE
    BY <2>4 DEF EntryOf
  <2>9. booked[x] # <<>> => ~booked[x][1].posted
    BY <2>4, <2>7, <2>8, Zenon DEF HeadRight
  <2>10. HeadRight(x)'
    BY <2>5, <2>9, Zenon DEF HeadRight
  <2>11. Len(booked'[x]) <= 1
    BY <2>5, <2>7
  <2>12. \A y \in Expense \ {x} : booked'[y] = booked[y]
    BY <2>5
  <2>13. ~AwaitsNothing(x)'
    BY <2>1, <2>3, <2>6 DEF AwaitsNothing
  <2>. QED  BY <2>1, <2>2, <2>4, <2>5, <2>6, <2>10, <2>11, <2>12, <2>13, SerialAbout
<1>. QED  BY <1>1, <1>2, <1>3, <1>4
LEMMA SerialApproval ==
  ASSUME ExpenseInv, ~mode.overlapping, mode' = mode, NEW c \in Clerk
  PROVE  /\ \A x \in Expense : ApproveExpense(c, x) => ExpenseSerial'
         /\ ApproveSave(c) => ExpenseSerial'
         /\ BookExpenseLook(c) => ExpenseSerial'
         /\ BookExpense(c) => ExpenseSerial' /\ booked' \in [Expense -> Seq(Entry)]
<1>. USE DEF ExpenseInv
<1>1. ASSUME NEW x \in Expense, ApproveExpense(c, x) PROVE ExpenseSerial'
  <2>. DEFINE d == OfExpense("approve", x, "approved", expense[x].amount)
  <2>1. d \in Desk /\ d.at = "approve" /\ d.expense = x /\ d.status = "approved"
        /\ d.amount = expense[x].amount
    BY NoDeskType DEF StockSafe, ExpenseRow, OfExpense, NoDesk, Desk, DeskStep
  <2>2. Takes(c, d) /\ MayTrade(c) /\ ~Posting(c) /\ UNCHANGED expenseVars
        /\ expense[x].status = "draft"
    BY <1>1 DEF ApproveExpense, MayTrade, Doing, Posting
  <2>. HIDE DEF d
  <2>3. desk'[c] = d
    BY <2>1, <2>2, SerialDesk
  <2>4. CopyRight(c)'
    BY <2>1, <2>2, <2>3 DEF CopyRight, Posting, Doing, ThereIs, expenseVars
  <2>. QED  BY <2>1, <2>2, <2>4, SerialReader
<1>2. ASSUME ApproveSave(c) PROVE ExpenseSerial'
  <2>1. CopyRight(c) /\ Doing(c, "approve")
    BY <1>2 DEF ExpenseSerial, ApproveSave
  <2>2. PICK x \in Expense : x = desk[c].expense
    BY <2>1 DEF CopyRight, Doing
  <2>. DEFINE d == [desk[c] EXCEPT !.at = "look"]
  <2>3. d \in Desk /\ d.at = "look" /\ d.expense = x
        /\ d.status = desk[c].status /\ d.amount = desk[c].amount
    BY <2>2 DEF StockSafe, Desk, DeskStep
  <2>4. Takes(c, d) /\ ~Doing(c, "none") /\ ~Posting(c)
    BY <1>2 DEF ApproveSave, GoesOn, Takes, Doing, Posting
  <2>. HIDE DEF d
  <2>5. desk'[c] = d
    BY <2>3, <2>4, SerialDesk
  <2>6. expense[x].status = "draft" /\ desk[c].status = "approved"
        /\ desk[c].amount = expense[x].amount
    BY <2>1, <2>2 DEF CopyRight, Doing
  <2>7. expense' = [expense EXCEPT ![x].status = "approved"] /\ booked' = booked
    BY <1>2, <2>2 DEF ApproveSave
  <2>8. expense'[x] = [status |-> "approved", amount |-> expense[x].amount]
        /\ \A y \in Expense \ {x} : expense'[y] = expense[y]
    BY <2>7 DEF StockSafe, ExpenseRow
  <2>9. CopyRight(c)' /\ Posting(c)'
    BY <2>3, <2>5, <2>6, <2>8 DEF CopyRight, Posting, Doing, ThereIs
  <2>10. EntryOf(expense[x].status, expense[x].amount).posted = FALSE /\ ThereIs(x)
    BY <2>6 DEF EntryOf, ThereIs
  <2>11. Len(booked[x]) <= 1 /\ HeadRight(x)
    BY DEF ExpenseSerial
  <2>12. booked[x] # <<>> => ~booked[x][1].posted
    BY <2>10, <2>11, Zenon DEF HeadRight
  <2>13. HeadRight(x)'
    BY <2>7, <2>12, Zenon DEF HeadRight
  <2>14. Len(booked'[x]) <= 1
    BY <2>7, <2>11
  <2>15. \A y \in Expense \ {x} : booked'[y] = booked[y]
    BY <2>7
  <2>16. ~AwaitsNothing(x)'
    BY <2>3, <2>5, <2>9 DEF AwaitsNothing
  <2>. QED  BY <2>3, <2>4, <2>8, <2>9, <2>13, <2>14, <2>15, <2>16, SerialAbout
<1>3. ASSUME BookExpenseLook(c) PROVE ExpenseSerial'
  <2>1. CopyRight(c) /\ Doing(c, "look")
    BY <1>3 DEF ExpenseSerial, BookExpenseLook
  <2>2. PICK x \in Expense : x = desk[c].expense
    BY <2>1 DEF CopyRight, Doing
  <2>. DEFINE d == [desk[c] EXCEPT !.at = "book", !.found = booked[x] # <<>>]
  <2>3. d \in Desk /\ d.at = "book" /\ d.expense = x
        /\ d.status = desk[c].status /\ d.amount = desk[c].amount
    BY <2>2 DEF StockSafe, Desk, DeskStep
  <2>4. d.found = (booked[x] # <<>>)
    BY DEF StockSafe, Desk
  <2>5. Takes(c, d) /\ ~Doing(c, "none") /\ UNCHANGED expenseVars /\ desk[c].amount > 0
    BY <1>3, <2>2 DEF BookExpenseLook, Takes, Doing
  <2>. HIDE DEF d
  <2>6. desk'[c] = d
    BY <2>3, <2>5, SerialDesk
  <2>7. ThereIs(x) /\ expense[x] = [status |-> desk[c].status, amount |-> desk[c].amount]
    BY <2>1, <2>2 DEF CopyRight, Doing, Posting
  <2>8. desk'[c].found <=> booked'[x] # <<>>
    BY <2>4, <2>5, <2>6, Zenon DEF expenseVars
  <2>9. CopyRight(c)' /\ Posting(c)'
    BY <2>3, <2>5, <2>6, <2>7, <2>8 DEF CopyRight, Posting, Doing, ThereIs, expenseVars
  <2>10. \A y \in Expense : expense'[y] = expense[y] /\ booked'[y] = booked[y]
    BY <2>5 DEF expenseVars
  <2>11. Len(booked'[x]) <= 1 /\ HeadRight(x)'
    BY <2>10 DEF ExpenseSerial, HeadRight, ThereIs
  <2>12. ~AwaitsNothing(x)'
    BY <2>3, <2>6, <2>9 DEF AwaitsNothing
  <2>. QED  BY <2>2, <2>3, <2>5, <2>9, <2>10, <2>11, <2>12, SerialAbout
<1>4. ASSUME BookExpense(c)
      PROVE  ExpenseSerial' /\ booked' \in [Expense -> Seq(Entry)]
  <2>1. CopyRight(c) /\ Doing(c, "book")
    BY <1>4 DEF ExpenseSerial, BookExpense
  <2>2. PICK x \in Expense : x = desk[c].expense
    BY <2>1 DEF CopyRight, Doing
  <2>3. PICK e : e = EntryOf(desk[c].status, desk[c].amount)
    OBVIOUS
  <2>4. expense[x] = [status |-> desk[c].status, amount |-> desk[c].amount]
        /\ desk[c].amount > 0
    BY <2>1, <2>2 DEF CopyRight, Doing, Posting
  <2>5. e \in Entry
    BY <2>3, EntryOfType DEF StockSafe, Desk
  <2>6. PICK r : r = IF booked[x] # <<>> THEN [booked[x] EXCEPT ![1] = e]
                     ELSE Append(booked[x], e)
    OBVIOUS
  <2>7. desk[c].found <=> booked[x] # <<>>
    BY <2>1, <2>2 DEF CopyRight
  <2>8. booked' = [booked EXCEPT ![x] = r]
    BY <1>4, <2>2, <2>3, <2>6, <2>7, Zenon DEF BookExpense
  <2>9. booked[x] \in Seq(Entry) /\ Len(booked[x]) <= 1
    BY DEF ExpenseSerial
  <2>10. r \in Seq(Entry) /\ Len(r) = 1 /\ r[1] = e /\ r # <<>>
    BY <2>5, <2>6, <2>9, ExpenseEntries
  <2>11. booked' \in [Expense -> Seq(Entry)] /\ booked'[x] = r
         /\ \A y \in Expense \ {x} : booked'[y] = booked[y]
    BY <2>8, <2>10
  <2>12. Takes(c, NoDesk) /\ ~Doing(c, "none") /\ expense' = expense
    BY <1>4 DEF BookExpense, Leaves, Takes, Doing
  <2>13. desk'[c] = NoDesk
    BY <2>12, NoDeskType, SerialDesk
  <2>14. CopyRight(c)'
    BY <2>13 DEF CopyRight, Posting, Doing, NoDesk
  <2>15. e = EntryOf(expense[x].status, expense[x].amount)
    BY <2>3, <2>4
  <2>16. HeadRight(x)'
    BY <2>10, <2>11, <2>12, <2>15 DEF HeadRight
  <2>17. AwaitsNothing(x)' => IsBooked(x)'
    <3>1. expense[x].status = "approved" => e.posted
      BY <2>15 DEF EntryOf
    <3>. QED  BY <2>10, <2>11, <2>12, <3>1, Zenon DEF AwaitsNothing, IsBooked
  <2>18. Len(booked'[x]) <= 1
    <3>1. Len(booked'[x]) = 1
      BY <2>10, <2>11, Zenon
    <3>. QED  BY <3>1
  <2>. QED
    BY <2>2, <2>11, <2>12, <2>14, <2>16, <2>17, <2>18, NoDeskType, SerialAbout
<1>. QED  BY <1>1, <1>2, <1>3, <1>4
LEMMA SerialRest ==
  ASSUME ExpenseInv, ~mode.overlapping, mode' = mode, NEW c \in Clerk
  PROVE  /\ \A x \in Expense : DeleteExpense(c, x) => ExpenseSerial'
         /\ \A i \in Invoice, x \in Expense, cost \in Cost :
              SaleCommit(c, i, x, cost) =>
                ExpenseSerial' /\ booked' \in [Expense -> Seq(Entry)]
         /\ TradeFails(c) => ExpenseSerial'
<1>. USE DEF ExpenseInv
<1>1. ASSUME NEW x \in Expense, DeleteExpense(c, x) PROVE ExpenseSerial'
  <2>1. desk[c] \in Desk /\ Takes(c, desk[c]) /\ MayTrade(c) /\ ~Posting(c)
        /\ Doing(c, "none") /\ desk' = desk /\ booked' = booked
    BY <1>1 DEF DeleteExpense, MayTrade, Doing, Posting, Takes, StockSafe
  <2>2. ~ThereIs(x)' /\ expense'[x].status = "absent"
        /\ \A y \in Expense \ {x} : expense'[y] = expense[y]
    BY <1>1 DEF DeleteExpense, StockSafe, ThereIs, NoRow
  <2>3. CopyRight(c)'
    BY <2>1 DEF CopyRight, Posting, Doing
  <2>4. HeadRight(x)' /\ ~AwaitsNothing(x)'
    BY <2>2 DEF HeadRight, AwaitsNothing
  <2>5. Len(booked'[x]) <= 1
    BY <2>1 DEF ExpenseSerial
  <2>. QED  BY <2>1, <2>2, <2>3, <2>4, <2>5, SerialAbout
<1>2. ASSUME NEW d \in Desk, d = NoDesk, Takes(c, d)
      PROVE  desk'[c] = NoDesk /\ CopyRight(c)'
  <2>1. desk'[c] = NoDesk
    BY <1>2 DEF Takes, StockSafe
  <2>. QED  BY <2>1 DEF CopyRight, Posting, Doing, NoDesk
<1>3. ASSUME NEW i \in Invoice, NEW x \in Expense, NEW cost \in Cost,
             SaleCommit(c, i, x, cost)
      PROVE  ExpenseSerial' /\ booked' \in [Expense -> Seq(Entry)]
  <2>1. Takes(c, NoDesk) /\ ~Doing(c, "none") /\ ~Posting(c)
    BY <1>3 DEF SaleCommit, Leaves, Takes, Doing, Posting
  <2>2. CopyRight(c)'
    BY <1>2, <2>1, NoDeskType
  <2>3. CASE cost = 0
    <3>1. UNCHANGED expenseVars
      BY <1>3, <2>3 DEF SaleCommit
    <3>. QED  BY <2>1, <2>2, <3>1, NoDeskType, SerialReader DEF expenseVars
  <2>4. CASE cost # 0
    <3>1. NewExpense(x)
          /\ expense' = [expense EXCEPT ![x] = [status |-> "approved", amount |-> cost]]
          /\ booked' = [booked EXCEPT ![x] = <<EntryOf("approved", cost)>>]
      BY <1>3, <2>4 DEF SaleCommit
    <3>2. EntryOf("approved", cost) \in Entry /\ EntryOf("approved", cost).posted
      BY EntryOfType, SalesAssumption DEF SalesAssumption, EntryOf
    <3>3. PICK e \in Entry : e = EntryOf("approved", cost)
      BY <3>2
    <3>4. <<e>> \in Seq(Entry) /\ Len(<<e>>) = 1 /\ <<e>>[1] = e /\ <<e>> # <<>>
      OBVIOUS
    <3>5. booked'[x] = <<e>> /\ booked' \in [Expense -> Seq(Entry)]
          /\ expense'[x] = [status |-> "approved", amount |-> cost]
          /\ \A y \in Expense \ {x} : expense'[y] = expense[y] /\ booked'[y] = booked[y]
      BY <3>1, <3>3, <3>4 DEF StockSafe
    <3>6. HeadRight(x)'
      BY <3>3, <3>4, <3>5 DEF HeadRight
    <3>7. IsBooked(x)'
      BY <3>2, <3>3, <3>4, <3>5, Zenon DEF IsBooked
    <3>8. Len(booked'[x]) <= 1
      <4>1. Len(booked'[x]) = 1
        BY <3>4, <3>5, Zenon
      <4>. QED  BY <4>1
    <3>. QED  BY <2>1, <2>2, <3>5, <3>6, <3>7, <3>8, NoDeskType, SerialAbout
  <2>. QED  BY <2>3, <2>4
<1>4. ASSUME TradeFails(c) PROVE ExpenseSerial'
  <2>1. Takes(c, NoDesk) /\ ~Doing(c, "none") /\ UNCHANGED expenseVars
    BY <1>4 DEF TradeFails, Leaves, Takes
  <2>2. CopyRight(c)'
    BY <1>2, <2>1, NoDeskType
  <2>3. CASE ~Posting(c)
    BY <2>1, <2>2, <2>3, NoDeskType, SerialReader
  <2>4. CASE Posting(c)
    <3>1. CopyRight(c)
      BY DEF ExpenseSerial
    <3>2. PICK x \in Expense : x = desk[c].expense
      BY <2>4, <3>1 DEF CopyRight, Posting
    <3>3. ~mode.failing => expense[x].amount = 0
      <4>1. expense[x].amount = desk[c].amount
        BY <2>4, <3>1, <3>2 DEF CopyRight
      <4>2. ~mode.failing => desk[c].amount = 0
        BY <1>4, <2>4 DEF TradeFails, Denied, Doing, Posting
      <4>. QED  BY <4>1, <4>2
    <3>4. ~mode.failing => ~AwaitsNothing(x)'
      BY <2>1, <3>3 DEF AwaitsNothing, expenseVars
    <3>5. \A y \in Expense : expense'[y] = expense[y] /\ booked'[y] = booked[y]
      BY <2>1 DEF expenseVars
    <3>6. Len(booked'[x]) <= 1 /\ HeadRight(x)'
      BY <3>5 DEF ExpenseSerial, HeadRight, ThereIs
    <3>. QED  BY <2>1, <2>2, <3>2, <3>4, <3>5, <3>6, NoDeskType, SerialAbout
  <2>. QED  BY <2>3, <2>4
<1>. QED  BY <1>1, <1>3, <1>4
(* A request about the stock does not come near the expenses.              *)
LEMMA SerialStock ==
  ASSUME ExpenseInv, StockSafe', ~mode.overlapping, mode' = mode, NEW c \in Clerk
  PROVE  /\ \A p \in Item, q \in Int : Correct(c, p, q) => ExpenseSerial'
         /\ CorrectSave(c) => ExpenseSerial'
         /\ CorrectLog(c) => ExpenseSerial'
         /\ \A p \in Item, n \in Quantity \cup {0, Keep} :
              EditItem(c, p, n) => ExpenseSerial'
         /\ EditItemSave(c) => ExpenseSerial'
         /\ \A b \in Basket : SaleRead(c, b) => ExpenseSerial'
<1>. DEFINE OfStock == {"none", "correct", "correct_log", "item_set", "item_keep", "sale"}
<1>. USE DEF ExpenseInv
<1>1. ASSUME NEW d, Takes(c, d), d.at \in OfStock, UNCHANGED expenseVars,
             MayTrade(c) \/ ~Doing(c, "none"), ~Posting(c)
      PROVE ExpenseSerial'
  <2>1. d \in Desk
    <3>1. desk'[c] = d /\ desk'[c] \in Desk
      BY <1>1 DEF StockSafe, Takes
    <3>. QED  BY <3>1
  <2>. QED  BY <1>1, <2>1, SerialBystander
<1>2. ASSUME NEW p \in Item, NEW q \in Int, Correct(c, p, q) PROVE ExpenseSerial'
  <2>. DEFINE d == [NoDesk EXCEPT !.at = "correct", !.lines = <<Copied(p, q)>>]
  <2>1. Takes(c, d) /\ d.at = "correct" /\ MayTrade(c) /\ ~Posting(c)
        /\ UNCHANGED expenseVars
    BY <1>2 DEF Correct, NoDesk, MayTrade, Doing, Posting
  <2>. HIDE DEF d
  <2>. QED  BY <1>1, <2>1
<1>3. ASSUME CorrectSave(c) PROVE ExpenseSerial'
  <2>. DEFINE d == [desk[c] EXCEPT !.at = "correct_log"]
  <2>1. Takes(c, d) /\ d.at = "correct_log" /\ ~Doing(c, "none") /\ ~Posting(c)
        /\ UNCHANGED expenseVars
    BY <1>3 DEF CorrectSave, GoesOn, Takes, Doing, Posting, StockSafe, Desk
  <2>. HIDE DEF d
  <2>. QED  BY <1>1, <2>1
<1>4. ASSUME CorrectLog(c) \/ EditItemSave(c) PROVE ExpenseSerial'
  <2>1. Takes(c, NoDesk) /\ NoDesk.at = "none" /\ ~Doing(c, "none") /\ ~Posting(c)
        /\ UNCHANGED expenseVars
    BY <1>4 DEF CorrectLog, EditItemSave, Leaves, Takes, NoDesk, Doing, Posting
  <2>. QED  BY <1>1, <2>1
<1>5. ASSUME NEW p \in Item, NEW n \in Quantity \cup {0, Keep}, EditItem(c, p, n)
      PROVE ExpenseSerial'
  <2>. DEFINE at == IF n = Keep THEN "item_keep" ELSE "item_set"
              d == [NoDesk EXCEPT !.at = at,
                      !.lines = <<IF n = Keep THEN Copied(p, 0)
                                  ELSE [Copied(p, 0) EXCEPT !.copy = n]>>]
  <2>1. d.at = at
    BY DEF NoDesk
  <2>2. Takes(c, d) /\ MayTrade(c) /\ ~Posting(c) /\ UNCHANGED expenseVars
    BY <1>5 DEF EditItem, MayTrade, Doing, Posting
  <2>. HIDE DEF d
  <2>. QED  BY <1>1, <2>1, <2>2
<1>6. ASSUME NEW b \in Basket, SaleRead(c, b) PROVE ExpenseSerial'
  <2>. DEFINE d == [NoDesk EXCEPT !.at = "sale",
                      !.lines = [k \in DOMAIN b |-> Copied(b[k].item, b[k].quantity)]]
  <2>1. Takes(c, d) /\ d.at = "sale" /\ MayTrade(c) /\ ~Posting(c)
        /\ UNCHANGED expenseVars
    BY <1>6 DEF SaleRead, NoDesk, MayTrade, Doing, Posting
  <2>. HIDE DEF d
  <2>. QED  BY <1>1, <2>1
<1>. QED  BY <1>2, <1>3, <1>4, <1>5, <1>6
LEMMA ExpenseStep == ExpenseInv /\ [SalesNext]_salesVars => ExpenseInv'
<1>. SUFFICES ASSUME ExpenseInv, [SalesNext]_salesVars PROVE ExpenseInv'
  OBVIOUS
<1>1. StockSafe' /\ mode' = mode
  BY StockStep DEF ExpenseInv, SalesNext, salesVars, vars
<1>. SUFFICES ASSUME ~mode.overlapping
              PROVE  booked' \in [Expense -> Seq(Entry)] /\ ExpenseSerial'
  BY <1>1 DEF ExpenseInv
<1>. DEFINE Holds == booked' \in [Expense -> Seq(Entry)] /\ ExpenseSerial'
<1>2. ASSUME UNCHANGED <<stockVars, expenseVars, desk>> PROVE Holds
  BY <1>1, <1>2
     DEF ExpenseInv, ExpenseSerial, CopyRight, HeadRight, AwaitsNothing, IsBooked,
         Posting, Doing, ThereIs, expenseVars
<1>3. ASSUME NEW c \in Clerk, DeskSteps(c) PROVE Holds
  <2>1. \A q \in Quantity : q \in Int /\ -q \in Int
    BY SalesAssumption DEF SalesAssumption
  <2>2. CASE \/ CorrectSave(c) \/ CorrectLog(c) \/ EditItemSave(c)
             \/ \E b \in Basket : SaleRead(c, b)
             \/ \E p \in Item :
                  \/ \E q \in Quantity : Correct(c, p, q) \/ Correct(c, p, -q)
                  \/ \E n \in Quantity \cup {0, Keep} : EditItem(c, p, n)
    <3>1. ExpenseSerial'
      BY <1>1, <2>1, <2>2, SerialStock
    <3>2. booked' = booked
      BY <2>2 DEF CorrectSave, CorrectLog, EditItemSave, SaleRead, Correct, EditItem,
                  expenseVars
    <3>. QED  BY <3>1, <3>2 DEF ExpenseInv
  <2>3. CASE \/ EditExpenseCheck(c) \/ EditExpenseSave(c)
             \/ \E x \in Expense, s \in Payable, m \in Cost : CreateExpense(c, x, s, m)
             \/ \E x \in Expense, s \in Payable \cup {Keep}, m \in Cost \cup {Keep} :
                  EditExpense(c, x, s, m)
    <3>1. ExpenseSerial'
      BY <1>1, <2>3, SerialEdit
    <3>2. booked' = booked
      BY <2>3 DEF EditExpenseCheck, EditExpenseSave, CreateExpense, EditExpense,
                  expenseVars
    <3>. QED  BY <3>1, <3>2 DEF ExpenseInv
  <2>4. CASE \/ ApproveSave(c) \/ BookExpenseLook(c)
             \/ \E x \in Expense : ApproveExpense(c, x)
    <3>1. ExpenseSerial'
      BY <1>1, <2>4, SerialApproval
    <3>2. booked' = booked
      BY <2>4 DEF ApproveSave, BookExpenseLook, ApproveExpense, expenseVars
    <3>. QED  BY <3>1, <3>2 DEF ExpenseInv
  <2>5. CASE BookExpense(c)
    BY <1>1, <2>5, SerialApproval
  <2>6. CASE TradeFails(c) \/ \E x \in Expense : DeleteExpense(c, x)
    <3>1. ExpenseSerial'
      BY <1>1, <2>6, SerialRest
    <3>2. booked' = booked
      BY <2>6 DEF TradeFails, DeleteExpense, expenseVars
    <3>. QED  BY <3>1, <3>2 DEF ExpenseInv
  <2>. HIDE DEF Holds
  <2>. QED  BY <1>3, <2>2, <2>3, <2>4, <2>5, <2>6 DEF DeskSteps
<1>4. ASSUME NEW c \in Clerk, NEW i \in Invoice, NEW x \in Expense, NEW cost \in Cost,
             SaleCommit(c, i, x, cost)
      PROVE Holds
  BY <1>1, <1>4, SerialRest
<1>. HIDE DEF Holds
<1>5. Holds
  BY <1>2, <1>3, <1>4 DEF SalesNext, InvoiceStep, salesVars
<1>. QED  BY <1>5 DEF Holds

(* With one request at a time, wherever it fails, money is booked for an   *)
(* expense only once it is approved, and as much as it says; and if none   *)
(* fails every approved expense is booked, once.                           *)
THEOREM SalesExpenseIsBooked == SalesSpec => []ExpenseIsBooked
<1>1. ExpenseInv => ExpenseIsBooked
  <2>. SUFFICES ASSUME ExpenseInv, ~mode.overlapping, NEW x \in Expense, ThereIs(x)
                PROVE  /\ BookedAsApproved(x)
                       /\ ~mode.failing /\ (\A c \in Clerk : desk[c].expense # x)
                            => ApprovedIsBooked(x)
    BY DEF ExpenseIsBooked
  <2>1. booked[x] \in Seq(Entry) /\ Len(booked[x]) <= 1 /\ HeadRight(x)
    BY DEF ExpenseInv, ExpenseSerial
  <2>2. BookedAsApproved(x)
    <3>. SUFFICES ASSUME NEW k \in DOMAIN booked[x], booked[x][k].posted
                  PROVE  booked[x][k] = EntryOf(expense[x].status, expense[x].amount)
      BY DEF BookedAsApproved
    <3>1. k \in 1..Len(booked[x])
      BY <2>1
    <3>2. k = 1 /\ booked[x] # <<>>
      BY <2>1, <3>1
    <3>. QED  BY <2>1, <3>2, Zenon DEF HeadRight
  <2>3. ASSUME ~mode.failing, \A c \in Clerk : desk[c].expense # x,
               expense[x].status = "approved" /\ expense[x].amount > 0
        PROVE  Len(booked[x]) = 1 /\ booked[x][1].posted
    <3>1. AwaitsNothing(x)
      BY <2>3 DEF AwaitsNothing
    <3>2. IsBooked(x)
      BY <2>3, <3>1, Zenon DEF ExpenseInv, ExpenseSerial
    <3>3. Len(booked[x]) = 1
      BY <2>1, <3>2, OneLong DEF IsBooked
    <3>. QED  BY <3>2, <3>3 DEF IsBooked
  <2>. QED  BY <2>2, <2>3 DEF ApprovedIsBooked
<1>. QED  BY <1>1, ExpenseInit, ExpenseStep, PTL DEF SalesSpec

-----------------------------------------------------------------------------
(* The record of the stock, with one request at a time and none that       *)
(* fails.  Of the copies that will be written back each is still the       *)
(* stock, and only the correction between its two statements has moved     *)
(* what it has not recorded yet.                                           *)
CopyCurrent(c) ==
  desk[c].at \in {"correct", "item_keep", "sale"} =>
    \A k \in DOMAIN desk[c].lines :
      desk[c].lines[k].copy = stock[desk[c].lines[k].item]
ToRecord(c) ==
  Doing(c, "correct_log") =>
    LET line == desk[c].lines[1] IN
    line.item \notin doubled =>
      stock[line.item] = ledger[line.item] + line.quantity
Unrecorded(p) ==
  \E c \in Clerk : Doing(c, "correct_log") /\ desk[c].lines[1].item = p
StockSerial ==
  /\ \A c \in Clerk : CopyCurrent(c) /\ ToRecord(c)
  /\ \A p \in Item \ doubled : Unrecorded(p) \/ stock[p] = ledger[p]
RecordedInv ==
  /\ ExpenseInv
  /\ ledger \in [Item -> Int]
  /\ OneByOne => StockSerial

LEMMA RecordedInit == SalesInit => RecordedInv
<1>. SUFFICES ASSUME SalesInit PROVE RecordedInv
  OBVIOUS
<1>1. ExpenseInv
  BY ExpenseInit
<1>2. ledger \in [Item -> Int] /\ stock = ledger
  BY SalesAssumption DEF SalesInit, SalesAssumption
<1>3. \A c \in Clerk : desk[c].at = "none"
  BY DEF SalesInit, NoDesk
<1>. QED
  BY <1>1, <1>2, <1>3
     DEF RecordedInv, StockSerial, CopyCurrent, ToRecord, Doing

(* What the lines of a sale have of an item.                               *)
LEMMA LinesOfItem ==
  ASSUME NEW ls \in Seq(Line), NEW p
  PROVE  /\ IsFiniteSet(OfItem(ls, p))
         /\ \A k \in DOMAIN ls : ls[k] \in Line /\ ls[k].quantity \in Int
<1>1. DOMAIN ls = 1..Len(ls) /\ Len(ls) \in Nat
  OBVIOUS
<1>2. IsFiniteSet(1..Len(ls))
  BY <1>1, FS_Interval
<1>3. OfItem(ls, p) \subseteq 1..Len(ls)
  BY <1>1 DEF OfItem
<1>4. \A k \in DOMAIN ls : ls[k] \in Line
  BY <1>1, ElementOfSeq
<1>. QED  BY <1>2, <1>3, <1>4, FS_Subset DEF Line

LEMMA SoldIsInt ==
  ASSUME NEW ls \in Seq(Line), NEW p PROVE Sold(ls, OfItem(ls, p)) \in Int
<1>. DEFINE f == [k \in DOMAIN ls |-> ls[k].quantity]
<1>1. \A k \in OfItem(ls, p) : f[k] \in Int
  BY LinesOfItem DEF OfItem
<1>. HIDE DEF f
<1>2. SumFunctionOnSet(f, OfItem(ls, p)) \in Int
  BY <1>1, LinesOfItem, SumIsInt
<1>. QED  BY <1>2 DEF Sold, f

(* An item on at most one line of a sale: that line's copy less what it    *)
(* sells is written, and just that is recorded.                            *)
LEMMA SingleLine ==
  ASSUME NEW ls \in Seq(Line), NEW p \in Item,
         ~(Cardinality(OfItem(ls, p)) > 1),
         \A k \in DOMAIN ls : ls[k].copy = stock[ls[k].item],
         stock[p] \in Int
  PROVE  Rest(ls, p) = stock[p] - Sold(ls, OfItem(ls, p))
<1>. DEFINE f == [k \in DOMAIN ls |-> ls[k].quantity]
<1>1. CASE OfItem(ls, p) = {}
  <2>1. Rest(ls, p) = stock[p]
    BY <1>1 DEF Rest
  <2>2. SumFunctionOnSet(f, {}) = 0
    BY SumOfNone
  <2>3. Sold(ls, OfItem(ls, p)) = 0
    BY <1>1, <2>2 DEF Sold
  <2>. QED  BY <2>1, <2>3
<1>2. CASE OfItem(ls, p) # {}
  <2>1. PICK k : k \in OfItem(ls, p)
    BY <1>2
  <2>2. OfItem(ls, p) = {k}
    <3>1. /\ Cardinality({k}) = 1
          /\ {k} \subseteq OfItem(ls, p) /\ IsFiniteSet(OfItem(ls, p))
      BY <2>1, LinesOfItem, FS_Singleton
    <3>2. /\ Cardinality(OfItem(ls, p)) \in Nat
          /\ Cardinality({k}) <= Cardinality(OfItem(ls, p))
          /\ Cardinality({k}) = Cardinality(OfItem(ls, p)) => {k} = OfItem(ls, p)
      BY <3>1, FS_Subset, FS_CardinalityType
    <3>. QED  BY <3>1, <3>2
  <2>3. k \in DOMAIN ls /\ ls[k].item = p /\ ls[k].quantity \in Int /\ k \in Int
    <3>1. k \in DOMAIN ls /\ ls[k].item = p
      BY <2>1 DEF OfItem
    <3>2. k \in 1..Len(ls)
      BY <3>1
    <3>. QED  BY <3>1, <3>2, LinesOfItem
  <2>4. Rest(ls, p) = ls[k].copy - ls[k].quantity
    <3>1. {j \in OfItem(ls, p) : \A n \in OfItem(ls, p) : n <= j} = {k}
      BY <2>2, <2>3
    <3>2. (CHOOSE j \in {k} : TRUE) = k
      OBVIOUS
    <3>. QED  BY <3>1, <3>2 DEF Rest
  <2>5. f[k] = ls[k].quantity
    BY <2>3
  <2>. HIDE DEF f
  <2>6. SumFunctionOnSet(f, {k}) = f[k]
    BY <2>3, <2>5, SumOfOne
  <2>7. Sold(ls, OfItem(ls, p)) = ls[k].quantity
    BY <2>2, <2>5, <2>6 DEF Sold, f
  <2>. QED  BY <2>3, <2>4, <2>7
<1>. QED  BY <1>1, <1>2

(* A request that takes d keeps the record if its copies are the stock as  *)
(* the step leaves it, and it leaves nothing unrecorded but by a           *)
(* correction that says so.                                                *)
LEMMA RecordedBy ==
  ASSUME RecordedInv, OneByOne, NEW c \in Clerk,
         MayTrade(c) \/ ~Doing(c, "none"), NEW d \in Desk, Takes(c, d),
         d.at \in {"correct", "item_keep", "sale"} =>
           \A k \in DOMAIN d.lines : d.lines[k].copy = stock'[d.lines[k].item],
         d.at = "correct_log" =>
           (d.lines[1].item \notin doubled' =>
              stock'[d.lines[1].item] =
                ledger'[d.lines[1].item] + d.lines[1].quantity),
         \A p \in Item \ doubled' :
           \/ d.at = "correct_log" /\ d.lines[1].item = p
           \/ stock'[p] = ledger'[p]
  PROVE  StockSerial'
<1>1. StockSafe /\ ExpenseSerial /\ mode \in Modes /\ ~mode.overlapping
  BY DEF RecordedInv, ExpenseInv, OneByOne
<1>2. \A b \in Clerk : b # c => desk'[b].at = "none"
  BY <1>1, OnlyOne DEF Takes, StockSafe, Doing
<1>3. desk'[c] = d
  BY <1>1 DEF Takes, StockSafe
<1>4. \A b \in Clerk : CopyCurrent(b)' /\ ToRecord(b)'
  BY <1>2, <1>3 DEF CopyCurrent, ToRecord, Doing
<1>5. \A p \in Item \ doubled' : Unrecorded(p)' \/ stock'[p] = ledger'[p]
  BY <1>3 DEF Unrecorded, Doing
<1>. QED  BY <1>4, <1>5 DEF StockSerial

(* Before any step but the second of a correction all is recorded.         *)
LEMMA AllRecorded ==
  ASSUME RecordedInv, OneByOne, NEW c \in Clerk,
         MayTrade(c) \/ ~Doing(c, "none"), ~Doing(c, "correct_log")
  PROVE  \A p \in Item \ doubled : stock[p] = ledger[p]
<1>1. ExpenseSerial /\ mode \in Modes /\ ~mode.overlapping
  BY DEF RecordedInv, ExpenseInv, OneByOne
<1>2. \A b \in Clerk : ~Doing(b, "correct_log")
  BY <1>1, OnlyOne DEF Doing
<1>. QED  BY <1>2 DEF RecordedInv, StockSerial, Unrecorded

(* A request that reads copies or is about something else.                 *)
LEMMA RecordedReader ==
  ASSUME RecordedInv, OneByOne, NEW c \in Clerk,
         MayTrade(c) \/ ~Doing(c, "none"), ~Doing(c, "correct_log"),
         NEW d \in Desk, Takes(c, d), UNCHANGED stockVars, d.at # "correct_log",
         d.at \in {"correct", "item_keep", "sale"} =>
           \A k \in DOMAIN d.lines : d.lines[k].copy = stock[d.lines[k].item]
  PROVE  StockSerial'
BY AllRecorded, RecordedBy DEF stockVars

(* The steps of a correction and of an edit of the item.                   *)
LEMMA RecordedStock ==
  ASSUME RecordedInv, StockSafe', OneByOne, NEW c \in Clerk
  PROVE  /\ \A p \in Item, q \in Int : Correct(c, p, q) => StockSerial'
         /\ CorrectSave(c) => StockSerial'
         /\ CorrectLog(c) => StockSerial'
         /\ \A p \in Item, n \in Quantity \cup {0, Keep} :
              EditItem(c, p, n) => StockSerial'
         /\ EditItemSave(c) => StockSerial'
         /\ \A b \in Basket : SaleRead(c, b) => StockSerial'
<1>. DEFINE line == desk[c].lines[1]
<1>1. /\ StockSafe /\ stock \in [Item -> Nat] /\ ledger \in [Item -> Int]
      /\ StockSerial
  BY DEF RecordedInv, ExpenseInv, StockSafe
<1>2. ASSUME NEW d, Takes(c, d) PROVE d \in Desk
  <2>1. desk'[c] = d /\ desk'[c] \in Desk
    BY <1>1, <1>2 DEF StockSafe, Takes
  <2>. QED  BY <2>1
<1>3. ASSUME NEW p \in Item, NEW q \in Int, Correct(c, p, q) PROVE StockSerial'
  <2>. DEFINE d == [NoDesk EXCEPT !.at = "correct", !.lines = <<Copied(p, q)>>]
  <2>1. Takes(c, d) /\ MayTrade(c) /\ ~Doing(c, "correct_log") /\ UNCHANGED stockVars
    BY <1>3 DEF Correct, MayTrade, Doing
  <2>2. d.at = "correct" /\ d.lines = <<Copied(p, q)>>
    BY DEF NoDesk
  <2>3. \A k \in DOMAIN d.lines : d.lines[k].copy = stock[d.lines[k].item]
    BY <2>2 DEF Copied
  <2>. HIDE DEF d
  <2>. QED  BY <1>2, <2>1, <2>2, <2>3, RecordedReader
<1>4. ASSUME CorrectSave(c) PROVE StockSerial'
  <2>. DEFINE d == [desk[c] EXCEPT !.at = "correct_log"]
  <2>1. Takes(c, d) /\ ~Doing(c, "none") /\ ~Doing(c, "correct_log")
    BY <1>1, <1>4 DEF CorrectSave, GoesOn, Takes, Doing, StockSafe
  <2>2. d.at = "correct_log" /\ d.lines = desk[c].lines
    BY <1>1 DEF StockSafe, Desk
  <2>3. desk[c].lines \in Seq(Line) /\ desk[c].lines # <<>>
    BY <1>1, <1>4 DEF CorrectSave, Doing, StockSafe, Reserved, Desk
  <2>4. line \in Line /\ 1 \in DOMAIN desk[c].lines
    BY <2>3, FirstLine
  <2>5. line.copy = stock[line.item]
    BY <1>1, <1>4, <2>4 DEF CorrectSave, Doing, StockSerial, CopyCurrent
  <2>6. /\ ledger' = ledger /\ doubled' = doubled
        /\ stock' = [stock EXCEPT ![line.item] = line.copy + line.quantity]
    BY <1>4 DEF CorrectSave
  <2>7. \A p \in Item \ doubled : stock[p] = ledger[p]
    BY <2>1, AllRecorded
  <2>. HIDE DEF d, line
  <2>8. /\ \A p \in Item \ doubled : p # line.item => stock'[p] = ledger'[p]
        /\ line.item \notin doubled =>
             stock'[line.item] = ledger'[line.item] + line.quantity
    BY <1>1, <2>4, <2>5, <2>6, <2>7 DEF Line
  <2>9. d \in Desk
    BY <1>2, <2>1
  <2>. QED  BY <2>1, <2>2, <2>3, <2>6, <2>8, <2>9, RecordedBy DEF line
<1>5. ASSUME CorrectLog(c) PROVE StockSerial'
  <2>1. Takes(c, NoDesk) /\ ~Doing(c, "none") /\ NoDesk.at = "none"
    BY <1>5 DEF CorrectLog, Leaves, Takes, Doing, NoDesk
  <2>2. /\ stock' = stock /\ doubled' = doubled
        /\ ledger' = [ledger EXCEPT ![line.item] = @ + line.quantity]
    BY <1>5 DEF CorrectLog, Delta
  <2>3. line.item \notin doubled => stock[line.item] = ledger[line.item] + line.quantity
    BY <1>1, <1>5 DEF CorrectLog, StockSerial, ToRecord
  <2>4. \A p \in Item \ doubled : p # line.item => stock[p] = ledger[p]
    <3>1. ExpenseSerial /\ mode \in Modes /\ ~mode.overlapping
      BY DEF RecordedInv, ExpenseInv, OneByOne
    <3>2. \A b \in Clerk : Doing(b, "correct_log") => b = c
      BY <2>1, <3>1, OnlyOne DEF Doing
    <3>. QED  BY <1>1, <3>2 DEF StockSerial, Unrecorded
  <2>. HIDE DEF line
  <2>5. \A p \in Item \ doubled' : stock'[p] = ledger'[p]
    BY <1>1, <2>2, <2>3, <2>4
  <2>. QED  BY <2>1, <2>5, NoDeskType, RecordedBy
<1>6. ASSUME NEW p \in Item, NEW n \in Quantity \cup {0, Keep}, EditItem(c, p, n)
      PROVE  StockSerial'
  <2>. DEFINE at == IF n = Keep THEN "item_keep" ELSE "item_set"
              copy == IF n = Keep THEN Copied(p, 0) ELSE [Copied(p, 0) EXCEPT !.copy = n]
              d == [NoDesk EXCEPT !.at = at, !.lines = <<copy>>]
  <2>1. Takes(c, d) /\ MayTrade(c) /\ ~Doing(c, "correct_log") /\ UNCHANGED stockVars
    BY <1>6 DEF EditItem, MayTrade, Doing
  <2>2. d.at = at /\ d.lines = <<copy>>
    BY DEF NoDesk
  <2>3. at # "item_set" => copy.copy = stock[copy.item]
    BY DEF Copied
  <2>4. at \in {"item_keep", "item_set"}
    OBVIOUS
  <2>. HIDE DEF at, copy
  <2>5. at = "item_keep" =>
          \A k \in DOMAIN d.lines : d.lines[k].copy = stock[d.lines[k].item]
    BY <2>2, <2>3
  <2>. HIDE DEF d
  <2>. QED  BY <1>2, <2>1, <2>2, <2>4, <2>5, RecordedReader
<1>7. ASSUME EditItemSave(c) PROVE StockSerial'
  <2>1. /\ Takes(c, NoDesk) /\ ~Doing(c, "none") /\ ~Doing(c, "correct_log")
        /\ NoDesk.at = "none"
    BY <1>7 DEF EditItemSave, Leaves, Takes, Doing, NoDesk
  <2>2. \A p \in Item \ doubled : stock[p] = ledger[p]
    BY <2>1, AllRecorded
  <2>3. desk[c].lines \in Seq(Line) /\ desk[c].lines # <<>>
    BY <1>1, <1>7 DEF EditItemSave, Doing, StockSafe, Reserved, Desk
  <2>4. line \in Line /\ 1 \in DOMAIN desk[c].lines
    BY <2>3, FirstLine
  <2>5. Doing(c, "item_keep") => line.copy = stock[line.item]
    BY <1>1, <2>4 DEF Doing, StockSerial, CopyCurrent
  <2>6. /\ doubled' = doubled
        /\ stock' = [stock EXCEPT ![line.item] = line.copy]
        /\ ledger' = IF Doing(c, "item_set")
                     THEN [ledger EXCEPT ![line.item] = line.copy] ELSE ledger
        /\ ~Doing(c, "item_set") => Doing(c, "item_keep")
    BY <1>7 DEF EditItemSave
  <2>. HIDE DEF line
  <2>7. \A p \in Item \ doubled' : stock'[p] = ledger'[p]
    BY <1>1, <2>2, <2>4, <2>5, <2>6 DEF Line
  <2>. QED  BY <2>1, <2>7, NoDeskType, RecordedBy
<1>8. ASSUME NEW b \in Basket, SaleRead(c, b) PROVE StockSerial'
  <2>. DEFINE ls == [k \in DOMAIN b |-> Copied(b[k].item, b[k].quantity)]
              d == [NoDesk EXCEPT !.at = "sale", !.lines = ls]
  <2>1. Takes(c, d) /\ MayTrade(c) /\ ~Doing(c, "correct_log") /\ UNCHANGED stockVars
    BY <1>8 DEF SaleRead, MayTrade, Doing
  <2>2. d.at = "sale" /\ d.lines = ls
    BY DEF NoDesk
  <2>3. \A k \in DOMAIN ls : ls[k].copy = stock[ls[k].item]
    BY DEF Copied
  <2>. HIDE DEF ls, d
  <2>. QED  BY <1>2, <2>1, <2>2, <2>3, RecordedReader
<1>. QED  BY <1>3, <1>4, <1>5, <1>6, <1>7, <1>8

(* A sale moves the stock of each of its items by what it records, unless  *)
(* the item is on two of its lines, which it remembers.                    *)
LEMMA RecordedSale ==
  ASSUME RecordedInv, StockSafe', OneByOne, NEW c \in Clerk, NEW i \in Invoice,
         NEW x \in Expense, NEW cost \in Cost, SaleCommit(c, i, x, cost)
  PROVE  StockSerial'
<1>. DEFINE ls == desk[c].lines
<1>1. /\ StockSafe /\ stock \in [Item -> Nat] /\ ledger \in [Item -> Int]
      /\ StockSerial
  BY DEF RecordedInv, ExpenseInv, StockSafe
<1>2. /\ Takes(c, NoDesk) /\ ~Doing(c, "none") /\ ~Doing(c, "correct_log")
      /\ NoDesk.at = "none"
  BY DEF SaleCommit, Leaves, Takes, Doing, NoDesk
<1>3. \A p \in Item \ doubled : stock[p] = ledger[p]
  BY <1>2, AllRecorded
<1>4. ls \in Seq(Line)
  BY <1>1 DEF StockSafe, Desk
<1>5. \A k \in DOMAIN ls : ls[k].copy = stock[ls[k].item]
  BY <1>1 DEF SaleCommit, Doing, StockSerial, CopyCurrent
<1>6. /\ stock' = [p \in Item |-> Rest(ls, p)]
      /\ ledger' = [p \in Item |-> ledger[p] - Sold(ls, OfItem(ls, p))]
      /\ doubled' = doubled \cup {p \in Item : Cardinality(OfItem(ls, p)) > 1}
  BY DEF SaleCommit
<1>. HIDE DEF ls
<1>7. ASSUME NEW p \in Item \ doubled' PROVE stock'[p] = ledger'[p]
  <2>1. ~(Cardinality(OfItem(ls, p)) > 1) /\ p \in Item \ doubled
    BY <1>6
  <2>2. Rest(ls, p) = stock[p] - Sold(ls, OfItem(ls, p))
    BY <1>1, <1>4, <1>5, <2>1, SingleLine
  <2>. QED  BY <1>3, <1>6, <2>1, <2>2
<1>. QED  BY <1>2, <1>7, NoDeskType, RecordedBy

(* Everything else at a desk is about an expense, or ends a request that   *)
(* could not go on.                                                        *)
LEMMA RecordedElse ==
  ASSUME RecordedInv, StockSafe', OneByOne, NEW c \in Clerk,
         \/ EditExpenseCheck(c) \/ EditExpenseSave(c) \/ ApproveSave(c)
         \/ BookExpenseLook(c) \/ BookExpense(c) \/ TradeFails(c)
         \/ \E x \in Expense :
              \/ ApproveExpense(c, x)
              \/ \E s \in Payable, m \in Cost : CreateExpense(c, x, s, m)
              \/ \E s \in Payable \cup {Keep}, m \in Cost \cup {Keep} :
                   EditExpense(c, x, s, m)
  PROVE  StockSerial'
<1>. DEFINE d == desk'[c]
            ForExpense == {"none", "check", "save", "look", "approve", "book"}
<1>1. StockSafe
  BY DEF RecordedInv, ExpenseInv
<1>2. d \in Desk
  BY DEF StockSafe
<1>3. UNCHANGED stockVars
  BY DEF EditExpenseCheck, EditExpenseSave, ApproveSave, BookExpenseLook,
         BookExpense, TradeFails, ApproveExpense, CreateExpense, EditExpense
<1>4. /\ MayTrade(c) \/ ~Doing(c, "none")
      /\ ~Doing(c, "correct_log")
  BY DEF EditExpenseCheck, EditExpenseSave, ApproveSave, BookExpenseLook,
         BookExpense, TradeFails, Denied, ApproveExpense, CreateExpense,
         EditExpense, MayTrade, Doing, OneByOne
<1>5. desk' = [desk EXCEPT ![c] = d] /\ d.at \in ForExpense
  <2>1. CASE EditExpenseCheck(c) \/ EditExpenseSave(c) \/ ApproveSave(c)
             \/ BookExpenseLook(c)
    BY <1>1, <2>1
       DEF EditExpenseCheck, EditExpenseSave, ApproveSave, BookExpenseLook, GoesOn,
           StockSafe, Desk
  <2>2. CASE BookExpense(c) \/ TradeFails(c)
    BY <1>1, <2>2 DEF BookExpense, TradeFails, Leaves, NoDesk, StockSafe
  <2>3. ASSUME NEW step \in ForExpense, NEW x, NEW s, NEW m,
               Takes(c, OfExpense(step, x, s, m))
        PROVE  desk' = [desk EXCEPT ![c] = d] /\ d.at \in ForExpense
    BY <1>1, <2>3 DEF Takes, OfExpense, NoDesk, StockSafe
  <2>4. \E step \in ForExpense : \E x, s, m : Takes(c, OfExpense(step, x, s, m))
        \/ EditExpenseCheck(c) \/ EditExpenseSave(c) \/ ApproveSave(c)
        \/ BookExpenseLook(c) \/ BookExpense(c) \/ TradeFails(c)
    BY DEF ApproveExpense, CreateExpense, EditExpense
  <2>. HIDE DEF d
  <2>. QED  BY <2>1, <2>2, <2>3, <2>4
<1>6. Takes(c, d)
  BY <1>5 DEF Takes
<1>. HIDE DEF d
<1>. QED  BY <1>2, <1>3, <1>4, <1>5, <1>6, RecordedReader

(* The ledger stays a number, whatever overlaps.                           *)
LEMMA LedgerType ==
  ASSUME StockSafe, ledger \in [Item -> Int], [SalesNext]_salesVars
  PROVE  ledger' \in [Item -> Int]
<1>1. \A c \in Clerk : desk[c].lines \in Seq(Line)
  BY DEF StockSafe, Desk
<1>2. ASSUME NEW c \in Clerk, NEW i \in Invoice, NEW x \in Expense, NEW cost \in Cost,
             SaleCommit(c, i, x, cost)
      PROVE  ledger' \in [Item -> Int]
  <2>1. \A p \in Item : Sold(desk[c].lines, OfItem(desk[c].lines, p)) \in Int
    BY <1>1, SoldIsInt
  <2>. QED  BY <1>2, <2>1 DEF SaleCommit
<1>3. ASSUME NEW c \in Clerk, CorrectLog(c) PROVE ledger' \in [Item -> Int]
  <2>. DEFINE line == desk[c].lines[1]
  <2>1. desk[c].lines # <<>>
    BY <1>3 DEF CorrectLog, Doing, StockSafe, Reserved
  <2>3. line \in Line
    BY <1>1, <2>1, FirstLine
  <2>2. ledger' = [ledger EXCEPT ![line.item] = @ + line.quantity]
    BY <1>3 DEF CorrectLog, Delta
  <2>. QED  BY <2>2, <2>3 DEF Line
<1>4. ASSUME NEW c \in Clerk, EditItemSave(c) PROVE ledger' \in [Item -> Int]
  <2>. DEFINE line == desk[c].lines[1]
  <2>1. desk[c].lines # <<>>
    BY <1>4 DEF EditItemSave, Doing, StockSafe, Reserved
  <2>2. line \in Line
    BY <1>1, <2>1, FirstLine
  <2>. QED  BY <1>4, <2>2 DEF EditItemSave, Line
<1>5. CASE UNCHANGED ledger
  BY <1>5
<1>. QED
  BY <1>2, <1>3, <1>4, <1>5
     DEF SalesNext, InvoiceStep, DeskSteps, Correct, CorrectSave, EditItem, SaleRead,
         EditExpenseCheck, EditExpenseSave, ApproveSave, BookExpenseLook,
         BookExpense, TradeFails, ApproveExpense, CreateExpense, EditExpense,
         DeleteExpense, stockVars, salesVars

LEMMA RecordedStep == RecordedInv /\ [SalesNext]_salesVars => RecordedInv'
<1>. SUFFICES ASSUME RecordedInv, [SalesNext]_salesVars PROVE RecordedInv'
  OBVIOUS
<1>1. ExpenseInv' /\ StockSafe' /\ mode' = mode
  BY ExpenseStep DEF RecordedInv, ExpenseInv, SalesNext, salesVars, vars
<1>2. ledger' \in [Item -> Int]
  BY LedgerType DEF RecordedInv, ExpenseInv
<1>. SUFFICES ASSUME OneByOne PROVE StockSerial'
  BY <1>1, <1>2 DEF RecordedInv, OneByOne
<1>3. ASSUME UNCHANGED <<stockVars, desk>> PROVE StockSerial'
  BY <1>3
     DEF RecordedInv, StockSerial, CopyCurrent, ToRecord, Unrecorded, Doing, stockVars
<1>4. ASSUME NEW c \in Clerk, DeskSteps(c) PROVE StockSerial'
  <2>1. \A q \in Quantity : q \in Int /\ -q \in Int
    BY SalesAssumption DEF SalesAssumption
  <2>2. CASE \/ CorrectSave(c) \/ CorrectLog(c) \/ EditItemSave(c)
             \/ \E b \in Basket : SaleRead(c, b)
             \/ \E p \in Item :
                  \/ \E q \in Quantity : Correct(c, p, q) \/ Correct(c, p, -q)
                  \/ \E n \in Quantity \cup {0, Keep} : EditItem(c, p, n)
    BY <1>1, <2>1, <2>2, RecordedStock
  <2>3. CASE \E x \in Expense : DeleteExpense(c, x)
    BY <1>3, <2>3 DEF DeleteExpense
  <2>4. CASE \/ EditExpenseCheck(c) \/ EditExpenseSave(c) \/ ApproveSave(c)
             \/ BookExpenseLook(c) \/ BookExpense(c) \/ TradeFails(c)
             \/ \E x \in Expense :
                  \/ ApproveExpense(c, x)
                  \/ \E s \in Payable, m \in Cost : CreateExpense(c, x, s, m)
                  \/ \E s \in Payable \cup {Keep}, m \in Cost \cup {Keep} :
                       EditExpense(c, x, s, m)
    BY <1>1, <2>4, RecordedElse
  <2>. QED  BY <1>4, <2>2, <2>3, <2>4 DEF DeskSteps
<1>5. ASSUME NEW c \in Clerk, NEW i \in Invoice, NEW x \in Expense, NEW cost \in Cost,
             SaleCommit(c, i, x, cost)
      PROVE  StockSerial'
  BY <1>1, <1>5, RecordedSale
<1>. QED  BY <1>3, <1>4, <1>5 DEF SalesNext, InvoiceStep, salesVars

(* With one request at a time, none of which fails, the stock of every     *)
(* item is what was entered by hand last and what the transactions moved   *)
(* since, unless the item was sold on two lines of one sale.               *)
THEOREM SalesStockIsRecorded == SalesSpec => []StockIsRecorded
<1>1. RecordedInv => StockIsRecorded
  BY DEF RecordedInv, StockSerial, Unrecorded, StockIsRecorded
<1>. QED  BY <1>1, RecordedInit, RecordedStep, PTL DEF SalesSpec
=============================================================================
