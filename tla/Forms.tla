-------------------------------- MODULE Forms --------------------------------
(***************************************************************************)
(* A visitor fills in one of the forms of PageForms, again and again: he   *)
(* chooses records, types, presses the button as often as it lets him,     *)
(* closes the dialog and opens it for another record, while the answers to *)
(* what was sent come in when they please.                                 *)
(*                                                                         *)
(* An answer that is lost although the server has executed the call is     *)
(* left out: no form can tell it from a refusal.                           *)
(***************************************************************************)
EXTENDS PageForms, Naturals

CONSTANTS Rows,              \* the records that a form can be opened for
          New, Closed,       \* for none of them; not on the screen
          Untouched,         \* as the form has set it, nothing typed
          MaxTexts, MaxSends

ASSUME FormsAssumption ==
  /\ New \notin Rows /\ Closed \notin Rows \cup {New}
  /\ MaxTexts \in Nat /\ MaxSends \in Nat

-----------------------------------------------------------------------------
(* One press asks for the same again: its button is not disabled, or only  *)
(* until a refresh is awaited with the dialog open, or the second call of  *)
(* the handler is refused and the first repeated.                          *)
AsksAgain ==
  {shift, worksite, sale, catalogItem, chatGroup} \cup {journalEntry}
    \cup {expense, invoice}
(* The text stays when another record is chosen, or the record that is     *)
(* edited stays when another is shown.                                     *)
Misdirects == {leaveDecision, attendanceDecision, message} \cup {adjustment}
(* Nothing resets the form after something new was added: opened again it  *)
(* shows that.                                                             *)
ShowsLast == {department, jobTitle}

(* What the steps need to know of a form.  Fields that are always set      *)
(* together are one part.                                                  *)
Part(f, field) ==
  [needed |-> field \in f.view.needed \cup f.save.refuses,
   resets |-> field \in f.save.resets,
   new |-> field \in f.ways.new, row |-> field \in f.ways.row,
   leave |-> field \in f.ways.leave, close |-> \E w \in f.ways.close : field \in w]
Case(f) ==
  [parts |-> {Part(f, field) : field \in f.view.fields},
   guarded |-> f.view.guarded, leavable |-> f.view.dialog \/ f.ways.mounted,
   mounted |-> f.ways.mounted, keeps |-> {} \in f.ways.close, edits |-> f.edits,
   new |-> f.save.new, row |-> f.save.row, ends |-> f.save.ends, late |-> f.save.late,
   asksAgain |-> f \in AsksAgain, misdirects |-> f \in Misdirects,
   showsLast |-> f \in ShowsLast]
Cases == {Case(f) : f \in AllForms}

VARIABLES case,      \* the form, chosen once
          target,    \* the record that it is open for
          edited,    \* by the form that remembers it apart from the target
          content,   \* of each part
          jobs,      \* one for each press of the button
          texts      \* typed so far

vars == <<case, target, edited, content, jobs, texts>>

Targets == (IF case.new # <<>> THEN {New} ELSE {})
             \cup (IF case.row # <<>> THEN Rows ELSE {})
(* Where the form is when it is for no record                              *)
Rest == IF case.leavable \/ case.new = <<>> THEN Closed ELSE New

Text == [id : 1..MaxTexts, for : Targets]
Contents == [case.parts -> Text \cup {Untouched}]
Job == [content : Contents, to : Targets, calls : {case.new, case.row}, at : Nat,
        state : {"sent", "late", "told", "refused"}, mine : BOOLEAN]
TypeOK ==
  /\ case \in Cases /\ target \in Targets \cup {Closed}
  /\ edited \in Rows \cup {New} /\ content \in Contents /\ texts \in 0..MaxTexts
  /\ jobs \in Seq(Job) /\ Len(jobs) <= MaxSends
  /\ \A s \in DOMAIN jobs : jobs[s].at \in DOMAIN jobs[s].calls

-----------------------------------------------------------------------------
Reset(parts) == [p \in case.parts |-> IF p \in parts THEN Untouched ELSE content[p]]
Parts(what) == {p \in case.parts : p[what]}
(* Back from a record                                                      *)
Left == IF target \in Rows /\ ~case.edits THEN Parts("leave") ELSE {}

Init ==
  /\ case \in Cases
  /\ target = Rest /\ edited = New
  /\ content = [p \in case.parts |-> Untouched]
  /\ jobs = <<>> /\ texts = 0

(* A dialog covers the list that it was opened from.                       *)
Choose(t) ==
  /\ t # target /\ IF case.leavable THEN target = Closed ELSE t \in Rows
  /\ target' = t
  /\ content' = IF case.edits THEN content
                ELSE Reset(IF t = New THEN Parts("new") ELSE Parts("row"))
  /\ UNCHANGED <<case, edited, jobs, texts>>

(* The button of a row, where the record shown is not yet the one edited   *)
Edit ==
  /\ case.edits /\ target \in Rows /\ edited # target
  /\ edited' = target /\ content' = Reset(Parts("row"))
  /\ UNCHANGED <<case, target, jobs, texts>>

(* By one of the ways to close it, or to stop editing                      *)
Forget(js) == [s \in DOMAIN js |-> [js[s] EXCEPT !.mine = ~case.mounted /\ @]]
Leave ==
  /\ target # Rest /\ (case.leavable \/ (Parts("leave") # {} /\ ~case.edits))
  /\ \/ case.keeps /\ content' = Reset(Left)
     \/ Parts("close") # {} /\ content' = Reset(Left \cup Parts("close"))
  /\ target' = Rest /\ jobs' = Forget(jobs)
  /\ UNCHANGED <<case, edited, texts>>
StopEditing ==
  /\ edited # New
  /\ edited' = New /\ content' = Reset(Parts("leave"))
  /\ UNCHANGED <<case, target, jobs, texts>>

(* The fields can be changed while the form is being sent.                 *)
Type(p) ==
  /\ target # Closed /\ texts < MaxTexts
  /\ texts' = texts + 1
  /\ content' = [content EXCEPT ![p] = [id |-> texts + 1, for |-> target]]
  /\ UNCHANGED <<case, target, edited, jobs>>

-----------------------------------------------------------------------------
Pending == \E s \in DOMAIN jobs : jobs[s].state = "sent" /\ jobs[s].mine
Lacking == \E p \in Parts("needed") : content[p] = Untouched
Addressee == IF edited # New THEN edited ELSE target
CallsNow ==
  IF target = New \/ (case.edits /\ edited = New) THEN case.new ELSE case.row

(* The handler has the contents and the record of the moment.              *)
Press ==
  /\ target # Closed /\ ~Lacking /\ (case.guarded => ~Pending)
  /\ \E p \in case.parts : content[p] # Untouched
  /\ Len(jobs) < MaxSends
  /\ jobs' = Append(jobs, [content |-> content, to |-> Addressee, calls |-> CallsNow,
                           at |-> 1, state |-> "sent", mine |-> TRUE])
  /\ UNCHANGED <<case, target, edited, content, texts>>

Answer(s) ==
  /\ jobs[s].state = "sent" /\ jobs[s].at < Len(jobs[s].calls)
  /\ jobs' = [jobs EXCEPT ![s].at = @ + 1]
  /\ UNCHANGED <<case, target, edited, content, texts>>

(* After the last answer the button is enabled while a refresh is awaited. *)
Await(s) ==
  /\ case.late /\ jobs[s].state = "sent" /\ jobs[s].at = Len(jobs[s].calls)
  /\ jobs' = [jobs EXCEPT ![s].state = "late"]
  /\ UNCHANGED <<case, target, edited, content, texts>>

(* It is said to be done, and the form reset and closed, whatever it is    *)
(* open for by now.                                                        *)
Finish(s) ==
  /\ jobs[s].state = IF case.late THEN "late" ELSE "sent"
  /\ jobs[s].at = Len(jobs[s].calls)
  /\ jobs' = LET told == [jobs EXCEPT ![s].state = "told"] IN
             IF case.ends /\ case.leavable THEN Forget(told) ELSE told
  /\ content' = Reset(Parts("resets") \cup IF case.ends THEN Left ELSE {})
  /\ target' = IF case.ends /\ ~case.edits THEN Rest ELSE target
  /\ edited' = IF case.ends THEN New ELSE edited
  /\ UNCHANGED <<case, texts>>

(* The message is shown, and everything stays as it is.                    *)
Refuse(s) ==
  /\ jobs[s].state = "sent"
  /\ jobs' = [jobs EXCEPT ![s].state = "refused"]
  /\ UNCHANGED <<case, target, edited, content, texts>>

Next ==
  \/ \E t \in Targets : Choose(t)
  \/ Edit \/ Leave \/ StopEditing
  \/ \E p \in case.parts : Type(p)
  \/ Press
  \/ \E s \in DOMAIN jobs : Answer(s) \/ Await(s) \/ Finish(s) \/ Refuse(s)

Spec == Init /\ [][Next]_vars

-----------------------------------------------------------------------------
(* What a job has asked the server to add, as far as its visitor does not  *)
(* know how that went                                                      *)
Asked(j) ==
  {i \in DOMAIN j.calls :
     /\ j.calls[i] = "add" /\ j.state # "told"
     /\ i < j.at \/ (i = j.at /\ j.state # "refused")}

(* What has been filled in once is asked for once, however often the       *)
(* button is pressed, the dialog closed and opened again, or a refused     *)
(* call repeated, until its visitor is told that it is done.  Left out are *)
(* the forms of AsksAgain.                                                 *)
AskedOnce ==
  ~case.asksAgain =>
     \A s, t \in DOMAIN jobs :
        s # t /\ jobs[s].content = jobs[t].content /\ jobs[s].to = jobs[t].to
          => Asked(jobs[s]) \cap Asked(jobs[t]) = {}

(* What is typed while a form shows one record is never sent for another,  *)
(* whichever records are opened in between and whenever the answers come.  *)
(* Left out are the forms of Misdirects.                                   *)
SentWhereTyped ==
  ~case.misdirects =>
     \A s \in DOMAIN jobs : \A p \in case.parts :
        jobs[s].content[p] # Untouched => jobs[s].content[p].for = jobs[s].to

(* A dialog opened for something new does not show what its visitor has    *)
(* been told is added, also when he closed it before the answer and opened *)
(* it again.  Left out are the dialogs of ShowsLast.                       *)
OpensFresh ==
  (case.leavable /\ target = New /\ ~case.showsLast) =>
     \A s \in DOMAIN jobs :
        jobs[s].state = "told" =>
          \A p \in case.parts : content[p] # Untouched => content[p] # jobs[s].content[p]
=============================================================================
