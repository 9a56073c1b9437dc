--------------------------- MODULE Screens_proofs ---------------------------
(***************************************************************************)
(* Theorems about Screens and about PlatformLists.                         *)
(*                                                                         *)
(* Screens: for any number of changes.  Of the tables of PageHandlers and  *)
(* QueryHooks they need only TablesAssumption.  PlatformLists has          *)
(* variables of its own and is here as the instance Lists.                 *)
(***************************************************************************)
EXTENDS Screens, TLAPS

(* What the steps need of a case of the table.                            *)
LEMMA CaseFacts ==
  ASSUME NEW c \in Cases
  PROVE  /\ Len(c.affects) \in Nat /\ DOMAIN c.affects = 1..Len(c.affects)
         /\ DOMAIN c.hooks = DOMAIN c.affects
         /\ c.seen \subseteq {"here", "next", "other"}
<1>1. c.affects \in Seq(BOOLEAN)
  BY TablesAssumption
<1>2. PICK h \in Handlers, q \in Queries : c = Case(h, q)
  BY DEF Cases
<1>3. DOMAIN c.hooks = DOMAIN h.calls /\ DOMAIN c.affects = DOMAIN h.calls
  BY <1>2 DEF Case
<1>4. c.seen = Here(h, q) \cup Then(h, q) \cup Others(h, q)
  BY <1>2 DEF Case
<1>5. c.seen \subseteq {"here", "next", "other"}
  BY <1>4 DEF Here, Then, Others
<1>. QED  BY <1>1, <1>3, <1>5

-----------------------------------------------------------------------------
(* What the cache does with an entry                                       *)
LEMMA JoinTyped ==
  ASSUME NEW e \in Entry, e.flight # NoFlight
  PROVE  /\ Join(e) \in Entry
         /\ Join(e).flight \in Flight
         /\ Join(e).flight.joined \/ (~Join(e).flight.read /\ Join(e).flight.own)
         /\ Join(e).data = e.data /\ Join(e).invalid = e.invalid
BY DEF Join, Entry, Flight

(* What is sent, and what is left, is well typed.                         *)
LEMMA SentTyped == Sent \in Flight
BY ScreensAssumption DEF Sent, Flight

LEMMA FetchTyped ==
  ASSUME NEW e \in Entry
  PROVE  /\ Fetch(e) \in Entry
         /\ Fetch(e).flight \in Flight
         /\ Fetch(e).flight.joined \/ (~Fetch(e).flight.read /\ Fetch(e).flight.own)
<1>1. CASE e.flight = NoFlight
  BY <1>1, SentTyped DEF Fetch, Entry, Sent
<1>2. CASE e.flight # NoFlight
  BY <1>2, JoinTyped DEF Fetch
<1>. QED  BY <1>1, <1>2

LEMMA RefetchTyped ==
  ASSUME NEW e \in Entry
  PROVE  /\ Refetch(e) \in Entry
         /\ Refetch(e).flight \in Flight
         /\ Refetch(e).flight.joined \/ (~Refetch(e).flight.read /\ Refetch(e).flight.own)
<1>1. CASE e.data = Nothing
  BY <1>1, FetchTyped DEF Refetch
<1>2. CASE e.data # Nothing
  BY <1>2, SentTyped DEF Refetch, Entry, Sent
<1>. QED  BY <1>1, <1>2

LEMMA EmptyTyped == Empty \in Entry
BY DEF Empty, Entry

(* An entry that is shown, or kept for a time, brings the changes up to n: *)
(* it has them, or a fetch under way will have read them, unless it is     *)
(* joined, and it is said when the last one failed.                        *)
Brings(e, n) ==
  IF e.flight # NoFlight
  THEN e.flight.joined \/ ~e.flight.read \/ e.flight.saw >= n
  ELSE e.failed \/ (e.data # Nothing /\ (e.data.joined \/ e.data.saw >= n))
Spares(e, n) ==
  (e.flight = NoFlight /\ (e.data = Nothing \/ e.invalid)) \/ Brings(e, n)
Right(e, p, n) ==
  (p \in case.seen => Brings(e, n)) /\ (case.timed => Spares(e, n))

(* A fetch just sent will read every change made so far.                  *)
LEMMA FetchBrings ==
  ASSUME NEW e \in Entry, NEW n
  PROVE  Brings(Fetch(e), n) /\ Brings(Refetch(e), n)
BY FetchTyped, RefetchTyped, ScreensAssumption DEF Brings

(* Refreshing a query once more keeps what its entry brings.              *)
LEMMA InvalidateRight ==
  ASSUME NEW e \in Entry, NEW n
  PROVE  Invalidate(e) \in Entry /\ Right(Invalidate(e), page, n)
<1>. DEFINE marked == [e EXCEPT !.invalid = TRUE]
<1>1. /\ marked \in Entry /\ marked.invalid /\ marked.flight = e.flight
  BY DEF Entry
<1>2. CASE Shown
  <2>1. Invalidate(e) = Refetch(marked)
    BY <1>2 DEF Invalidate
  <2>. HIDE DEF marked
  <2>. QED  BY <1>1, <2>1, RefetchTyped, FetchBrings DEF Right, Spares
<1>3. CASE ~Shown /\ e.flight = NoFlight
  <2>1. Invalidate(e) = marked
    BY <1>3 DEF Invalidate
  <2>. HIDE DEF marked
  <2>. QED  BY <1>1, <1>3, <2>1 DEF Right, Spares, Shown
<1>4. CASE ~Shown /\ e.flight # NoFlight
  <2>1. Invalidate(e) = Join(marked)
    BY <1>4 DEF Invalidate
  <2>. HIDE DEF marked
  <2>2. Join(marked) \in Entry /\ Brings(Join(marked), n)
    BY <1>1, <1>4, JoinTyped, ScreensAssumption DEF Brings
  <2>. QED  BY <1>4, <2>1, <2>2 DEF Right, Spares, Shown
<1>. QED  BY <1>2, <1>3, <1>4

(* So does a page that opens.                                             *)
LEMMA MountRight ==
  ASSUME NEW p, NEW e \in Entry, NEW m \in Mount(p, e), NEW n,
         case.timed => Spares(e, n)
  PROVE  m \in Entry /\ Right(m, p, n)
<1>1. CASE m = Fetch(e) /\ p \in case.seen
  BY <1>1, FetchTyped, FetchBrings DEF Right, Spares
<1>2. CASE m = e /\ p \notin case.seen
  BY <1>2 DEF Right
<1>3. CASE m = e /\ case.timed /\ e.data # Nothing /\ ~e.invalid
  BY <1>3 DEF Right, Spares
<1>. QED  BY <1>1, <1>2, <1>3 DEF Mount

(* A refresh after the last call that changes the query brings it all.    *)
LEMMA RefreshedRight ==
  ASSUME TypeOK, NEW n
  PROVE  /\ Refreshed \in Entry
         /\ Right(entry, page, n) => Right(Refreshed, page, n)
         /\ (case.keys /\ ~Dropped) \/ case.refetch => Right(Refreshed, page, n)
<1>. DEFINE asked == IF case.keys /\ ~Dropped THEN Invalidate(entry) ELSE entry
<1>1. entry \in Entry
  BY DEF TypeOK
<1>2. /\ asked \in Entry
      /\ Right(entry, page, n) => Right(asked, page, n)
      /\ case.keys /\ ~Dropped => Right(asked, page, n)
  BY <1>1, InvalidateRight
<1>3. Refreshed = IF case.refetch THEN Refetch(asked) ELSE asked
  BY DEF Refreshed
<1>. HIDE DEF asked
<1>4. Refetch(asked) \in Entry /\ Right(Refetch(asked), page, n)
  BY <1>2, RefetchTyped, FetchBrings DEF Right, Spares
<1>. QED  BY <1>2, <1>3, <1>4

-----------------------------------------------------------------------------
(* Type correctness                                                        *)
LEMMA ScreensTypeInit == Init => TypeOK
<1>. SUFFICES ASSUME Init PROVE TypeOK
  OBVIOUS
<1>1. Len(case.affects) \in Nat
  BY CaseFacts DEF Init
<1>2. job \in [at : 0..(Len(case.affects) + 1), ran : BOOLEAN]
  BY <1>1 DEF Init, Idle
<1>. QED  BY <1>2, EmptyTyped, ScreensAssumption DEF Init, TypeOK, Reached

(* The case is chosen once.                                               *)
LEMMA CaseStays == [Next]_vars => case' = case
BY DEF Next, vars, GoTo, SignIn, Reload, Collect, Poll, Start, Run, Answered,
       Refused, Finish, Read, FetchOk, FetchFailed

(* Each step is well typed.                                               *)
LEMMA ScreensTypeStep == TypeOK /\ [Next]_vars => TypeOK'
<1>. SUFFICES ASSUME TypeOK, [Next]_vars PROVE TypeOK'
  OBVIOUS
<1>0. case' = case
  BY CaseStays
<1>. DEFINE Jobs == [at : 0..(Len(case.affects) + 1), ran : BOOLEAN]
<1>1. /\ case \in Cases /\ page \in Reached /\ entry \in Entry /\ job \in Jobs
      /\ changes \in 0..MaxChanges /\ told \in 0..changes
      /\ Len(case.affects) \in Nat /\ Calls = 1..Len(case.affects)
      /\ MaxChanges \in Nat
  BY CaseFacts, ScreensAssumption DEF TypeOK, Calls
<1>2. SUFFICES /\ page' \in Reached /\ entry' \in Entry /\ job' \in Jobs
               /\ changes' \in 0..MaxChanges /\ told' \in 0..changes'
  BY <1>0, <1>1 DEF TypeOK, Reached
<1>3. Idle \in Jobs /\ Empty \in Entry
  BY <1>1, EmptyTyped DEF Idle
<1>4. ASSUME NEW p \in Reached, GoTo(p) PROVE entry' \in Entry
  <2>1. entry' \in Mount(p, entry)
    BY <1>4 DEF GoTo
  <2>. QED  BY <1>1, <2>1, FetchTyped DEF Mount
<1>5. ASSUME SignIn PROVE entry' \in Entry
  <2>1. Disown(entry.data) \in Answer \cup {Nothing}
    BY <1>1, ScreensAssumption DEF Disown, Entry, Answer
  <2>2. Disown(entry.flight) \in Flight \cup {NoFlight}
    BY <1>1, ScreensAssumption DEF Disown, Entry, Flight
  <2>. QED  BY <1>1, <1>5, <2>1, <2>2 DEF SignIn, Entry
<1>6. ASSUME Start PROVE job' \in Jobs
  BY <1>1, <1>6 DEF Start
<1>7. ASSUME Run PROVE job' \in Jobs /\ changes' \in 0..MaxChanges /\ told' \in 0..changes'
  <2>1. job' \in Jobs
    BY <1>1, <1>7 DEF Run
  <2>2. changes' \in {changes, changes + 1} /\ changes' <= MaxChanges /\ told' = told
    BY <1>1, <1>7 DEF Run
  <2>. QED  BY <1>1, <2>1, <2>2
<1>8. ASSUME Answered PROVE job' \in Jobs /\ entry' \in Entry
  <2>1. job' = [at |-> job.at + 1, ran |-> FALSE] /\ job.at \in 1..Len(case.affects)
    BY <1>1, <1>8 DEF Answered
  <2>2. job' \in Jobs
    BY <1>1, <2>1
  <2>3. entry' \in Entry
    BY <1>1, <1>8, InvalidateRight DEF Answered
  <2>. QED  BY <2>2, <2>3
<1>9. ASSUME Finish PROVE page' \in Reached /\ entry' \in Entry /\ told' \in 0..changes'
  <2>1. Refreshed \in Entry
    BY RefreshedRight
  <2>2. \A p : Mount(p, Refreshed) \subseteq Entry
    BY <2>1, FetchTyped DEF Mount
  <2>3. page' \in Reached
    BY <1>1, <1>9 DEF Finish, Reached
  <2>. QED  BY <1>1, <1>9, <2>1, <2>2, <2>3 DEF Finish
<1>10. ASSUME Read PROVE entry' \in Entry
  BY <1>1, <1>10 DEF Read, Entry, Flight
<1>11. ASSUME FetchOk PROVE entry' \in Entry
  BY <1>1, <1>11 DEF FetchOk, Entry, Flight, Answer, Empty
<1>12. ASSUME FetchFailed PROVE entry' \in Entry
  BY <1>1, <1>12 DEF FetchFailed, Entry
<1>13. CASE \E p \in Reached : GoTo(p)
  BY <1>1, <1>4, <1>13 DEF GoTo
<1>14. CASE SignIn
  BY <1>1, <1>5, <1>14 DEF SignIn
<1>15. CASE Reload
  BY <1>1, <1>3, <1>15 DEF Reload, Reached
<1>16. CASE Collect
  BY <1>1, <1>3, <1>16 DEF Collect
<1>17. CASE Poll
  BY <1>1, <1>17, FetchTyped DEF Poll
<1>18. CASE Start \/ Run \/ Answered
  BY <1>1, <1>6, <1>7, <1>8, <1>18 DEF Start, Run, Answered
<1>19. CASE Refused
  BY <1>1, <1>3, <1>19 DEF Refused
<1>20. CASE Finish
  BY <1>1, <1>3, <1>9, <1>20 DEF Finish
<1>21. CASE Read \/ FetchOk \/ FetchFailed
  BY <1>1, <1>10, <1>11, <1>12, <1>21 DEF Read, FetchOk, FetchFailed
<1>22. CASE UNCHANGED vars
  BY <1>1, <1>22 DEF vars
<1>. QED  BY <1>13, <1>14, <1>15, <1>16, <1>17, <1>18, <1>19, <1>20, <1>21, <1>22 DEF Next

(* Every reachable state of Screens is well typed, for every pair of a     *)
(* handler and a query and any number of changes.                          *)
THEOREM ScreensTypes == Spec => []TypeOK
BY ScreensTypeInit, ScreensTypeStep, PTL DEF Spec

-----------------------------------------------------------------------------
(* Whose answer a page shows: its visitor's, or that of a fetch he joined  *)
Owned(e) ==
  IF e.flight # NoFlight THEN e.flight.joined \/ e.flight.own
  ELSE e.failed \/ (e.data # Nothing /\ (e.data.joined \/ e.data.own))
OwnShown == (Shown /\ ~case.timed) => Owned(entry)

(* Each step keeps what is shown the visitor's own.                       *)
LEMMA OwnStep == TypeOK /\ OwnShown /\ [Next]_vars => OwnShown'
<1>. SUFFICES ASSUME TypeOK, OwnShown, [Next]_vars, ~case.timed, Shown' PROVE Owned(entry')
  BY CaseStays DEF OwnShown
<1>0. case' = case
  BY CaseStays
<1>1. entry \in Entry /\ Elsewhere \notin case.seen
  BY CaseFacts DEF TypeOK, Elsewhere
<1>2. page' \in case.seen
  BY <1>0 DEF Shown
<1>3. \A e \in Entry : Owned(Fetch(e)) /\ Owned(Refetch(e))
  BY FetchTyped, RefetchTyped, ScreensAssumption DEF Owned
<1>4. ASSUME NEW e \in Entry, Owned(e) \/ ~Shown, Shown
      PROVE  Owned(Invalidate(e))
  <2>. DEFINE marked == [e EXCEPT !.invalid = TRUE]
  <2>1. marked \in Entry
    BY DEF Entry
  <2>. QED  BY <1>3, <1>4, <2>1 DEF Invalidate
<1>5. ASSUME NEW p \in case.seen, NEW e \in Entry, NEW m \in Mount(p, e) PROVE Owned(m)
  BY <1>3, <1>5 DEF Mount
<1>6. CASE \E p \in Reached : GoTo(p)
  BY <1>1, <1>2, <1>5, <1>6 DEF GoTo
<1>7. CASE SignIn \/ Reload
  BY <1>1, <1>2, <1>7 DEF SignIn, Reload
<1>8. CASE Collect
  BY <1>2, <1>8 DEF Collect, Shown
<1>9. CASE Poll
  BY <1>1, <1>3, <1>9 DEF Poll
<1>10. CASE Start \/ Run \/ Refused \/ UNCHANGED vars
  BY <1>2, <1>10 DEF Start, Run, Refused, vars, OwnShown, Shown
<1>11. CASE Answered
  BY <1>1, <1>2, <1>4, <1>11 DEF Answered, OwnShown, Shown
<1>12. CASE Finish
  <2>1. Refreshed \in Entry
    BY RefreshedRight
  <2>2. CASE page' = page
    <3>. DEFINE asked == IF case.keys /\ ~Dropped THEN Invalidate(entry) ELSE entry
    <3>1. Shown
      BY <1>2, <2>2 DEF Shown
    <3>2. asked \in Entry /\ Owned(asked)
      BY <1>1, <1>4, <3>1, InvalidateRight DEF OwnShown
    <3>3. entry' = IF case.refetch THEN Refetch(asked) ELSE asked
      BY <1>12, <2>2 DEF Finish, Refreshed
    <3>. HIDE DEF asked
    <3>. QED  BY <1>3, <3>2, <3>3
  <2>3. CASE page' # page
    BY <1>2, <1>5, <1>12, <2>1, <2>3 DEF Finish
  <2>. QED  BY <2>2, <2>3
<1>13. CASE Read
  <2>1. Shown
    BY <1>2, <1>13 DEF Read, Shown
  <2>2. entry'.flight \in Flight
    BY <1>1, <1>13, ScreensTypeStep DEF Read, Entry, Flight, TypeOK
  <2>. QED  BY <1>1, <1>13, <2>1, <2>2, ScreensAssumption DEF Read, OwnShown,
         Owned, Entry, Flight
<1>14. CASE FetchOk
  <2>1. Shown
    BY <1>2, <1>14 DEF FetchOk, Shown
  <2>2. entry'.data \in Answer
    BY <1>1, <1>14 DEF FetchOk, Entry, Flight, Answer, Empty
  <2>. QED
    BY <1>1, <1>14, <2>1, <2>2, ScreensAssumption DEF FetchOk, OwnShown, Owned,
           Empty
<1>15. CASE FetchFailed
  BY <1>1, <1>15 DEF FetchFailed, Owned, Entry
<1>. QED  BY <1>6, <1>7, <1>8, <1>9, <1>10, <1>11, <1>12, <1>13, <1>14, <1>15 DEF Next

(* The cache outlives a sign-out, but a page that is quiet has what its    *)
(* visitor asked for himself, or what he joined on the way.                *)
THEOREM ScreensOwnData == Spec => []OwnData
<1>1. Init => OwnShown
  BY CaseFacts DEF Init, OwnShown, Shown, Elsewhere
<1>2. OwnShown => OwnData
  BY DEF OwnShown, OwnData, Owned, Quiet
<1>. QED  BY <1>1, <1>2, OwnStep, ScreensTypes, PTL DEF Spec
-----------------------------------------------------------------------------
(* What a page has been told is done is in its entry, or will be.  While   *)
(* the handler is at work the same holds of all the changes, once it has   *)
(* refreshed the query after the last of its calls that changes it.        *)
Held == ~Kept /\ ~case.forgotten
Covered(j) ==
  \E r \in Calls :
    /\ r < j.at /\ case.hooks[r]
    /\ \A i \in Calls : case.affects[i] /\ (i < j.at \/ (i = j.at /\ j.ran)) => i <= r
ToldRight == Right(entry, page, told)
AllRight == Covered(job) => Right(entry, page, changes)
Informing == Held => ToldRight /\ AllRight

(* Reading brings all the changes so far, landing keeps what was read.     *)
LEMMA ReadRight ==
  ASSUME TypeOK, Read, NEW n \in 0..changes, Right(entry, page, n)
  PROVE  Right(entry', page, n)
<1>1. /\ entry \in Entry /\ entry.flight \in Flight /\ changes \in 0..MaxChanges
      /\ MaxChanges \in Nat
  BY ScreensAssumption DEF Read, TypeOK, Entry
<1>2. entry'.flight \in Flight /\ entry'.flight.saw = changes
  BY <1>1 DEF Read, Entry, Flight
<1>3. changes >= n
  BY <1>1
<1>4. Brings(entry', n)
  BY <1>2, <1>3, ScreensAssumption DEF Brings
<1>. QED  BY <1>4 DEF Right, Spares

(* An answer, or a failure, keeps what the entry brings.                  *)
LEMMA LandRight ==
  ASSUME TypeOK, FetchOk \/ FetchFailed, NEW n, Right(entry, page, n)
  PROVE  Right(entry', page, n)
<1>1. entry \in Entry /\ entry.flight \in Flight /\ entry.flight # NoFlight
  BY DEF FetchOk, FetchFailed, TypeOK, Entry
<1>2. CASE FetchOk
  <2>1. entry'.data \in Answer /\ entry'.data # Nothing
    BY <1>1, <1>2, ScreensAssumption DEF FetchOk, Entry, Flight, Answer, Empty
  <2>2. /\ entry'.flight = NoFlight /\ ~entry'.failed
        /\ entry'.data.joined = entry.flight.joined /\ entry'.data.saw = entry.flight.saw
        /\ entry.flight.read
    BY <1>1, <1>2 DEF FetchOk, Entry, Empty
  <2>3. Brings(entry, n) => Brings(entry', n)
    BY <1>1, <2>1, <2>2 DEF Brings
  <2>. QED  BY <1>1, <2>3 DEF Right, Spares
<1>3. CASE FetchFailed
  <2>1. Brings(entry', n)
    BY <1>1, <1>3 DEF FetchFailed, Entry, Brings
  <2>. QED  BY <2>1 DEF Right, Spares
<1>. QED  BY <1>2, <1>3

(* Any step that makes no change and tells of none                         *)
LEMMA QuietRight ==
  ASSUME TypeOK, NEW n \in 0..changes, Right(entry, page, n),
         \/ \E p \in Reached : GoTo(p)
         \/ SignIn \/ Reload \/ Collect \/ Poll \/ Start \/ Run \/ Answered \/ Refused
         \/ Read \/ FetchOk \/ FetchFailed \/ UNCHANGED vars
  PROVE  Right(entry', page', n)
<1>1. entry \in Entry /\ Elsewhere \notin case.seen
  BY CaseFacts DEF TypeOK, Elsewhere
<1>2. CASE \E p \in Reached : GoTo(p)
  BY <1>1, <1>2, MountRight DEF GoTo, Right
<1>3. CASE SignIn
  <2>1. /\ page' = page /\ page \notin case.seen
        /\ entry' = [entry EXCEPT !.data = Disown(@), !.flight = Disown(@)]
    BY <1>1, <1>3 DEF SignIn
  <2>2. /\ entry'.data = Disown(entry.data) /\ entry'.flight = Disown(entry.flight)
        /\ entry'.invalid = entry.invalid /\ entry'.failed = entry.failed
    BY <1>1, <2>1 DEF Entry
  <2>3. CASE entry.flight = NoFlight
    <3>1. entry'.flight = NoFlight
      BY <2>2, <2>3 DEF Disown
    <3>2. CASE entry.data \in {Nothing, NoFlight}
      BY <2>1, <2>2, <2>3, <3>1, <3>2 DEF Disown, Right, Spares, Brings
    <3>3. CASE entry.data \notin {Nothing, NoFlight}
      <4>1. /\ entry'.data \in Answer /\ entry'.data # Nothing
            /\ entry'.data.joined = entry.data.joined /\ entry'.data.saw = entry.data.saw
        BY <1>1, <2>2, <3>3, ScreensAssumption DEF Disown, Entry, Answer
      <4>. QED  BY <2>1, <2>2, <2>3, <3>1, <3>3, <4>1 DEF Right, Spares, Brings
    <3>. QED  BY <3>2, <3>3
  <2>4. CASE entry.flight = Nothing
    BY <2>1, <2>2, <2>4 DEF Disown, Right, Spares, Brings
  <2>5. CASE entry.flight \notin {Nothing, NoFlight}
    <3>1. /\ entry'.flight \in Flight /\ entry'.flight # NoFlight
          /\ entry'.flight.joined = entry.flight.joined
          /\ entry'.flight.read = entry.flight.read /\ entry'.flight.saw = entry.flight.saw
      BY <1>1, <2>2, <2>5, ScreensAssumption DEF Disown, Entry, Flight
    <3>. QED  BY <2>1, <2>5, <3>1 DEF Right, Spares, Brings
  <2>. QED  BY <2>3, <2>4, <2>5
<1>4. CASE Reload
  BY <1>1, <1>4 DEF Reload, Right, Spares, Empty
<1>5. CASE Collect
  BY <1>5 DEF Collect, Shown, Right, Spares, Empty
<1>6. CASE Poll
  BY <1>1, <1>6, FetchBrings DEF Poll, Right, Spares
<1>7. CASE Answered
  BY <1>1, <1>7, InvalidateRight DEF Answered
<1>8. CASE Start \/ Run \/ Refused \/ UNCHANGED vars
  BY <1>8 DEF Start, Run, Refused, vars
<1>9. CASE Read
  BY <1>9, ReadRight DEF Read
<1>10. CASE FetchOk \/ FetchFailed
  BY <1>10, LandRight DEF FetchOk, FetchFailed
<1>. QED  BY <1>2, <1>3, <1>4, <1>5, <1>6, <1>7, <1>8, <1>9, <1>10

(* The last step of the handler tells only of what the page will show.     *)
LEMMA FinishRight ==
  ASSUME TypeOK, Held, ToldRight, AllRight, Finish
  PROVE  Right(entry', page', told')
<1>1. /\ Refreshed \in Entry
      /\ \A n : Right(entry, page, n) => Right(Refreshed, page, n)
      /\ \A n : (case.keys /\ ~Dropped) \/ case.refetch => Right(Refreshed, page, n)
  BY RefreshedRight
<1>2. ASSUME NEW n, Right(Refreshed, page, n) PROVE Right(entry', page', n)
  <2>1. CASE page' = page
    BY <1>2, <2>1 DEF Finish
  <2>2. CASE page' # page
    BY <1>1, <1>2, <2>2, MountRight DEF Finish, Right
  <2>. QED  BY <2>1, <2>2
<1>3. CASE ~Informed
  BY <1>1, <1>2, <1>3 DEF Finish, ToldRight
<1>4. CASE Informed /\ case.refreshes
  <2>1. told' = changes
    BY <1>4 DEF Finish
  <2>2. ~Dropped
    BY <1>4 DEF Informed, Dropped
  <2>3. RefreshedLast(case)
    BY <1>4, TablesAssumption DEF TypeOK
  <2>4. CASE case.keys \/ case.refetch
    BY <1>1, <1>2, <2>1, <2>2, <2>4
  <2>5. CASE ~case.keys /\ ~case.refetch
    <3>1. PICK r \in DOMAIN case.hooks :
            case.hooks[r] /\ \A i \in DOMAIN case.affects : case.affects[i] => i <= r
      BY <2>3, <2>5 DEF RefreshedLast
    <3>2. r \in Calls /\ Calls = 1..Len(case.affects) /\ Len(case.affects) \in Nat
      BY CaseFacts DEF TypeOK, Calls
    <3>3. job.at = Len(case.affects) + 1
      BY <1>4 DEF Finish
    <3>4. Covered(job)
      BY <3>1, <3>2, <3>3 DEF Covered, Calls
    <3>. QED  BY <1>1, <1>2, <2>1, <3>4 DEF AllRight
  <2>. QED  BY <2>4, <2>5
<1>5. CASE Informed /\ ~case.refreshes
  <2>1. page = "here" /\ ~case.timed
    BY <1>5 DEF Informed, Held, Kept
  <2>2. case.moves \/ page \notin case.seen
    BY <1>5, <2>1, TablesAssumption DEF Held, Kept, TypeOK
  <2>3. CASE case.moves
    <3>1. page' # page /\ entry' \in Mount(page', Refreshed)
      BY <2>1, <2>3 DEF Finish
    <3>. QED  BY <1>1, <2>1, <3>1, MountRight
  <2>4. CASE ~case.moves
    BY <2>1, <2>2, <2>4 DEF Finish, Right
  <2>. QED  BY <2>3, <2>4
<1>. QED  BY <1>3, <1>4, <1>5

(* A step of the handler after which its changes are covered               *)
LEMMA CoveredStep ==
  ASSUME TypeOK, [Next]_vars, AllRight, Covered(job)'
  PROVE  /\ ~Finish /\ changes' = changes
         /\ Covered(job) \/ (Answered /\ case.hooks[job.at])
<1>0. case' = case
  BY CaseStays
<1>1. PICK r \in Calls :
        /\ r < job'.at /\ case.hooks[r]
        /\ \A i \in Calls :
             case.affects[i] /\ (i < job'.at \/ (i = job'.at /\ job'.ran)) => i <= r
  BY <1>0 DEF Covered, Calls
<1>2. Calls = 1..Len(case.affects) /\ Len(case.affects) \in Nat /\ job.at \in Nat /\ job'.at \in Nat
  BY <1>0, CaseFacts, ScreensTypeStep DEF TypeOK, Calls
<1>3. job' # Idle /\ job'.at > 1
  BY <1>1, <1>2 DEF Idle
<1>4. CASE Run
  <2>1. job'.at = job.at /\ job'.ran /\ ~job.ran /\ job.at \in Calls
    BY <1>4 DEF Run, TypeOK
  <2>2. ~case.affects[job.at]
    BY <1>1, <1>2, <2>1
  <2>. QED  BY <1>0, <1>1, <1>2, <1>4, <2>1, <2>2 DEF Run, Covered, Finish
<1>5. CASE Answered
  <2>1. job'.at = job.at + 1 /\ job.at \in Calls /\ job.ran /\ ~job'.ran
    BY <1>5 DEF Answered
  <2>2. CASE r = job.at
    BY <1>1, <1>2, <1>5, <2>1, <2>2 DEF Answered, Finish
  <2>3. CASE r # job.at
    BY <1>1, <1>2, <1>5, <2>1, <2>3 DEF Answered, Finish, Covered
  <2>. QED  BY <2>2, <2>3
<1>6. CASE Start \/ Reload \/ Refused \/ Finish
  BY <1>3, <1>6 DEF Start, Reload, Refused, Finish
<1>7. CASE \/ \E p \in Reached : GoTo(p)
           \/ SignIn \/ Collect \/ Poll \/ Read \/ FetchOk \/ FetchFailed \/ UNCHANGED vars
  BY <1>0, <1>1, <1>3, <1>7
     DEF GoTo, SignIn, Collect, Poll, Read, FetchOk, FetchFailed, vars, Covered,
         Finish
<1>. QED  BY <1>4, <1>5, <1>6, <1>7 DEF Next

(* Each step keeps the entry informing.                                   *)
LEMMA InformingStep == TypeOK /\ Informing /\ [Next]_vars => Informing'
<1>. SUFFICES ASSUME TypeOK, Informing, [Next]_vars, Held' PROVE ToldRight' /\ AllRight'
  BY DEF Informing
<1>0. case' = case
  BY CaseStays
<1>1. Held /\ ToldRight /\ AllRight
  BY <1>0 DEF Held, Kept, Informing
<1>2. told \in 0..changes /\ changes \in 0..changes
  BY ScreensAssumption DEF TypeOK
<1>3. ToldRight' <=> Right(entry', page', told')
  BY <1>0 DEF ToldRight, Right, Spares, Brings
<1>4. AllRight' <=> (Covered(job)' => Right(entry', page', changes'))
  BY <1>0 DEF AllRight, Right, Spares, Brings
<1>5. ToldRight'
  <2>1. CASE Finish
    BY <1>1, <1>3, <2>1, FinishRight
  <2>2. CASE ~Finish
    <3>1. told' = told
      BY <2>2 DEF Next, vars, GoTo, SignIn, Reload, Collect, Poll, Start, Run,
                  Answered, Refused, Read, FetchOk, FetchFailed
    <3>. QED  BY <1>1, <1>2, <1>3, <2>2, <3>1, QuietRight DEF ToldRight, Next
  <2>. QED  BY <2>1, <2>2
<1>6. ASSUME Covered(job)' PROVE Right(entry', page', changes')
  <2>1. /\ ~Finish /\ changes' = changes
        /\ Covered(job) \/ (Answered /\ case.hooks[job.at])
    BY <1>1, <1>6, CoveredStep
  <2>2. CASE Covered(job)
    BY <1>1, <1>2, <2>1, <2>2, QuietRight DEF AllRight, Next
  <2>3. CASE Answered /\ case.hooks[job.at]
    BY <2>1, <2>3, InvalidateRight DEF Answered, TypeOK
  <2>. QED  BY <2>1, <2>2, <2>3
<1>. QED  BY <1>4, <1>5, <1>6

(* When all is quiet a page shows what its visitor has been told is done,  *)
(* for any number of changes, in whatever order pages are opened, fetches  *)
(* read, land or fail, and handlers are refused or left behind.            *)
THEOREM ScreensUpToDate == Spec => []UpToDate
<1>1. Init => Informing
  BY CaseFacts DEF Init, Informing, ToldRight, AllRight, Covered, Idle, Right,
                   Spares, Brings, Empty, Elsewhere, Calls
<1>2. TypeOK /\ Informing => UpToDate
  BY DEF Informing, Held, ToldRight, Right, Brings, UpToDate, Quiet, Shown
<1>. QED  BY <1>1, <1>2, InformingStep, ScreensTypes, PTL DEF Spec
=============================================================================
