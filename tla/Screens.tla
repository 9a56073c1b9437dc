------------------------------- MODULE Screens ------------------------------
(***************************************************************************)
(* One query of the client's cache while a visitor goes from page to page, *)
(* and one handler that changes on the server what the query reads: every  *)
(* such pair of PageHandlers.                                              *)
(*                                                                         *)
(* The cache is that of React Query, set up in app/providers: an answer is *)
(* stale at once unless the hook says otherwise, nothing is fetched on     *)
(* focus, and the entry outlives the pages, a sign-out too when the page   *)
(* navigates to /login without loading it.                                 *)
(***************************************************************************)
EXTENDS PageHandlers

CONSTANTS MaxChanges,
          Nothing, NoFlight   \* no data in the cache, no fetch under way

Answer == [saw : 0..MaxChanges, own : BOOLEAN, joined : BOOLEAN]
Flight == [saw : 0..MaxChanges, own : BOOLEAN, joined : BOOLEAN, read : BOOLEAN]
ASSUME ScreensAssumption ==
  MaxChanges \in Nat /\ Nothing \notin Answer /\ NoFlight \notin Flight

-----------------------------------------------------------------------------
(* A key stands for every key that it begins.                              *)
Matches(prefix, key) ==
  /\ Len(prefix) <= Len(key)
  /\ \A i \in DOMAIN prefix : prefix[i] = key[i] \/ "*" \in {prefix[i], key[i]}
Hits(keys, q) == \E k \in keys : Matches(k, q.key)

Affects(call, q) == call.writes \cap q.reads # {}
Refreshes(h, q) ==
  \/ q \in h.refetch \/ Hits(h.keys, q)
  \/ \E i \in DOMAIN h.calls : Hits(h.calls[i].refresh, q)

(* What a page goes on showing although its own handler has changed it     *)
Forgotten ==
  (handleAddLeaveBalance \X {useMyLeaveBalancesQuery})
  \cup (handleLockPeriod \X {usePayrollPeriods})
  \cup (handleCreateJobTitle \X {useEmployee})
  \cup (handleCreateShift \X {useEmployee, useEmployeeDefaults})
  \cup (handleSaveEmployee
         \X {useEmployeeDefaults, useEmployeeSelectableUsers, useHrActionsQuery,
             useCommissionApprovalsInboxQuery})
  \cup (submitSale \X {useCustomers, useCatalogItems, useInvoices})
  \cup ((handleAck \cup handleResolve) \X {useAlerts})
  \cup (restoreBackupMutation \X (Shows["/catalog"] \ {backupsQuery}))
  \cup (dashboard_restoreBackup \X (Shows["/dashboard"] \ {backupsQuery}))

(* What a handler means to a query.  "here" is the page of the handler,    *)
(* "next" the one it goes to; of the others that show the query one will do.*)
Here(h, q) == IF q \in Shows[h.page] THEN {"here"} ELSE {}
Then(h, q) == IF h.then # h.page /\ q \in Shows[h.then] THEN {"next"} ELSE {}
Others(h, q) ==
  IF \E p \in Pages \ {h.page, h.then} : q \in Shows[p] THEN {"other"} ELSE {}
Case(h, q) ==
  [affects |-> [i \in DOMAIN h.calls |-> Affects(h.calls[i], q)],
   hooks |-> [i \in DOMAIN h.calls |-> Hits(h.calls[i].refresh, q)],
   keys |-> Hits(h.keys, q), refetch |-> q \in h.refetch,
   moves |-> h.then # h.page, mounted |-> h.mounted,
   timed |-> q.timed, polled |-> q.polled,
   refreshes |-> Refreshes(h, q), forgotten |-> <<h, q>> \in Forgotten,
   seen |-> Here(h, q) \cup Then(h, q) \cup Others(h, q)]
Cases ==
  UNION {{Case(h, q) : q \in {r \in Queries : \E i \in DOMAIN h.calls : Affects(h.calls[i], r)}}
           : h \in Handlers}

(* What the tables come to.  Once a query is refreshed at all, it is        *)
(* refreshed after the last call that changes it; and what is not, nor     *)
(* kept, nor forgotten, is not on the page on which its handler ends.      *)
RefreshedLast(c) ==
  \/ c.keys \/ c.refetch
  \/ \E j \in DOMAIN c.hooks :
       c.hooks[j] /\ \A i \in DOMAIN c.affects : c.affects[i] => i <= j
ASSUME TablesAssumption ==
  \A c \in Cases :
    /\ c.affects \in Seq(BOOLEAN)
    /\ c.refreshes => RefreshedLast(c)
    /\ ~c.refreshes => c.forgotten \/ c.timed \/ c.polled \/ c.moves \/ "here" \notin c.seen

-----------------------------------------------------------------------------
VARIABLES case,      \* the handler and the query, chosen once
          page,
          entry,     \* of the query, in the cache
          job,       \* the call of the handler under way
          changes,   \* made by the server to what the query reads
          told       \* ghost: of which the page learnt that they are made

vars == <<case, page, entry, job, changes, told>>

Elsewhere == "elsewhere"
Reached == {"here", Elsewhere} \cup case.seen \cup IF case.moves THEN {"next"} ELSE {}
Shown == page \in case.seen
Calls == DOMAIN case.affects
Idle == [at |-> 0, ran |-> FALSE]

Entry == [data : Answer \cup {Nothing}, invalid : BOOLEAN,
          flight : Flight \cup {NoFlight}, failed : BOOLEAN]
TypeOK ==
  /\ case \in Cases /\ page \in Reached /\ entry \in Entry
  /\ job \in [at : 0..(Len(case.affects) + 1), ran : BOOLEAN]
  /\ changes \in 0..MaxChanges /\ told \in 0..changes

-----------------------------------------------------------------------------
(* What the cache does with an entry                                       *)
Sent == [saw |-> 0, own |-> TRUE, joined |-> FALSE, read |-> FALSE]
(* joined: ghost, the flight is too old for who asks now                   *)
Join(e) == [e EXCEPT !.flight.joined = @ \/ e.flight.read \/ ~e.flight.own]
Fetch(e) == IF e.flight = NoFlight THEN [e EXCEPT !.flight = Sent] ELSE Join(e)
(* A refetch replaces a fetch under way, but not the first.                *)
Refetch(e) == IF e.data = Nothing THEN Fetch(e) ELSE [e EXCEPT !.flight = Sent]
Invalidate(e) ==
  LET marked == [e EXCEPT !.invalid = TRUE] IN
  IF Shown THEN Refetch(marked)
  ELSE IF e.flight = NoFlight THEN marked ELSE Join(marked)

Empty == [data |-> Nothing, invalid |-> FALSE, flight |-> NoFlight, failed |-> FALSE]

(* mutant: an answer in the cache is not asked for again                   *)
MountCached(p, e) ==
  IF p \notin case.seen \/ e.data # Nothing THEN {e} ELSE {Fetch(e)}
(* A page that is opened asks again for what is stale.  What a hook keeps  *)
(* fresh for a time may still be, or not.                                  *)
Mount(p, e) ==
  IF p \notin case.seen THEN {e}
  ELSE {Fetch(e)}
       \cup (IF case.timed /\ e.data # Nothing /\ ~e.invalid THEN {e} ELSE {})

Init ==
  /\ case \in Cases /\ page = Elsewhere
  /\ entry = Empty /\ job = Idle /\ changes = 0 /\ told = 0

GoTo(p) ==
  /\ p # page
  /\ page' = p /\ entry' \in Mount(p, entry)
  /\ UNCHANGED <<case, job, changes, told>>

(* Sign out and in again as somebody else, without loading the page        *)
Disown(x) == IF x \in {Nothing, NoFlight} THEN x ELSE [x EXCEPT !.own = FALSE]
SignIn ==
  /\ page = Elsewhere
  /\ entry' = [entry EXCEPT !.data = Disown(@), !.flight = Disown(@)]
  /\ UNCHANGED <<case, page, job, changes, told>>

(* The document is loaded anew, or UsersPage clears the cache after a 401. *)
Reload ==
  /\ page' = Elsewhere /\ entry' = Empty /\ job' = Idle
  /\ UNCHANGED <<case, changes, told>>

(* No page has shown the query for five minutes.                           *)
Collect ==
  /\ ~Shown /\ entry.flight = NoFlight
  /\ entry' = Empty
  /\ UNCHANGED <<case, page, job, changes, told>>

(* refetchInterval                                                         *)
Poll ==
  /\ case.polled /\ Shown /\ entry.flight = NoFlight
  /\ entry' = Fetch(entry)
  /\ UNCHANGED <<case, page, job, changes, told>>

-----------------------------------------------------------------------------
(* The handler                                                             *)
Start ==
  /\ page = "here" /\ job = Idle
  /\ job' = [at |-> 1, ran |-> FALSE]
  /\ UNCHANGED <<case, page, entry, changes, told>>

(* The server executes a call ...                                          *)
Run ==
  /\ job.at \in Calls /\ ~job.ran /\ (case.affects[job.at] => changes < MaxChanges)
  /\ job' = [job EXCEPT !.ran = TRUE]
  /\ changes' = IF case.affects[job.at] THEN changes + 1 ELSE changes
  /\ UNCHANGED <<case, page, entry, told>>

(* ... and the hook refreshes what it names as soon as it is answered.     *)
Answered ==
  /\ job.at \in Calls /\ job.ran
  /\ job' = [at |-> job.at + 1, ran |-> FALSE]
  /\ entry' = IF case.hooks[job.at] THEN Invalidate(entry) ELSE entry
  /\ UNCHANGED <<case, page, changes, told>>

(* Refused, or the answer is lost: the message is shown and nothing more.  *)
Refused ==
  /\ job.at \in Calls
  /\ job' = Idle
  /\ UNCHANGED <<case, page, entry, changes, told>>

(* After the last answer; refreshes that were awaited before this one may  *)
(* have taken time.                                                        *)
Dropped == case.mounted /\ page # "here"
(* mutant: what the handler names is not refreshed                         *)
RefreshedNothing == entry
Refreshed ==
  LET asked == IF case.keys /\ ~Dropped THEN Invalidate(entry) ELSE entry IN
  IF case.refetch THEN Refetch(asked) ELSE asked
(* Who left before sees the changes if the handler refreshes the query.    *)
Informed == page = "here" \/ (case.refreshes /\ ~case.mounted)
Finish ==
  /\ job.at = Len(case.affects) + 1
  /\ job' = Idle /\ told' = IF Informed THEN changes ELSE told
  /\ page' = IF case.moves THEN "next" ELSE page
  /\ IF page' = page THEN entry' = Refreshed ELSE entry' \in Mount(page', Refreshed)
  /\ UNCHANGED <<case, changes>>

-----------------------------------------------------------------------------
(* The fetch                                                               *)
Read ==
  /\ entry.flight # NoFlight /\ ~entry.flight.read
  /\ entry' = [entry EXCEPT !.flight.read = TRUE, !.flight.saw = changes]
  /\ UNCHANGED <<case, page, job, changes, told>>

FetchOk ==
  /\ entry.flight # NoFlight /\ entry.flight.read
  /\ entry' = [Empty EXCEPT !.data = [saw |-> entry.flight.saw, own |-> entry.flight.own,
                                      joined |-> entry.flight.joined]]
  /\ UNCHANGED <<case, page, job, changes, told>>

FetchFailed ==
  /\ entry.flight # NoFlight
  /\ entry' = [entry EXCEPT !.flight = NoFlight, !.failed = TRUE]
  /\ UNCHANGED <<case, page, job, changes, told>>

Next ==
  \/ \E p \in Reached : GoTo(p)
  \/ SignIn \/ Reload \/ Collect \/ Poll
  \/ Start \/ Run \/ Answered \/ Refused \/ Finish
  \/ Read \/ FetchOk \/ FetchFailed

Spec == Init /\ [][Next]_vars

-----------------------------------------------------------------------------
Kept == (case.timed \/ case.polled) /\ ~case.refreshes
Quiet == Shown /\ entry.flight = NoFlight /\ ~entry.failed /\ job = Idle

(* When all is quiet the page shows what its visitor has been told is      *)
(* done: wherever he went meanwhile, whichever answers were under way, and *)
(* whatever failed before.  A handler that does not refresh the query is   *)
(* only held to it for who waits on its page, and goes elsewhere then.     *)
(* Left out are the queries it forgets on its own page, those kept for a   *)
(* time or asked for at intervals that it does not refresh, and one order  *)
(* of events: a refresh joins the first fetch, which was read already.     *)
UpToDate ==
  (Quiet /\ ~Kept /\ ~case.forgotten) =>
     entry.data # Nothing /\ (entry.data.joined \/ entry.data.saw >= told)

(* The cache outlives a sign-out, yet the next one to sign in sees what he *)
(* asked for himself: except what a hook keeps for a time, and an answer   *)
(* that was under way.                                                     *)
OwnData ==
  (Quiet /\ ~case.timed) =>
     entry.data # Nothing /\ (entry.data.joined \/ entry.data.own)
=============================================================================
