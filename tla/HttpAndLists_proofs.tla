------------------------ MODULE HttpAndLists_proofs -------------------------
(***************************************************************************)
(* Theorems about HttpClient, for any number of accounts and calls, and    *)
(* about PlatformLists, for every set of filters and page numbers and any  *)
(* number of fetches, handlers and changes.                                *)
(***************************************************************************)
EXTENDS HttpClient, PlatformLists, TLAPS

-----------------------------------------------------------------------------
(* Type correctness.  A login names the account it signs in.               *)

LoginNamed == \A c \in Call : call[c].method = "login" => call[c].who \in Account
Typed == TypeOK /\ LoginNamed

Named(r) == r \in Request /\ (r.method = "login" => r.who \in Account)

LEMMA UnusedNamed == Named(Unused) /\ Unused.method = "get"
BY DEF Named, Unused, Request, Method, Phase, Pending, Waiting

LEMMA SettledNamed ==
  ASSUME NEW at \in {"resolved", "rejected"}
  PROVE  Named(Settled(at)) /\ Settled(at).at = at
<1>1. at \in Phase
  BY DEF Phase
<1>. QED  BY <1>1, UnusedNamed DEF Named, Settled, Request

LEMMA WaitNamed ==
  ASSUME NEW r, Named(r), NEW at \in Waiting
  PROVE  /\ Named(Wait(r, at)) /\ Wait(r, at).at = at
         /\ Wait(r, at).sends = r.sends /\ Wait(r, at).limited = r.limited
         /\ Wait(r, at).retried = r.retried
         /\ Named([Wait(r, at) EXCEPT !.retried = TRUE])
         /\ [Wait(r, at) EXCEPT !.retried = TRUE].retried = TRUE
         /\ [Wait(r, at) EXCEPT !.retried = TRUE].at = at
         /\ [Wait(r, at) EXCEPT !.retried = TRUE].sends = r.sends
         /\ [Wait(r, at) EXCEPT !.retried = TRUE].limited = r.limited
<1>1. at \in Phase
  BY DEF Phase, Pending
<1>2. /\ Wait(r, at) \in Request /\ Wait(r, at).at = at
      /\ Wait(r, at).method = r.method /\ Wait(r, at).who = r.who
      /\ Wait(r, at).sends = r.sends /\ Wait(r, at).limited = r.limited
      /\ Wait(r, at).retried = r.retried
  BY <1>1 DEF Named, Wait, Request
<1>. DEFINE w == Wait(r, at)
<1>. HIDE DEF w
<1>3. /\ [w EXCEPT !.retried = TRUE] \in Request
      /\ [w EXCEPT !.retried = TRUE].retried = TRUE
      /\ [w EXCEPT !.retried = TRUE].at = w.at
      /\ [w EXCEPT !.retried = TRUE].method = w.method
      /\ [w EXCEPT !.retried = TRUE].who = w.who
      /\ [w EXCEPT !.retried = TRUE].sends = w.sends
      /\ [w EXCEPT !.retried = TRUE].limited = w.limited
  BY <1>2 DEF w, Request
<1>. QED  BY <1>2, <1>3 DEF Named, w

LEMMA AttachNamed ==
  ASSUME NEW r, Named(r), NEW t \in Token \cup {NoToken}
  PROVE  /\ Named(Attach(r, t)) /\ Attach(r, t).at = "sent"
         /\ Attach(r, t).sends = r.sends + 1
         /\ Attach(r, t).limited = r.limited
         /\ Attach(r, t).retried = r.retried
<1>1. "sent" \in Phase
  BY DEF Phase, Pending
<1>2. r.sends \in Nat /\ r.sends + 1 \in Nat
  BY DEF Named, Request
<1>. DEFINE w == IF t = NoToken THEN r.with ELSE t
<1>3. w \in Token \cup {NoToken}
  BY DEF Named, Request
<1>4. Attach(r, t) = [[[r EXCEPT !.at = "sent"] EXCEPT !.with = w]
                        EXCEPT !.sends = r.sends + 1]
  BY DEF Attach, Named, Request
<1>. HIDE DEF w
<1>. QED  BY <1>1, <1>2, <1>3, <1>4 DEF Named, Request

LEMMA DispatchNamed ==
  ASSUME TypeOK, NEW r, Named(r)
  PROVE  /\ Named(Dispatch(r))
         /\ Dispatch(r).limited = r.limited /\ Dispatch(r).retried = r.retried
         /\ \/ Dispatch(r).at = "sent" /\ Dispatch(r).sends = r.sends + 1
            \/ /\ Dispatch(r).at = "held" /\ Dispatch(r).sends = r.sends
               /\ isRefreshing /\ refreshPromise # NoOne
<1>1. CASE isRefreshing /\ refreshPromise # NoOne
  <2>1. "held" \in Phase
    BY DEF Phase, Pending, Waiting
  <2>. QED  BY <1>1, <2>1 DEF Dispatch, Named, Request
<1>2. CASE ~(isRefreshing /\ refreshPromise # NoOne)
  BY <1>2, AttachNamed DEF Dispatch, TypeOK
<1>. QED  BY <1>1, <1>2

LEMMA AgedType ==
  ASSUME NEW t \in Token \cup {NoToken}
  PROVE  Aged(t) \in Token \cup {NoToken} /\ Aged(NoToken) = NoToken
<1>1. CASE t = NoToken
  BY <1>1 DEF Aged
<1>2. CASE t # NoToken
  <2>1. [t EXCEPT !.live = FALSE] \in Token
    BY <1>2 DEF Token
  <2>. QED  BY <1>2, <2>1 DEF Aged
<1>. QED  BY <1>1, <1>2

LEMMA AgedNamed ==
  ASSUME NEW r, Named(r)
  PROVE  /\ Named([r EXCEPT !.with = Aged(@)])
         /\ [r EXCEPT !.with = Aged(@)].at = r.at
         /\ [r EXCEPT !.with = Aged(@)].sends = r.sends
         /\ [r EXCEPT !.with = Aged(@)].limited = r.limited
         /\ [r EXCEPT !.with = Aged(@)].retried = r.retried
<1>1. Aged(r.with) \in Token \cup {NoToken}
  BY AgedType DEF Named, Request
<1>. QED  BY <1>1 DEF Named, Request

LEMMA RenewedType == ASSUME TypeOK, refreshPromise # NoOne PROVE Renewed \in Token
BY DEF TypeOK, Renewed, Token

LEMMA NoQueue == <<>> \in Seq(Call)
OBVIOUS

LEMMA FreedType ==
  Freed => /\ isRefreshing' \in BOOLEAN /\ requestQueue' \in Seq(Call)
           /\ refreshPromise' \in Account \cup {NoOne}
BY NoQueue DEF Freed

LEMMA ClearedType ==
  ASSUME TypeOK, isRefreshing' \in BOOLEAN, Cleared
  PROVE  tokens' = NoToken /\ away' \in BOOLEAN
BY DEF TypeOK, Cleared

(* What a call issued and an answered refresh make of a call               *)
Fresh(m, u) == [Unused EXCEPT !.method = m, !.who = u]
AfterGrant(r) == IF r.at \in Waiting THEN Attach(r, Renewed) ELSE r
AfterDenial(r) ==
  CASE r.at \in {"leading", "queued"} -> Settled("rejected")
    [] r.at = "held" -> Attach(r, NoToken)
    [] OTHER -> r

LEMMA FreshNamed ==
  ASSUME NEW m \in Method, NEW u \in Account \cup {NoOne},
         (m = "login") <=> (u # NoOne)
  PROVE  /\ Named(Fresh(m, u)) /\ Fresh(m, u).sends = 0
         /\ Fresh(m, u).limited = 0 /\ Fresh(m, u).retried = FALSE
<1>1. Unused \in Request /\ Unused.sends = 0 /\ Unused.limited = 0
      /\ Unused.retried = FALSE
  BY UnusedNamed DEF Named, Unused
<1>. QED  BY <1>1 DEF Named, Fresh, Request

LEMMA ThrottledNamed ==
  ASSUME NEW r, Named(r)
  PROVE  /\ Named(Throttled(r))
         /\ \/ /\ Throttled(r).at = "backoff" /\ Throttled(r).sends = r.sends
               /\ Throttled(r).limited = r.limited + 1
               /\ Throttled(r).retried = r.retried
            \/ Throttled(r) = Settled("rejected")
<1>1. CASE r.method = "get" /\ r.limited < 2
  <2>. DEFINE w == [r EXCEPT !.at = "backoff"]
  <2>1. /\ w \in Request /\ w.at = "backoff" /\ w.sends = r.sends
        /\ w.limited = r.limited /\ w.retried = r.retried
        /\ w.method = "login" => w.who \in Account
    BY DEF Named, Request, Phase, Pending, Waiting
  <2>2. Throttled(r) = [w EXCEPT !.limited = w.limited + 1]
    BY <1>1, <2>1 DEF Throttled
  <2>3. w.limited + 1 \in 0..2
    BY <1>1, <2>1 DEF Named, Request
  <2>. HIDE DEF w
  <2>. QED  BY <2>1, <2>2, <2>3 DEF Named, Request
<1>2. CASE ~(r.method = "get" /\ r.limited < 2)
  BY <1>2, SettledNamed DEF Throttled
<1>. QED  BY <1>1, <1>2

LEMMA CallNamed == Typed <=> TypeOK /\ \A c \in Call : Named(call[c])
BY DEF Typed, TypeOK, LoginNamed, Named

LEMMA TypedInit == Init => Typed
<1>. SUFFICES ASSUME Init PROVE Typed
  OBVIOUS
<1>1. call \in [Call -> Request] /\ LoginNamed
  BY UnusedNamed DEF Init, LoginNamed, Named
<1>. QED  BY <1>1, NoQueue DEF Init, Typed, TypeOK

(* A step that changes one call, and for the better                        *)
LEMMA OneCallTyped ==
  ASSUME Typed, NEW c \in Call, NEW r, Named(r), call' = [call EXCEPT ![c] = r]
  PROVE  call' \in [Call -> Request] /\ LoginNamed'
BY DEF Typed, TypeOK, LoginNamed, Named

LEMMA TypedStep == Typed /\ [Next]_vars => Typed'
<1>. SUFFICES ASSUME Typed, [Next]_vars PROVE Typed'
  OBVIOUS
<1>0. TypeOK /\ \A c \in Call : Named(call[c])
  BY CallNamed
<1>1. ASSUME NEW c \in Call, NEW m \in Method, NEW u \in Account \cup {NoOne},
             Issue(c, m, u)
      PROVE Typed'
  <2>1. Named(Dispatch(Fresh(m, u)))
    BY <1>0, <1>1, FreshNamed, DispatchNamed DEF Issue
  <2>2. call' \in [Call -> Request] /\ LoginNamed'
    BY <1>1, <2>1, OneCallTyped DEF Issue, Fresh
  <2>. QED  BY <1>0, <1>1, <2>2 DEF Issue, Typed, TypeOK
<1>2. ASSUME NEW c \in Call, Succeed(c) PROVE Typed'
  <2>1. call' \in [Call -> Request] /\ LoginNamed'
    BY <1>2, SettledNamed, OneCallTyped DEF Succeed
  <2>2. tokens' \in Token \cup {NoToken} /\ away' \in BOOLEAN
    BY <1>0, <1>2 DEF Succeed, TypeOK, Named, Token
  <2>. QED  BY <1>0, <1>2, <2>1, <2>2 DEF Succeed, Typed, TypeOK
<1>3. ASSUME NEW c \in Call, Queue(c) PROVE Typed'
  <2>1. call' \in [Call -> Request] /\ LoginNamed'
    BY <1>0, <1>3, WaitNamed, OneCallTyped DEF Queue, Waiting
  <2>. QED  BY <1>0, <1>3, <2>1 DEF Queue, Typed, TypeOK
<1>4. ASSUME NEW c \in Call, Lead(c) PROVE Typed'
  <2>1. call' \in [Call -> Request] /\ LoginNamed'
    BY <1>0, <1>4, WaitNamed, OneCallTyped DEF Lead, Waiting
  <2>2. refreshPromise' \in Account
    BY <1>0, <1>4 DEF Lead, MayRefresh, TypeOK, Token
  <2>. QED  BY <1>0, <1>4, <2>1, <2>2 DEF Lead, Typed, TypeOK
<1>5. ASSUME NEW c \in Call, GiveUp(c) PROVE Typed'
  <2>1. call' \in [Call -> Request] /\ LoginNamed'
    BY <1>5, SettledNamed, OneCallTyped DEF GiveUp
  <2>. QED  BY <1>0, <1>5, <2>1 DEF GiveUp, SignedOff, Cleared, Typed, TypeOK
<1>6. ASSUME NEW c \in Call, Limit(c) PROVE Typed'
  <2>1. call' = [call EXCEPT ![c] = Throttled(call[c])]
    BY <1>6 DEF Limit
  <2>2. call' \in [Call -> Request] /\ LoginNamed'
    BY <1>0, <2>1, ThrottledNamed, OneCallTyped
  <2>. QED  BY <1>0, <1>6, <2>2 DEF Limit, Typed, TypeOK
<1>7. ASSUME NEW c \in Call, Resend(c) PROVE Typed'
  <2>1. call' \in [Call -> Request] /\ LoginNamed'
    BY <1>0, <1>7, DispatchNamed, OneCallTyped DEF Resend
  <2>. QED  BY <1>0, <1>7, <2>1 DEF Resend, Typed, TypeOK
<1>8. ASSUME NEW c \in Call, Fail(c) PROVE Typed'
  <2>1. call' \in [Call -> Request] /\ LoginNamed'
    BY <1>8, SettledNamed, OneCallTyped DEF Fail
  <2>. QED  BY <1>0, <1>8, <2>1 DEF Fail, Typed, TypeOK
<1>9. ASSUME Granted PROVE Typed'
  <2>1. Renewed \in Token
    BY <1>0, <1>9, RenewedType DEF Granted
  <2>2. \A c \in Call : call'[c] = AfterGrant(call[c])
    BY <1>9 DEF Granted, AfterGrant
  <2>3. \A c \in Call : Named(call'[c])
    BY <1>0, <2>1, <2>2, AttachNamed DEF AfterGrant
  <2>4. call' \in [Call -> Request] /\ LoginNamed'
    BY <1>9, <2>3 DEF Granted, LoginNamed, Named
  <2>. QED  BY <1>0, <1>9, <2>1, <2>4, FreedType DEF Granted, Typed, TypeOK
<1>10. ASSUME Denied PROVE Typed'
  <2>1. \A c \in Call : call'[c] = AfterDenial(call[c])
    BY <1>10 DEF Denied, AfterDenial
  <2>2. \A c \in Call : Named(call'[c])
    BY <1>0, <2>1, AttachNamed, SettledNamed DEF AfterDenial
  <2>3. call' \in [Call -> Request] /\ LoginNamed'
    BY <1>10, <2>2 DEF Denied, LoginNamed, Named
  <2>4. tokens' = NoToken /\ away' \in BOOLEAN /\ leaving' \in BOOLEAN
    BY <1>0, <1>10, FreedType, ClearedType DEF Denied, SignedOff
  <2>. QED  BY <1>0, <1>10, <2>3, <2>4, FreedType DEF Denied, Typed, TypeOK
<1>11. ASSUME Unload PROVE Typed'
  <2>1. call' \in [Call -> Request] /\ LoginNamed'
    BY <1>11, UnusedNamed DEF Unload, LoginNamed, Named
  <2>. QED  BY <1>0, <1>11, <2>1, FreedType DEF Unload, Typed, TypeOK
<1>12. ASSUME SignOut PROVE Typed'
  BY <1>0, <1>12 DEF SignOut, Cleared, Typed, TypeOK, LoginNamed
<1>13. ASSUME Expire PROVE Typed'
  <2>1. \A c \in Call : Named(call'[c])
    BY <1>0, <1>13, AgedNamed DEF Expire
  <2>2. call' \in [Call -> Request] /\ LoginNamed'
    BY <1>13, <2>1 DEF Expire, LoginNamed, Named
  <2>. QED  BY <1>0, <1>13, <2>2, AgedType DEF Expire, Typed, TypeOK
<1>14. ASSUME NEW u \in Account, OtherTab(u) PROVE Typed'
  BY <1>0, <1>14 DEF OtherTab, Typed, TypeOK, LoginNamed, Token
<1>15. ASSUME NEW u \in Account, Bar(u) PROVE Typed'
  BY <1>0, <1>15 DEF Bar, Typed, TypeOK, LoginNamed
<1>16. CASE UNCHANGED vars
  BY <1>16 DEF vars, Typed, TypeOK, LoginNamed
<1>. QED
  BY <1>1, <1>2, <1>3, <1>4, <1>5, <1>6, <1>7, <1>8, <1>9, <1>10, <1>11,
     <1>12, <1>13, <1>14, <1>15, <1>16 DEF Next, Answer

(* Every token, request and flag has its type; a login names its account.  *)
THEOREM HttpTypes == Spec => []TypeOK
<1>1. Typed => TypeOK
  BY DEF Typed
<1>. QED  BY <1>1, TypedInit, TypedStep, PTL DEF Spec

-----------------------------------------------------------------------------
(* The bound on the requests of a call.  What a call may still send is     *)
(* paid for by the retries it has not used: a 401 and each 429 buy one.    *)

Tries(r) == r.limited + (IF r.retried THEN 1 ELSE 0)
Spent(r) == r.at \in Pending =>
              r.sends <= Tries(r) + (IF r.at = "sent" THEN 1 ELSE 0)
Bounded == \A c \in Call : call[c].sends <= 4 /\ Spent(call[c])

LEMMA SpentBound == ASSUME NEW r, Named(r), r.at \in Pending, Spent(r)
                    PROVE  r.sends <= 4
BY DEF Named, Request, Spent, Tries

LEMMA SettledBound ==
  ASSUME NEW at \in {"resolved", "rejected"}
  PROVE  Settled(at).sends <= 4 /\ Spent(Settled(at))
BY DEF Settled, Unused, Spent, Pending, Waiting

LEMMA UnusedBound == Unused.sends <= 4 /\ Spent(Unused)
BY DEF Unused, Spent, Pending, Waiting

(* A request that is sent again was waiting, and so had a try left.        *)
LEMMA AttachBound ==
  ASSUME NEW r, Named(r), NEW t \in Token \cup {NoToken}, r.sends <= Tries(r)
  PROVE  Attach(r, t).sends <= 4 /\ Spent(Attach(r, t))
<1>1. Spent(Attach(r, t))
  BY AttachNamed DEF Spent, Tries, Named, Request
<1>2. Attach(r, t).at \in Pending
  BY AttachNamed DEF Pending
<1>. QED  BY <1>1, <1>2, AttachNamed, SpentBound

LEMMA WaitingTries ==
  ASSUME NEW r, r.at \in Waiting \cup {"backoff"}, Spent(r)
  PROVE  r.sends <= Tries(r) + 0
BY DEF Spent, Pending, Waiting

LEMMA DispatchBound ==
  ASSUME TypeOK, NEW r, Named(r), r.sends <= Tries(r)
  PROVE  Dispatch(r).sends <= 4 /\ Spent(Dispatch(r))
<1>1. Spent(Dispatch(r))
  BY DispatchNamed DEF Spent, Tries, Named, Request
<1>2. Dispatch(r).at \in Pending
  BY DispatchNamed DEF Pending, Waiting
<1>. QED  BY <1>1, <1>2, DispatchNamed, SpentBound

LEMMA BoundedInit == Init => Bounded
BY UnusedBound DEF Init, Bounded

LEMMA BoundedStep == Typed /\ Bounded /\ [Next]_vars => Bounded'
<1>. SUFFICES ASSUME Typed, Bounded, [Next]_vars PROVE Bounded'
  OBVIOUS
<1>0. TypeOK /\ \A c \in Call : Named(call[c])
  BY CallNamed
<1>. DEFINE Fine(r) == r.sends <= 4 /\ Spent(r)
<1>a. ASSUME NEW c \in Call, NEW r, Fine(r), call' = [call EXCEPT ![c] = r]
      PROVE  Bounded'
  BY <1>0, <1>a DEF Bounded, TypeOK
<1>b. ASSUME NEW c \in Call, call[c].at = "sent", ~call[c].retried,
             NEW at \in {"queued", "leading"}
      PROVE  Fine([Wait(call[c], at) EXCEPT !.retried = TRUE])
  <2>. DEFINE w == [Wait(call[c], at) EXCEPT !.retried = TRUE]
  <2>1. /\ Named(w) /\ w.at = at /\ w.retried = TRUE
        /\ w.sends = call[c].sends /\ w.limited = call[c].limited
    <3>1. at \in Waiting
      BY DEF Waiting
    <3>. QED  BY <1>0, <3>1, WaitNamed
  <2>2. call[c].sends <= call[c].limited + 0 + 1
    BY <1>b DEF Bounded, Spent, Tries, Pending
  <2>. HIDE DEF w
  <2>3. Spent(w)
    BY <1>0, <2>1, <2>2 DEF Spent, Tries, Named, Request
  <2>4. w.at \in Pending
    BY <2>1 DEF Pending, Waiting
  <2>. QED  BY <2>1, <2>3, <2>4, SpentBound DEF w
<1>1. ASSUME NEW c \in Call, NEW m \in Method, NEW u \in Account \cup {NoOne},
             Issue(c, m, u)
      PROVE Bounded'
  <2>. DEFINE f == Fresh(m, u)
  <2>0. Named(f) /\ f.sends = 0 /\ f.limited = 0 /\ f.retried = FALSE
    BY <1>1, FreshNamed DEF Issue
  <2>. HIDE DEF f
  <2>1. f.sends <= Tries(f)
    BY <2>0 DEF Tries
  <2>2. Fine(Dispatch(f))
    BY <1>0, <2>0, <2>1, DispatchBound
  <2>. QED  BY <1>1, <2>2, <1>a DEF Issue, Fresh, f
<1>2. ASSUME NEW c \in Call, Succeed(c) \/ GiveUp(c) \/ Fail(c) PROVE Bounded'
  BY <1>2, SettledBound, <1>a DEF Succeed, GiveUp, Fail
<1>3. ASSUME NEW c \in Call, Queue(c) PROVE Bounded'
  BY <1>3, <1>a, <1>b DEF Queue, MayRefresh, Refused
<1>4. ASSUME NEW c \in Call, Lead(c) PROVE Bounded'
  BY <1>4, <1>a, <1>b DEF Lead, MayRefresh, Refused
<1>5. ASSUME NEW c \in Call, Limit(c) PROVE Bounded'
  <2>1. call[c].at = "sent" /\ Named(call[c]) /\ Fine(call[c])
    BY <1>0, <1>5 DEF Limit, Bounded
  <2>2. CASE Throttled(call[c]) = Settled("rejected")
    BY <1>5, <2>2, SettledBound, <1>a DEF Limit
  <2>3. CASE Throttled(call[c]) # Settled("rejected")
    <3>1. Fine(Throttled(call[c]))
      BY <2>1, <2>3, ThrottledNamed
         DEF Spent, Tries, Pending, Waiting, Named, Request
    <3>. QED  BY <1>5, <3>1, <1>a DEF Limit
  <2>. QED  BY <2>2, <2>3
<1>6. ASSUME NEW c \in Call, Resend(c) PROVE Bounded'
  <2>1. call[c].sends <= Tries(call[c])
    BY <1>0, <1>6, WaitingTries DEF Resend, Bounded, Tries, Named, Request
  <2>2. Fine(Dispatch(call[c]))
    BY <1>0, <2>1, DispatchBound
  <2>. QED  BY <1>6, <2>2, <1>a DEF Resend
<1>7. ASSUME NEW c \in Call, NEW t \in Token \cup {NoToken},
             call[c].at \in Waiting
      PROVE Fine(Attach(call[c], t))
  <2>1. call[c].sends <= Tries(call[c])
    BY <1>0, <1>7, WaitingTries DEF Bounded, Tries, Named, Request
  <2>. QED  BY <1>0, <2>1, AttachBound
<1>8. ASSUME Granted PROVE Bounded'
  <2>1. Renewed \in Token
    BY <1>0, <1>8, RenewedType DEF Granted
  <2>2. \A c \in Call : call'[c] = AfterGrant(call[c])
    BY <1>8 DEF Granted, AfterGrant
  <2>. QED  BY <1>7, <2>1, <2>2 DEF AfterGrant, Bounded
<1>9. ASSUME Denied PROVE Bounded'
  <2>1. \A c \in Call : call'[c] = AfterDenial(call[c])
    BY <1>9 DEF Denied, AfterDenial
  <2>2. \A c \in Call : Fine(call'[c])
    BY <1>7, <2>1, SettledBound DEF AfterDenial, Bounded, Waiting
  <2>. QED  BY <2>2 DEF Bounded
<1>10. ASSUME Unload PROVE Bounded'
  BY <1>10, UnusedBound DEF Unload, Bounded
<1>11. ASSUME Expire PROVE Bounded'
  <2>1. \A c \in Call : Fine(call'[c])
    BY <1>0, <1>11, AgedNamed DEF Expire, Bounded, Spent, Tries
  <2>. QED  BY <2>1 DEF Bounded
<1>12. CASE UNCHANGED call
  BY <1>12 DEF Bounded
<1>13. ASSUME SignOut \/ (\E u \in Account : OtherTab(u) \/ Bar(u))
              \/ UNCHANGED vars
       PROVE UNCHANGED call
  BY <1>13 DEF SignOut, OtherTab, Bar, vars
<1>. QED
  BY <1>1, <1>2, <1>3, <1>4, <1>5, <1>6, <1>8, <1>9, <1>10, <1>11, <1>12,
     <1>13 DEF Next, Answer

(* However throttling, expiry and refreshes mix, and whatever other calls  *)
(* do, a call reaches the server four times at most.                       *)
THEOREM HttpAtMostFourSends == Spec => []AtMostFourSends
<1>1. Bounded => AtMostFourSends
  BY DEF Bounded, AtMostFourSends
<1>. QED  BY <1>1, TypedInit, TypedStep, BoundedInit, BoundedStep, PTL DEF Spec

-----------------------------------------------------------------------------
(* The refresh that calls share, and what a sign-out leaves behind         *)

StaysOut == away => tokens = NoToken /\ ~isRefreshing
Shared == RefreshIsShared /\ StaysOut

LEMMA QueueAppend ==
  ASSUME NEW q \in Seq(Call), NEW c \in Call \ ToSet(q), IsInjective(q)
  PROVE  ToSet(Append(q, c)) = ToSet(q) \cup {c} /\ IsInjective(Append(q, c))
<1>1. /\ DOMAIN Append(q, c) = 1..(Len(q) + 1) /\ Len(q) \in Nat
      /\ \A i \in 1..Len(q) : Append(q, c)[i] = q[i]
      /\ Append(q, c)[Len(q) + 1] = c
  OBVIOUS
<1>2. DOMAIN q = 1..Len(q)
  OBVIOUS
<1>3. \A i \in 1..Len(q) : q[i] # c
  BY <1>2 DEF ToSet
<1>4. ToSet(Append(q, c)) = ToSet(q) \cup {c}
  BY <1>1, <1>2 DEF ToSet
<1>5. IsInjective(Append(q, c))
  <2>1. SUFFICES ASSUME NEW i \in 1..(Len(q) + 1), NEW j \in 1..(Len(q) + 1),
                        Append(q, c)[i] = Append(q, c)[j]
                 PROVE  i = j
    BY <1>1 DEF IsInjective
  <2>2. CASE i \in 1..Len(q) /\ j \in 1..Len(q)
    BY <1>1, <1>2, <2>1, <2>2 DEF IsInjective
  <2>3. CASE i = Len(q) + 1 \/ j = Len(q) + 1
    BY <1>1, <1>3, <2>1, <2>3
  <2>. QED  BY <1>1, <2>2, <2>3
<1>. QED  BY <1>4, <1>5

LEMMA EmptyQueue == ToSet(<<>>) = {} /\ IsInjective(<<>>)
BY DEF ToSet, IsInjective

LEMMA SharedInit == Init => Shared
<1>. SUFFICES ASSUME Init PROVE Shared
  OBVIOUS
<1>1. At("leading") = {} /\ At("held") = {} /\ At("queued") = {}
  BY DEF Init, At, Unused
<1>2. OneLeader /\ NobodyLeft /\ QueueIsQueued
  BY <1>1, EmptyQueue DEF Init, OneLeader, NobodyLeft, QueueIsQueued
<1>. QED  BY <1>2 DEF Init, Shared, RefreshIsShared, StaysOut

(* A step of a call outside the refresh: it may come to wait for one that  *)
(* is under way.                                                           *)
LEMMA OutsideStep ==
  ASSUME Typed, RefreshIsShared, NEW c \in Call, NEW r,
         call[c].at \notin {"leading", "queued"},
         r.at \notin {"leading", "queued"}, r.at = "held" => isRefreshing,
         call' = [call EXCEPT ![c] = r],
         UNCHANGED <<isRefreshing, refreshPromise, requestQueue>>
  PROVE  RefreshIsShared'
<1>1. At("leading")' = At("leading") /\ At("queued")' = At("queued")
  BY DEF At, Typed, TypeOK
<1>2. At("held")' \subseteq At("held") \cup {c}
  BY DEF At, Typed, TypeOK
<1>3. At("held")' # {} => isRefreshing
  BY <1>2 DEF At, Typed, TypeOK, RefreshIsShared, NobodyLeft
<1>. QED  BY <1>1, <1>3
          DEF RefreshIsShared, OneLeader, NobodyLeft, QueueIsQueued

(* A step that ends the refresh, and with it every wait for it             *)
LEMMA FreedStep ==
  ASSUME Freed, \A c \in Call : call'[c].at \notin Waiting
  PROVE  RefreshIsShared'
<1>1. At("leading")' = {} /\ At("held")' = {} /\ At("queued")' = {}
  BY DEF At, Waiting
<1>. QED  BY <1>1, EmptyQueue
          DEF Freed, RefreshIsShared, OneLeader, NobodyLeft, QueueIsQueued

LEMMA SamePhases ==
  ASSUME RefreshIsShared, \A c \in Call : call'[c].at = call[c].at,
         UNCHANGED <<isRefreshing, refreshPromise, requestQueue>>
  PROVE  RefreshIsShared'
<1>1. /\ At("leading")' = At("leading") /\ At("held")' = At("held")
      /\ At("queued")' = At("queued")
  BY DEF At
<1>. QED  BY <1>1 DEF RefreshIsShared, OneLeader, NobodyLeft, QueueIsQueued

LEMMA SharedStep == Typed /\ Shared /\ [Next]_vars => RefreshIsShared'
<1>. SUFFICES ASSUME Typed, RefreshIsShared, [Next]_vars
              PROVE  RefreshIsShared'
  BY DEF Shared
<1>0. TypeOK /\ \A c \in Call : Named(call[c])
  BY CallNamed
<1>1. ASSUME NEW c \in Call, NEW m \in Method, NEW u \in Account \cup {NoOne},
             Issue(c, m, u)
      PROVE RefreshIsShared'
  <2>. DEFINE d == Dispatch(Fresh(m, u))
  <2>1. d.at = "sent" \/ (d.at = "held" /\ isRefreshing)
    BY <1>0, <1>1, FreshNamed, DispatchNamed DEF Issue
  <2>2. call' = [call EXCEPT ![c] = d]
    BY <1>1 DEF Issue, Fresh
  <2>3. call[c].at \notin {"leading", "queued"}
    BY <1>1 DEF Issue, Pending, Waiting
  <2>. HIDE DEF d
  <2>. QED  BY <1>1, <2>1, <2>2, <2>3, OutsideStep DEF Issue
<1>2. ASSUME NEW c \in Call, Succeed(c) \/ GiveUp(c) \/ Fail(c)
      PROVE RefreshIsShared'
  <2>1. PICK r : /\ call' = [call EXCEPT ![c] = r]
                 /\ r.at \in {"resolved", "rejected"}
    BY <1>2, SettledNamed DEF Succeed, GiveUp, Fail
  <2>2. call[c].at = "sent"
        /\ UNCHANGED <<isRefreshing, refreshPromise, requestQueue>>
    BY <1>2 DEF Succeed, GiveUp, Fail, Refused
  <2>. QED  BY <2>1, <2>2, OutsideStep
<1>3. ASSUME NEW c \in Call, Queue(c) PROVE RefreshIsShared'
  <2>. DEFINE w == [Wait(call[c], "queued") EXCEPT !.retried = TRUE]
  <2>1. w.at = "queued" /\ call' = [call EXCEPT ![c] = w]
    BY <1>0, <1>3, WaitNamed DEF Queue, Waiting
  <2>2. call[c].at = "sent" /\ isRefreshing
    BY <1>3 DEF Queue, MayRefresh, Refused
  <2>. HIDE DEF w
  <2>3. /\ At("leading")' = At("leading")
        /\ At("queued")' = At("queued") \cup {c}
    BY <1>0, <2>1, <2>2 DEF At, TypeOK
  <2>4. c \notin ToSet(requestQueue)
    BY <2>2 DEF At, RefreshIsShared, QueueIsQueued
  <2>5. QueueIsQueued'
    BY <1>0, <1>3, <2>3, <2>4, QueueAppend
       DEF Queue, RefreshIsShared, QueueIsQueued, TypeOK
  <2>. QED  BY <1>3, <2>2, <2>3, <2>5
            DEF Queue, RefreshIsShared, OneLeader, NobodyLeft
<1>4. ASSUME NEW c \in Call, Lead(c) PROVE RefreshIsShared'
  <2>. DEFINE w == [Wait(call[c], "leading") EXCEPT !.retried = TRUE]
  <2>1. w.at = "leading" /\ call' = [call EXCEPT ![c] = w]
    BY <1>0, <1>4, WaitNamed DEF Lead, Waiting
  <2>2. call[c].at = "sent" /\ At("leading") = {}
    BY <1>4 DEF Lead, MayRefresh, Refused, RefreshIsShared, OneLeader
  <2>. HIDE DEF w
  <2>3. At("leading")' = {c} /\ At("queued")' = At("queued")
    BY <1>0, <2>1, <2>2 DEF At, TypeOK
  <2>4. refreshPromise' # NoOne
    BY <1>0, <1>4, HttpAssumption
       DEF Lead, MayRefresh, TypeOK, Token, HttpAssumption
  <2>. QED  BY <1>4, <2>3, <2>4
            DEF Lead, RefreshIsShared, OneLeader, NobodyLeft, QueueIsQueued
<1>5. ASSUME NEW c \in Call, Limit(c) PROVE RefreshIsShared'
  <2>1. Throttled(call[c]).at \in {"backoff", "rejected"}
    BY <1>0, ThrottledNamed, SettledNamed
  <2>. QED  BY <1>5, <2>1, OutsideStep DEF Limit
<1>6. ASSUME NEW c \in Call, Resend(c) PROVE RefreshIsShared'
  <2>. DEFINE d == Dispatch(call[c])
  <2>1. d.at = "sent" \/ (d.at = "held" /\ isRefreshing)
    BY <1>0, DispatchNamed
  <2>2. call' = [call EXCEPT ![c] = d] /\ call[c].at = "backoff"
    BY <1>6 DEF Resend
  <2>. HIDE DEF d
  <2>. QED  BY <1>6, <2>1, <2>2, OutsideStep DEF Resend
<1>7. ASSUME Granted PROVE RefreshIsShared'
  <2>1. Renewed \in Token
    BY <1>0, <1>7, RenewedType DEF Granted
  <2>2. \A c \in Call : call'[c] = AfterGrant(call[c])
    BY <1>7 DEF Granted, AfterGrant
  <2>3. \A c \in Call : call'[c].at \notin Waiting
    BY <1>0, <2>1, <2>2, AttachNamed DEF AfterGrant, Waiting
  <2>. QED  BY <1>7, <2>3, FreedStep DEF Granted
<1>8. ASSUME Denied PROVE RefreshIsShared'
  <2>1. \A c \in Call : call'[c] = AfterDenial(call[c])
    BY <1>8 DEF Denied, AfterDenial
  <2>2. \A c \in Call : call'[c].at \notin Waiting
    BY <1>0, <2>1, AttachNamed, SettledNamed DEF AfterDenial, Waiting
  <2>. QED  BY <1>8, <2>2, FreedStep DEF Denied
<1>9. ASSUME Unload PROVE RefreshIsShared'
  <2>1. \A c \in Call : call'[c].at \notin Waiting
    BY <1>9 DEF Unload, Unused, Waiting
  <2>. QED  BY <1>9, <2>1, FreedStep DEF Unload
<1>10. ASSUME Expire PROVE RefreshIsShared'
  BY <1>0, <1>10, AgedNamed, SamePhases DEF Expire
<1>11. ASSUME SignOut \/ (\E u \in Account : OtherTab(u) \/ Bar(u))
              \/ UNCHANGED vars
       PROVE RefreshIsShared'
  BY <1>11, SamePhases DEF SignOut, OtherTab, Bar, vars
<1>. QED
  BY <1>1, <1>2, <1>3, <1>4, <1>5, <1>6, <1>7, <1>8, <1>9, <1>10, <1>11
     DEF Next, Answer

(* Tokens only come back by a login, here or in another tab, or by a       *)
(* refresh, and there is none without a token to lead it.                  *)
LEMMA StaysOutStep == Typed /\ Shared /\ [Next]_vars => StaysOut'
<1>. SUFFICES ASSUME Typed, Shared, [Next]_vars PROVE StaysOut'
  OBVIOUS
<1>. USE DEF StaysOut
<1>0. TypeOK /\ StaysOut /\ (isRefreshing <=> refreshPromise # NoOne)
  BY DEF Typed, Shared, RefreshIsShared, OneLeader
<1>1. ASSUME NEW c \in Call, Succeed(c) PROVE StaysOut'
  BY <1>0, <1>1 DEF Succeed
<1>2. ASSUME NEW c \in Call, GiveUp(c) PROVE StaysOut'
  BY <1>0, <1>2 DEF GiveUp, SignedOff, Cleared, TypeOK
<1>3. ASSUME NEW c \in Call, Queue(c) \/ Lead(c) PROVE StaysOut'
  BY <1>0, <1>3 DEF Queue, Lead, MayRefresh
<1>4. ASSUME Granted PROVE StaysOut'
  BY <1>0, <1>4 DEF Granted
<1>5. ASSUME Denied PROVE StaysOut'
  BY <1>5 DEF Denied, Freed, SignedOff, Cleared
<1>6. ASSUME Unload PROVE StaysOut'
  BY <1>0, <1>6 DEF Unload, Freed
<1>7. ASSUME SignOut PROVE StaysOut'
  BY <1>0, <1>7 DEF SignOut, Cleared, TypeOK
<1>8. ASSUME Expire PROVE StaysOut'
  BY <1>0, <1>8 DEF Expire, Aged
<1>9. ASSUME NEW u \in Account, OtherTab(u) PROVE StaysOut'
  BY <1>9 DEF OtherTab
<1>10. CASE UNCHANGED <<tokens, isRefreshing, away>>
  BY <1>0, <1>10
<1>11. ASSUME \/ \E c \in Call : Limit(c) \/ Fail(c) \/ Resend(c)
              \/ \E c \in Call, m \in Method, u \in Account \cup {NoOne} :
                   Issue(c, m, u)
              \/ \E u \in Account : Bar(u)
              \/ UNCHANGED vars
       PROVE UNCHANGED <<tokens, isRefreshing, away>>
  BY <1>11 DEF Limit, Fail, Resend, Issue, Bar, vars
<1>. QED
  BY <1>1, <1>2, <1>3, <1>4, <1>5, <1>6, <1>7, <1>8, <1>9, <1>10, <1>11
     DEF Next, Answer

(* Whatever sign-outs, failures and replaced documents come in between, a  *)
(* call only waits for a refresh under way, and there is one at a time.    *)
THEOREM HttpRefreshIsShared == Spec => []RefreshIsShared
<1>1. Init => Typed /\ Shared
  BY TypedInit, SharedInit
<1>2. Typed /\ Shared /\ [Next]_vars => (Typed /\ Shared)'
  BY TypedStep, SharedStep, StaysOutStep DEF Shared
<1>3. Shared => RefreshIsShared
  BY DEF Shared
<1>. QED  BY <1>1, <1>2, <1>3, PTL DEF Spec

(* Who signs out while no refresh is under way stays signed out until the  *)
(* next login: no late answer brings tokens back.                          *)
THEOREM HttpSignedOutStays == Spec => []SignedOutStays
<1>1. Init => Typed /\ Shared
  BY TypedInit, SharedInit
<1>2. Typed /\ Shared /\ [Next]_vars => (Typed /\ Shared)'
  BY TypedStep, SharedStep, StaysOutStep DEF Shared
<1>3. Shared => SignedOutStays
  BY DEF Shared, StaysOut, SignedOutStays
<1>. QED  BY <1>1, <1>2, <1>3, PTL DEF Spec

-----------------------------------------------------------------------------
(* The calls as their callers see them: every step is one of CallContract, *)
(* or none that they notice.                                               *)

Seen(at) == IF at \in Pending THEN "pending" ELSE at

LEMMA PromiseSeen == promise = [c \in Call |-> Seen(call[c].at)]
BY DEF promise, Seen

LEMMA PromiseSeenNext == promise' = [c \in Call |-> Seen(call'[c].at)]
BY DEF promise, Seen

LEMMA SeenPhase ==
  ASSUME NEW at \in Phase
  PROVE  Seen(at) \in Promised!Settled \cup {"none", "pending"}
BY DEF Seen, Phase, Promised!Settled

LEMMA StutterStep ==
  ASSUME \A c \in Call : Seen(call'[c].at) = Seen(call[c].at)
  PROVE  UNCHANGED promise
BY PromiseSeen, PromiseSeenNext

LEMMA SettleStep ==
  ASSUME Typed', NEW cs \in SUBSET Call,
         \A c \in cs : call[c].at \in Pending
                       /\ call'[c].at \in {"resolved", "rejected"},
         \A c \in Call \ cs : Seen(call'[c].at) = Seen(call[c].at)
  PROVE  Promised!Settle(cs)
<1>1. \A c \in cs : promise[c] = "pending"
  BY PromiseSeen DEF Seen
<1>2. promise' \in [Call -> Promised!Settled \cup {"none", "pending"}]
  BY SeenPhase, PromiseSeenNext DEF Typed, TypeOK, Request
<1>3. \A c \in cs : promise'[c] \in Promised!Settled
  BY PromiseSeenNext DEF Seen, Pending, Waiting, Promised!Settled
<1>4. \A c \in Call \ cs : promise'[c] = promise[c]
  BY PromiseSeen, PromiseSeenNext
<1>. QED  BY <1>1, <1>2, <1>3, <1>4 DEF Promised!Settle

LEMMA SettleOne ==
  ASSUME Typed, Typed', NEW c \in Call, call[c].at = "sent",
         call'[c].at \in {"resolved", "rejected"},
         \A d \in Call \ {c} : call'[d] = call[d]
  PROVE  Promised!Next
<1>. DEFINE cs == {c}
<1>1. cs \in SUBSET Call
  OBVIOUS
<1>2. \A d \in cs : call[d].at \in Pending
                    /\ call'[d].at \in {"resolved", "rejected"}
  BY DEF Typed, TypeOK, Pending
<1>3. \A d \in Call \ cs : Seen(call'[d].at) = Seen(call[d].at)
  BY DEF Typed, TypeOK
<1>. HIDE DEF cs
<1>4. Promised!Settle(cs)
  BY <1>1, <1>2, <1>3, SettleStep
<1>. QED  BY <1>1, <1>4 DEF Promised!Next

LEMMA ContractInit == Init => Promised!Init
BY PromiseSeen DEF Init, Promised!Init, Seen, Unused, Pending, Waiting

LEMMA ContractStep ==
  Typed /\ Typed' /\ [Next]_vars => [Promised!Next]_promise
<1>. SUFFICES ASSUME Typed, Typed', [Next]_vars PROVE [Promised!Next]_promise
  OBVIOUS
<1>0. TypeOK /\ \A c \in Call : Named(call[c])
  BY CallNamed
<1>a. ASSUME NEW c \in Call, NEW r, r.at \in Pending, call[c].at \in Pending,
             call' = [call EXCEPT ![c] = r]
      PROVE  UNCHANGED promise
  BY <1>0, <1>a, StutterStep DEF TypeOK, Seen
<1>1. ASSUME NEW c \in Call, NEW m \in Method, NEW u \in Account \cup {NoOne},
             Issue(c, m, u)
      PROVE Promised!Next
  <2>. DEFINE d == Dispatch(Fresh(m, u))
  <2>1. d.at \in Pending
    BY <1>0, <1>1, FreshNamed, DispatchNamed DEF Issue, Pending, Waiting
  <2>2. call' = [call EXCEPT ![c] = d] /\ call[c].at \notin Pending
    BY <1>1 DEF Issue, Fresh
  <2>. HIDE DEF d
  <2>3. \A e \in Call : Seen(call'[e].at) =
                          IF e = c THEN "pending" ELSE Seen(call[e].at)
    BY <1>0, <2>1, <2>2 DEF TypeOK, Seen
  <2>4. promise' = [promise EXCEPT ![c] = "pending"]
    BY <2>3, PromiseSeen, PromiseSeenNext
  <2>5. promise[c] # "pending"
    BY <1>0, <2>2, PromiseSeen
       DEF Seen, Named, Request, Phase, Pending, Waiting
  <2>. QED  BY <2>4, <2>5 DEF Promised!Next, Promised!Make
<1>2. ASSUME NEW c \in Call, Succeed(c) \/ GiveUp(c) \/ Fail(c)
      PROVE Promised!Next
  <2>1. call'[c].at \in {"resolved", "rejected"}
    BY <1>0, <1>2, SettledNamed DEF Succeed, GiveUp, Fail, TypeOK
  <2>2. call[c].at = "sent"
    BY <1>2 DEF Succeed, GiveUp, Fail, Refused
  <2>3. \A d \in Call \ {c} : call'[d] = call[d]
    BY <1>0, <1>2 DEF Succeed, GiveUp, Fail, TypeOK
  <2>. QED  BY <2>1, <2>2, <2>3, SettleOne
<1>3. ASSUME NEW c \in Call, Queue(c) \/ Lead(c) PROVE UNCHANGED promise
  <2>1. PICK at \in {"queued", "leading"} :
          call' = [call EXCEPT ![c] = [Wait(@, at) EXCEPT !.retried = TRUE]]
    BY <1>3 DEF Queue, Lead
  <2>2. call[c].at \in Pending
    BY <1>3 DEF Queue, Lead, MayRefresh, Refused, Pending
  <2>3. [Wait(call[c], at) EXCEPT !.retried = TRUE].at \in Pending
    <3>1. at \in Waiting \cup {"backoff"} /\ at \in Pending
      BY DEF Waiting, Pending
    <3>2. [Wait(call[c], at) EXCEPT !.retried = TRUE].at = at
      BY <1>0, <3>1, WaitNamed
    <3>. QED  BY <3>1, <3>2
  <2>4. call' = [call EXCEPT ![c] = [Wait(call[c], at) EXCEPT !.retried = TRUE]]
    BY <2>1
  <2>. QED  BY <1>a, <2>2, <2>3, <2>4
<1>4. ASSUME NEW c \in Call, Limit(c) PROVE Promised!Next \/ UNCHANGED promise
  <2>1. /\ call' = [call EXCEPT ![c] = Throttled(call[c])]
        /\ call[c].at = "sent"
    BY <1>4 DEF Limit
  <2>2. CASE Throttled(call[c]).at = "backoff"
    BY <1>a, <2>1, <2>2 DEF Pending
  <2>3. CASE Throttled(call[c]).at = "rejected"
    <3>1. /\ call'[c].at = "rejected"
          /\ \A d \in Call \ {c} : call'[d] = call[d]
      BY <1>0, <2>1, <2>3 DEF TypeOK
    <3>. QED  BY <2>1, <3>1, SettleOne
  <2>. QED  BY <1>0, <2>2, <2>3, ThrottledNamed, SettledNamed
<1>5. ASSUME NEW c \in Call, Resend(c) PROVE UNCHANGED promise
  <2>1. /\ call' = [call EXCEPT ![c] = Dispatch(call[c])]
        /\ call[c].at \in Pending
    BY <1>5 DEF Resend, Pending
  <2>2. Dispatch(call[c]).at \in Pending
    BY <1>0, DispatchNamed DEF Pending, Waiting
  <2>. QED  BY <1>a, <2>1, <2>2
<1>6. ASSUME Granted PROVE UNCHANGED promise
  <2>1. Renewed \in Token
    BY <1>0, <1>6, RenewedType DEF Granted
  <2>2. \A c \in Call : call'[c] = AfterGrant(call[c])
    BY <1>6 DEF Granted, AfterGrant
  <2>3. \A c \in Call : Seen(call'[c].at) = Seen(call[c].at)
    BY <1>0, <2>1, <2>2, AttachNamed DEF AfterGrant, Seen, Pending
  <2>. QED  BY <2>3, StutterStep
<1>7. ASSUME Denied PROVE Promised!Next
  <2>. DEFINE cs == At("leading") \cup At("queued")
  <2>1. \A c \in Call : call'[c] = AfterDenial(call[c])
    BY <1>7 DEF Denied, AfterDenial
  <2>2. \A c \in cs : call[c].at \in Pending
                      /\ call'[c].at \in {"resolved", "rejected"}
    BY <2>1, SettledNamed DEF At, AfterDenial, Pending, Waiting
  <2>3. \A c \in Call \ cs : Seen(call'[c].at) = Seen(call[c].at)
    BY <1>0, <2>1, AttachNamed DEF At, AfterDenial, Seen, Pending, Waiting
  <2>4. cs \in SUBSET Call
    BY DEF At
  <2>. HIDE DEF cs
  <2>5. Promised!Settle(cs)
    BY <2>2, <2>3, <2>4, SettleStep
  <2>. QED  BY <2>4, <2>5 DEF Promised!Next
<1>8. ASSUME Unload PROVE Promised!Next
  <2>1. promise' = [c \in Call |-> "none"]
    BY <1>8, PromiseSeenNext DEF Unload, Unused, Seen, Pending, Waiting
  <2>. QED  BY <2>1 DEF Promised!Next, Promised!Replace
<1>9. ASSUME Expire PROVE UNCHANGED promise
  BY <1>0, <1>9, AgedNamed, StutterStep DEF Expire
<1>10. ASSUME SignOut \/ (\E u \in Account : OtherTab(u) \/ Bar(u))
              \/ UNCHANGED vars
       PROVE UNCHANGED promise
  BY <1>10, StutterStep DEF SignOut, OtherTab, Bar, vars
<1>. QED
  BY <1>1, <1>2, <1>3, <1>4, <1>5, <1>6, <1>7, <1>8, <1>9, <1>10
     DEF Next, Answer

(* The calls keep the safety part of their contract: a promise is settled  *)
(* once, and never forgotten but with the document that holds it.          *)
THEOREM HttpKeepsPromises == Spec => Promised!Init /\ [][Promised!Next]_promise
BY TypedInit, TypedStep, ContractInit, ContractStep, PTL DEF Spec

-----------------------------------------------------------------------------
(* PlatformLists: the lists that the owner of the platform sees.           *)

-----------------------------------------------------------------------------
(* Sequences of fetches and of handlers                                    *)
LEMMA AppendOne ==
  ASSUME NEW S, NEW s \in Seq(S), NEW x \in S
  PROVE  /\ s \o <<x>> \in Seq(S) /\ Len(s \o <<x>>) = Len(s) + 1
         /\ (s \o <<x>>)[Len(s \o <<x>>)] = x /\ s \o <<x>> # <<>>
OBVIOUS

LEMMA AppendTwo ==
  ASSUME NEW S, NEW s \in Seq(S), NEW x \in S, NEW y \in S
  PROVE  /\ s \o <<x, y>> \in Seq(S) /\ Len(s \o <<x, y>>) = Len(s) + 2
         /\ (s \o <<x, y>>)[Len(s \o <<x, y>>)] = y /\ s \o <<x, y>> # <<>>
OBVIOUS

LEMMA Single ==
  ASSUME NEW S, NEW x \in S
  PROVE  <<x>> \in Seq(S) /\ Len(<<x>>) = 1 /\ <<x>>[Len(<<x>>)] = x
OBVIOUS

LEMMA None == ASSUME NEW S PROVE <<>> \in Seq(S) /\ Len(<<>>) = 0
OBVIOUS

LEMMA ListBounds ==
  MaxFlights \in Nat /\ MaxJobs \in Nat /\ MaxChanges \in Nat
BY ListAssumption DEF ListAssumption

LEMMA Joined ==
  ASSUME NEW S, NEW a \in Seq(S), NEW b \in Seq(S)
  PROVE  a \o b \in Seq(S) /\ Len(a \o b) = Len(a) + Len(b)
OBVIOUS

LEMMA Removed ==
  ASSUME NEW S, NEW s \in Seq(S), NEW i \in DOMAIN s
  PROVE  RemoveAt(s, i) \in Seq(S) /\ Len(RemoveAt(s, i)) = Len(s) - 1
<1>1. i \in Nat /\ 1 <= i /\ i <= Len(s) /\ Len(s) \in Nat
  OBVIOUS
<1>2. /\ SubSeq(s, 1, i - 1) \in Seq(S) /\ Len(SubSeq(s, 1, i - 1)) = i - 1
      /\ SubSeq(s, i + 1, Len(s)) \in Seq(S)
      /\ Len(SubSeq(s, i + 1, Len(s))) = Len(s) - i
  BY <1>1
<1>. DEFINE a == SubSeq(s, 1, i - 1)
            b == SubSeq(s, i + 1, Len(s))
<1>3. a \in Seq(S) /\ b \in Seq(S) /\ Len(a) = i - 1 /\ Len(b) = Len(s) - i
  BY <1>2
<1>4. RemoveAt(s, i) = a \o b
  BY DEF RemoveAt
<1>. HIDE DEF a, b
<1>5. a \o b \in Seq(S) /\ Len(a \o b) = Len(a) + Len(b)
  BY <1>3, Joined
<1>. QED  BY <1>1, <1>3, <1>4, <1>5

LEMMA NoneLeft == ASSUME NEW S, NEW s \in Seq(S)
               PROVE s = <<>> <=> Len(s) = 0
OBVIOUS

-----------------------------------------------------------------------------
(* The pages                                                               *)
ListQuery == ListOf(Filter, PageNumbers)
FirstAsked == [filter |-> NoFilter, number |-> 1]

LEMMA FirstIsQuery ==
  FirstAsked \in ListQuery
BY ListAssumption DEF ListAssumption, FirstAsked, ListQuery, ListOf

LEMMA PagesKnown ==
  ASSUME NEW p \in Pages
  PROVE  /\ FirstAsked \in p.list /\ p.list \subseteq ListQuery
         /\ p.handlers \subseteq Handlers
         /\ \E F, N : p.list = ListOf(F, N) /\ 1 \in N
<1>1. /\ ListOf(Filter, {1}) \subseteq ListQuery
      /\ ListOf({NoFilter}, {1}) \subseteq ListOf(Filter, {1})
      /\ ListOf(Filter, PageNumbers) = ListQuery
      /\ FirstAsked \in ListOf({NoFilter}, {1})
  BY ListAssumption DEF ListAssumption, FirstAsked, ListQuery, ListOf
<1>2. p.list \in {ListOf(Filter, {1}), ListOf({NoFilter}, {1}),
                  ListOf(Filter, PageNumbers)}
  <2>1. /\ SuperAdminCompaniesPage.list = useSuperAdminCompanies
        /\ SuperAdminUsersPage.list = useSuperAdminUsers
        /\ RolesTab.list = useSuperAdminRoles
        /\ PermissionsTab.list = useSuperAdminPermissions
        /\ SuperAdminSubscriptionsPage.list = useSuperAdminSubscriptionCodes
        /\ SuperAdminBackupsPage.list = useSuperAdminBackups
        /\ SuperAdminAuditLogsPage.list = useSuperAdminAuditLogs
        /\ SuperAdminDashboardPage.list = useSuperAdminStats
    BY DEF Page, SuperAdminCompaniesPage, SuperAdminUsersPage,
           RolesTab, PermissionsTab, SuperAdminSubscriptionsPage,
           SuperAdminBackupsPage, SuperAdminAuditLogsPage,
           SuperAdminDashboardPage
  <2>2. \/ p.list = useSuperAdminCompanies \/ p.list = useSuperAdminUsers
        \/ p.list = useSuperAdminRoles \/ p.list = useSuperAdminPermissions
        \/ p.list = useSuperAdminSubscriptionCodes
        \/ p.list = useSuperAdminBackups \/ p.list = useSuperAdminAuditLogs
        \/ p.list = useSuperAdminStats
    BY <2>1 DEF Pages
  <2>. QED  BY <2>2
            DEF useSuperAdminCompanies, useSuperAdminUsers,
                useSuperAdminRoles, useSuperAdminPermissions,
                useSuperAdminSubscriptionCodes, useSuperAdminBackups,
                useSuperAdminAuditLogs, useSuperAdminStats
<1>3. p.handlers \subseteq Handlers
  BY DEF Handlers
<1>4. \E F, N : p.list = ListOf(F, N) /\ 1 \in N
  BY <1>2, ListAssumption DEF ListAssumption
<1>. QED  BY <1>1, <1>2, <1>3, <1>4, FirstIsQuery

(* The first page of any list is one of its queries.                       *)
LEMMA FirstList ==
  ASSUME NEW p \in Pages, NEW q \in p.list, NEW f,
         [q EXCEPT !.filter = f] \in p.list
  PROVE  [[q EXCEPT !.filter = f] EXCEPT !.number = 1] \in p.list
<1>1. PICK F, N : p.list = ListOf(F, N) /\ 1 \in N
  BY PagesKnown
<1>2. q \in [filter : F, number : N] /\ [q EXCEPT !.filter = f].filter \in F
  BY <1>1 DEF ListOf
<1>. QED  BY <1>1, <1>2 DEF ListOf

LEMMA ListFetchTyped ==
  ASSUME NEW q \in ListQuery, NEW l \in BOOLEAN
  PROVE  Fetch(q, l) \in Flight
BY ListAssumption DEF ListAssumption, Fetch, Flight, ListQuery

LEMMA LateType ==
  ASSUME NEW x \in Flight
  PROVE  [x EXCEPT !.late = TRUE] \in Flight /\ [x EXCEPT !.late = TRUE].late
BY DEF Flight

LEMMA ReadType ==
  ASSUME NEW x \in Flight, NEW n \in 0..MaxChanges
  PROVE  /\ [x EXCEPT !.read = TRUE, !.saw = n] \in Flight
         /\ [x EXCEPT !.read = TRUE, !.saw = n].saw = n
         /\ [x EXCEPT !.read = TRUE, !.saw = n].asked = x.asked
         /\ [x EXCEPT !.read = TRUE, !.saw = n].late = x.late
BY DEF Flight

LEMMA RanType ==
  ASSUME NEW x \in Job
  PROVE  [x EXCEPT !.ran = TRUE] \in Job
BY DEF Job

LEMMA DialogType ==
  /\ NoDialog \in Dialogs \cup {NoDialog}
  /\ NoDialog # GenerateCodeModal
BY DEF NoDialog, GenerateCodeModal

(* An answer that landed leaves the other fetches in their order, those    *)
(* sent before it marked as late.                                          *)
LEMMA LandedType ==
  ASSUME flights \in Seq(Flight), NEW i \in DOMAIN flights, Landed(i)
  PROVE  /\ flights' \in Seq(Flight) /\ Len(flights') = Len(flights) - 1
         /\ i < Len(flights) => flights'[Len(flights')] = flights[Len(flights)]
         /\ i = Len(flights) /\ flights' # <<>> => flights'[Len(flights')].late
<1>. DEFINE f(j) == IF j < i THEN [flights[j] EXCEPT !.late = TRUE]
                             ELSE flights[j + 1]
            n == Len(flights) - 1
<1>1. /\ n \in Nat /\ i \in 1..(n + 1) /\ Len(flights) = n + 1
      /\ \A j \in 1..(n + 1) : flights[j] \in Flight
  OBVIOUS
<1>2. \A j \in 1..n : f(j) \in Flight
  BY <1>1, LateType
<1>3. flights' = [j \in 1..n |-> f(j)]
  BY DEF Landed
<1>. HIDE DEF f, n
<1>4. flights' \in Seq(Flight) /\ Len(flights') = n
  <2>1. flights' \in [1..n -> Flight]
    BY <1>2, <1>3
  <2>. QED  BY <1>1, <2>1
<1>5. ASSUME i < n + 1 PROVE flights'[n] = flights[n + 1]
  BY <1>1, <1>3, <1>5 DEF f
<1>6. ASSUME i = n + 1, n # 0 PROVE flights'[n].late
  <2>1. n \in 1..n /\ n < i
    BY <1>1, <1>6
  <2>2. flights[n] \in Flight
    BY <1>1, <2>1
  <2>3. flights'[n] = [flights[n] EXCEPT !.late = TRUE]
    BY <1>3, <2>1 DEF f
  <2>. QED  BY <2>2, <2>3, LateType
<1>7. flights' # <<>> => n # 0
  BY <1>4
<1>. QED  BY <1>1, <1>4, <1>5, <1>6, <1>7

-----------------------------------------------------------------------------
(* Type correctness                                                        *)
LEMMA OpenType ==
  ASSUME NEW p \in Pages,
         page' = p, asked' = FirstAsked, shown' = Nothing,
         loading' = TRUE, error' = FALSE, behind' = TRUE, dialog' = NoDialog,
         flights' = <<Fetch(FirstAsked, FALSE)>>, jobs' = <<>>, changes' = 0, told' = 0
  PROVE  ListsTypeOK'
<1>1. Fetch(FirstAsked, FALSE) \in Flight
  BY FirstIsQuery, ListFetchTyped
<1>2. flights' \in Seq(Flight) /\ Len(flights') = 1 /\ jobs' \in Seq(Job)
      /\ Len(jobs') = 0
  BY <1>1, Single, None
<1>3. shown' \in [asked : ListOf(Filter, PageNumbers), saw : 0..MaxChanges]
  BY FirstIsQuery, ListAssumption DEF ListAssumption, Nothing, FirstAsked, ListQuery
<1>4. asked' \in page'.list /\ page' \in Pages
  BY PagesKnown
<1>5. /\ Len(flights') <= MaxFlights + 1 /\ Len(jobs') <= MaxJobs
      /\ changes' \in 0..MaxChanges /\ told' \in 0..changes'
  BY <1>2, ListAssumption DEF ListAssumption
<1>. QED  BY <1>2, <1>3, <1>4, <1>5, DialogType DEF ListsTypeOK

LEMMA ListTypedInit ==
  ListsInit => ListsTypeOK
<1>. SUFFICES ASSUME ListsInit PROVE ListsTypeOK
  OBVIOUS
<1>1. Fetch(FirstAsked, FALSE) \in Flight
  BY FirstIsQuery, ListFetchTyped
<1>2. flights \in Seq(Flight) /\ Len(flights) = 1 /\ jobs \in Seq(Job)
      /\ Len(jobs) = 0
  BY <1>1, Single, None DEF ListsInit, FirstAsked
<1>3. shown \in [asked : ListOf(Filter, PageNumbers), saw : 0..MaxChanges]
  BY FirstIsQuery, ListAssumption DEF ListsInit, ListAssumption, Nothing, FirstAsked,
                      ListQuery
<1>4. asked \in page.list /\ page \in Pages
  BY PagesKnown DEF ListsInit, FirstAsked
<1>5. /\ Len(flights) <= MaxFlights + 1 /\ Len(jobs) <= MaxJobs
      /\ changes \in 0..MaxChanges /\ told \in 0..changes
  BY <1>2, ListAssumption DEF ListsInit, ListAssumption
<1>. QED  BY <1>2, <1>3, <1>4, <1>5, DialogType DEF ListsTypeOK, ListsInit

(* One more fetch                                                          *)
LEMMA AskType ==
  ASSUME ListsTypeOK, NEW q \in ListQuery, NEW l \in BOOLEAN,
         Free, Ask(<<Fetch(q, l)>>)
  PROVE  /\ flights' \in Seq(Flight) /\ Len(flights') <= MaxFlights + 1
         /\ loading' \in BOOLEAN /\ error' \in BOOLEAN
<1>1. Fetch(q, l) \in Flight
  BY ListFetchTyped
<1>2. flights' \in Seq(Flight) /\ Len(flights') = Len(flights) + 1
  BY <1>1, AppendOne DEF ListsTypeOK, Ask
<1>3. Len(flights) \in Nat /\ Len(flights) < MaxFlights
  BY DEF Free, ListsTypeOK
<1>4. Len(flights') <= MaxFlights + 1
  BY <1>2, <1>3, ListBounds
<1>. QED  BY <1>2, <1>4 DEF Ask

LEMMA ListTypedStep ==
  ListsTypeOK /\ [ListsNext]_listsVars => ListsTypeOK'
<1>. SUFFICES ASSUME ListsTypeOK, [ListsNext]_listsVars PROVE ListsTypeOK'
  OBVIOUS
<1>. USE DEF ListsTypeOK
<1>0. /\ asked \in ListQuery /\ page.list \subseteq ListQuery
      /\ page.handlers \subseteq Handlers
  BY PagesKnown
<1>1. ASSUME NEW p \in Pages, Open(p) PROVE ListsTypeOK'
  BY <1>1, OpenType DEF Open, Mount, FirstAsked
<1>2. ASSUME NEW f \in Filter, SetFilter(f) PROVE ListsTypeOK'
  <2>. DEFINE same == [asked EXCEPT !.filter = f]
              first == [same EXCEPT !.number = 1]
  <2>0. same \in page.list /\ Len(flights) \in Nat /\ flights \in Seq(Flight)
    BY <1>2 DEF SetFilter
  <2>1. same \in ListQuery /\ first \in ListQuery /\ first \in page.list
    BY <1>0, <2>0, FirstList
  <2>2. CASE same = first
    BY <1>2, <2>1, <2>2, AskType DEF SetFilter
  <2>3. CASE same # first
    <3>. DEFINE x == Fetch(same, TRUE)
                y == Fetch(first, FALSE)
    <3>1. x \in Flight /\ y \in Flight
      BY <2>1, ListFetchTyped
    <3>2. flights' = flights \o <<x, y>>
          /\ loading' = TRUE /\ error' = FALSE /\ Free
      BY <1>2, <2>3 DEF SetFilter, Ask
    <3>. HIDE DEF same, first, x, y
    <3>3. flights' \in Seq(Flight) /\ Len(flights') = Len(flights) + 2
      BY <2>0, <3>1, <3>2, AppendTwo
    <3>4. Len(flights') <= MaxFlights + 1
      BY <2>0, <3>2, <3>3, ListBounds DEF Free
    <3>. USE DEF same, first, x, y
    <3>. QED  BY <1>2, <2>1, <3>2, <3>3, <3>4 DEF SetFilter
  <2>. QED  BY <2>2, <2>3
<1>3. ASSUME NEW n \in PageNumbers, setPage(n) PROVE ListsTypeOK'
  BY <1>0, <1>3, AskType DEF setPage
<1>4. CASE Retry
  BY <1>0, <1>4, AskType DEF Retry
<1>5. ASSUME NEW d \in Dialogs, OpenDialog(d) PROVE ListsTypeOK'
  BY <1>5 DEF OpenDialog, list
<1>6. CASE CloseDialog
  <2>1. CASE dialog = GenerateCodeModal
    BY <1>0, <1>6, <2>1, AskType DEF CloseDialog
  <2>2. CASE dialog # GenerateCodeModal
    BY <1>6, <2>2 DEF CloseDialog
  <2>. QED  BY <2>1, <2>2
<1>7. ASSUME NEW h \in Handlers, Start(h) PROVE ListsTypeOK'
  <2>. DEFINE j == [handler |-> h, asked |-> asked, ran |-> FALSE]
  <2>1. j \in Job
    BY <1>0 DEF Job, ListQuery
  <2>2. jobs' = Append(jobs, j) /\ Len(jobs) < MaxJobs
        /\ UNCHANGED <<page, asked, list, loading, dialog, flights, changes, told>>
    BY <1>7 DEF Start
  <2>. HIDE DEF j
  <2>3. jobs' \in Seq(Job) /\ Len(jobs') = Len(jobs) + 1
    BY <2>1, <2>2
  <2>4. Len(jobs') <= MaxJobs
    BY <2>2, <2>3, ListAssumption DEF ListAssumption
  <2>. QED  BY <2>2, <2>3, <2>4 DEF list
<1>8. ASSUME NEW i \in DOMAIN jobs, Run(i) PROVE ListsTypeOK'
  <2>1. jobs[i] \in Job /\ [jobs[i] EXCEPT !.ran = TRUE] \in Job
    BY RanType
  <2>2. jobs' \in Seq(Job) /\ Len(jobs') = Len(jobs)
    BY <1>8, <2>1 DEF Run
  <2>3. changes' \in 0..MaxChanges /\ told \in 0..changes'
    BY <1>8, ListAssumption DEF ListAssumption, Run
  <2>. QED  BY <1>8, <2>2, <2>3 DEF Run, list
<1>9. ASSUME NEW i \in DOMAIN flights, Read(i) PROVE ListsTypeOK'
  <2>0. flights[i] \in Flight /\ changes \in 0..MaxChanges
    OBVIOUS
  <2>1. [flights[i] EXCEPT !.read = TRUE, !.saw = changes] \in Flight
    BY <2>0, ReadType
  <2>2. flights' = [flights EXCEPT ![i] =
                      [flights[i] EXCEPT !.read = TRUE, !.saw = changes]]
    BY <1>9 DEF Read
  <2>3. flights' \in Seq(Flight) /\ Len(flights') = Len(flights)
    BY <2>1, <2>2
  <2>. QED  BY <1>9, <2>3 DEF Read, list
<1>10. ASSUME NEW i \in DOMAIN flights, FetchOk(i) PROVE ListsTypeOK'
  <2>1. flights' \in Seq(Flight) /\ Len(flights') = Len(flights) - 1
        /\ loading' = FALSE
    BY <1>10, LandedType DEF FetchOk, Landed
  <2>2. Len(flights') <= MaxFlights + 1
    BY <2>1, ListAssumption DEF ListAssumption
  <2>3. flights[i] \in Flight
    OBVIOUS
  <2>4. /\ shown' \in [asked : ListOf(Filter, PageNumbers), saw : 0..MaxChanges]
        /\ behind' \in BOOLEAN
    BY <1>10, <2>3 DEF FetchOk, Flight
  <2>. QED  BY <1>10, <2>1, <2>2, <2>4 DEF FetchOk
<1>11. ASSUME NEW i \in DOMAIN flights, FetchFailed(i) PROVE ListsTypeOK'
  <2>1. flights' \in Seq(Flight) /\ Len(flights') = Len(flights) - 1
        /\ loading' = FALSE
    BY <1>11, LandedType DEF FetchFailed, Landed
  <2>2. Len(flights') <= MaxFlights + 1
    BY <2>1, ListAssumption DEF ListAssumption
  <2>. QED  BY <1>11, <2>1, <2>2 DEF FetchFailed
<1>12. ASSUME NEW i \in DOMAIN jobs, Done(i) PROVE ListsTypeOK'
  <2>1. jobs' \in Seq(Job) /\ Len(jobs') <= MaxJobs
    BY <1>12, Removed, ListAssumption DEF ListAssumption, Done
  <2>2. jobs[i] \in Job
    OBVIOUS
  <2>3. /\ flights' \in Seq(Flight) /\ Len(flights') <= MaxFlights + 1
        /\ loading' \in BOOLEAN /\ error' \in BOOLEAN
    <3>1. CASE jobs[i].handler.refetch
      <4>1. jobs[i].asked \in ListQuery /\ (jobs[i].asked # asked) \in BOOLEAN
        BY <2>2 DEF Job, ListQuery
      <4>. QED  BY <1>12, <3>1, <4>1, AskType DEF Done
    <3>2. CASE ~jobs[i].handler.refetch
      BY <1>12, <3>2 DEF Done
    <3>. QED  BY <3>1, <3>2
  <2>4. dialog' \in Dialogs \cup {NoDialog} /\ told' \in 0..changes
    BY <1>12 DEF Done
  <2>. QED  BY <1>12, <2>1, <2>3, <2>4 DEF Done
<1>13. ASSUME NEW i \in DOMAIN jobs, Failed(i) PROVE ListsTypeOK'
  <2>1. jobs' \in Seq(Job) /\ Len(jobs') <= MaxJobs
    BY <1>13, Removed, ListAssumption DEF ListAssumption, Failed
  <2>. QED  BY <1>13, <2>1 DEF Failed, list
<1>14. CASE UNCHANGED listsVars
  BY <1>14 DEF listsVars
<1>. QED  BY <1>1, <1>2, <1>3, <1>4, <1>5, <1>6, <1>7, <1>8, <1>9, <1>10, <1>11,
             <1>12, <1>13, <1>14 DEF ListsNext, ListsAnswer, Finish

(* Every list, fetch and handler is of its page, and no page has more of   *)
(* them under way than the bounds say.                                     *)
THEOREM PlatformTypes == ListsSpec => []ListsTypeOK
BY ListTypedInit, ListTypedStep, PTL DEF ListsSpec

-----------------------------------------------------------------------------
(* The list shown.  Of the fetches under way only the newest matters: when *)
(* it is not late its filters are those of the page, and what it has read  *)
(* holds every change told; while the dialog with the code is open it need *)
(* not yet, as closing it asks once more.  What is kept once nothing is    *)
(* under way is the answer to such a fetch, or known to be behind.         *)

Caught(saw) == dialog = GenerateCodeModal \/ saw >= told
Newest(f) == ~f.late => f.asked = asked /\ (f.read => Caught(f.saw))
NewestCurrent == flights # <<>> => Newest(flights[Len(flights)])
KeptCurrent ==
  flights = <<>> /\ ~error /\ ~behind => shown.asked = asked /\ Caught(shown.saw)
ListRight == NewestCurrent /\ KeptCurrent
ListIInv == ListsTypeOK /\ ListRight

LEMMA FetchIs ==
  ASSUME NEW q, NEW l
  PROVE  /\ Fetch(q, l).asked = q /\ Fetch(q, l).late = l
         /\ Fetch(q, l).read = FALSE
BY DEF Fetch

(* A new fetch is the newest, and has read nothing.                        *)
LEMMA AskRight ==
  ASSUME ListsTypeOK, NEW q \in ListQuery, NEW l \in BOOLEAN,
         Ask(<<Fetch(q, l)>>),
         l \/ q = asked'
  PROVE  ListRight'
<1>. DEFINE x == Fetch(q, l)
<1>1. flights \in Seq(Flight) /\ x \in Flight
  BY ListFetchTyped DEF ListsTypeOK
<1>2. flights' = flights \o <<x>>
  BY DEF Ask
<1>. HIDE DEF x
<1>3. flights' # <<>> /\ flights'[Len(flights')] = x
  BY <1>1, <1>2, AppendOne
<1>4. Newest(x)'
  BY FetchIs DEF Newest, x
<1>. QED  BY <1>3, <1>4 DEF ListRight, NewestCurrent, KeptCurrent

(* A step that leaves the fetches, and lets nobody know more, is harmless. *)
LEMMA QuietListRight ==
  ASSUME ListsTypeOK, ListRight, UNCHANGED <<asked, list, flights>>,
         told' = told \/ dialog' = GenerateCodeModal,
         dialog = GenerateCodeModal => dialog' = GenerateCodeModal
  PROVE  ListRight'
BY DEF ListRight, NewestCurrent, Newest, KeptCurrent, Caught, list,
       ListsTypeOK

LEMMA ListRightInit == ListsInit => ListRight
<1>. SUFFICES ASSUME ListsInit PROVE ListRight
  OBVIOUS
<1>. DEFINE x == Fetch(asked, FALSE)
<1>1. flights = <<x>> /\ x.asked = asked /\ ~x.read
  BY FetchIs DEF ListsInit
<1>. HIDE DEF x
<1>. QED  BY <1>1 DEF ListRight, NewestCurrent, Newest, KeptCurrent

LEMMA ListRightStep ==
  ListsTypeOK /\ ListRight /\ [ListsNext]_listsVars => ListRight'
<1>. SUFFICES ASSUME ListsTypeOK, ListRight, [ListsNext]_listsVars PROVE ListRight'
  OBVIOUS
<1>0. /\ asked \in ListQuery /\ page.list \subseteq ListQuery
      /\ flights \in Seq(Flight) /\ Len(flights) \in Nat
  BY PagesKnown DEF ListsTypeOK
<1>1. ASSUME NEW p \in Pages, Open(p) PROVE ListRight'
  <2>. DEFINE x == Fetch(FirstAsked, FALSE)
  <2>1. flights' = <<x>> /\ asked' = FirstAsked
    BY <1>1 DEF Open, Mount, FirstAsked
  <2>2. x.asked = FirstAsked /\ ~x.read
    BY FetchIs
  <2>. HIDE DEF x
  <2>. QED  BY <2>1, <2>2 DEF ListRight, NewestCurrent, Newest, KeptCurrent
<1>2. ASSUME NEW f \in Filter, SetFilter(f) PROVE ListRight'
  <2>. DEFINE same == [asked EXCEPT !.filter = f]
              first == [same EXCEPT !.number = 1]
              x == Fetch(same, TRUE)
              y == Fetch(first, FALSE)
  <2>1. same \in page.list /\ asked' = first
    BY <1>2 DEF SetFilter
  <2>2. same \in ListQuery /\ first \in ListQuery
    BY <1>0, <2>1, FirstList DEF ListsTypeOK
  <2>3. CASE same = first
    BY <1>2, <2>1, <2>2, <2>3, AskRight DEF SetFilter
  <2>4. CASE same # first
    <3>1. x \in Flight /\ y \in Flight
      BY <2>2, ListFetchTyped
    <3>2. flights' = flights \o <<x, y>>
      BY <1>2, <2>4 DEF SetFilter, Ask
    <3>3. y.asked = asked' /\ ~y.read
      BY <2>1, FetchIs
    <3>. HIDE DEF same, first, x, y
    <3>4. flights' # <<>> /\ flights'[Len(flights')] = y
      BY <1>0, <3>1, <3>2, AppendTwo
    <3>. QED  BY <3>3, <3>4 DEF ListRight, NewestCurrent, Newest, KeptCurrent
  <2>. QED  BY <2>3, <2>4
<1>3. ASSUME NEW n \in PageNumbers, setPage(n) PROVE ListRight'
  BY <1>0, <1>3, AskRight DEF setPage
<1>4. CASE Retry
  BY <1>0, <1>4, AskRight DEF Retry
<1>5. ASSUME NEW d \in Dialogs, OpenDialog(d) PROVE ListRight'
  BY <1>5, QuietListRight, DialogType DEF OpenDialog
<1>6. CASE CloseDialog
  <2>1. CASE dialog = GenerateCodeModal
    BY <1>0, <1>6, <2>1, AskRight DEF CloseDialog
  <2>2. CASE dialog # GenerateCodeModal
    BY <1>6, <2>2, QuietListRight DEF CloseDialog, list
  <2>. QED  BY <2>1, <2>2
<1>7. ASSUME NEW h \in Handlers, Start(h) PROVE ListRight'
  BY <1>7, QuietListRight DEF Start
<1>8. ASSUME NEW i \in DOMAIN jobs, Run(i) PROVE ListRight'
  BY <1>8, QuietListRight DEF Run
<1>9. ASSUME NEW i \in DOMAIN flights, Read(i) PROVE ListRight'
  <2>. DEFINE x == [flights[i] EXCEPT !.read = TRUE, !.saw = changes]
              n == Len(flights)
  <2>0. flights[i] \in Flight /\ changes \in 0..MaxChanges /\ told <= changes
    BY <1>0 DEF ListsTypeOK
  <2>1. /\ x \in Flight /\ x.saw = changes /\ x.asked = flights[i].asked
        /\ x.late = flights[i].late
    BY <2>0, ReadType
  <2>2. flights' = [flights EXCEPT ![i] = x]
        /\ UNCHANGED <<asked, list, dialog, told>>
    BY <1>9 DEF Read
  <2>. HIDE DEF x
  <2>3. /\ Len(flights') = n /\ n \in DOMAIN flights
        /\ flights' # <<>> /\ flights # <<>>
        /\ flights'[n] = IF i = n THEN x ELSE flights[n]
    BY <1>0, <2>1, <2>2
  <2>. HIDE DEF n
  <2>4. Newest(flights[n])
    BY <2>3 DEF ListRight, NewestCurrent, n
  <2>5. ASSUME ~flights'[n].late
        PROVE  /\ flights'[n].asked = asked
               /\ flights'[n].read => dialog = GenerateCodeModal \/ flights'[n].saw >= told
    <3>1. CASE i = n
      BY <2>0, <2>1, <2>3, <2>4, <2>5, <3>1 DEF Newest, ListsTypeOK
    <3>2. CASE i # n
      BY <2>3, <2>4, <2>5, <3>2 DEF Newest, Caught
    <3>. QED  BY <3>1, <3>2
  <2>6. NewestCurrent'
    BY <2>2, <2>3, <2>5 DEF NewestCurrent, Newest, Caught
  <2>7. KeptCurrent'
    BY <2>3 DEF KeptCurrent
  <2>. QED  BY <2>6, <2>7 DEF ListRight
<1>10. ASSUME NEW i \in DOMAIN flights, FetchOk(i) PROVE ListRight'
  <2>1. /\ flights' \in Seq(Flight) /\ Len(flights') = Len(flights) - 1
        /\ i < Len(flights) => flights'[Len(flights')] = flights[Len(flights)]
        /\ i = Len(flights) /\ flights' # <<>> => flights'[Len(flights')].late
    BY <1>0, <1>10, LandedType DEF FetchOk
  <2>2. UNCHANGED <<asked, dialog, told>> /\ flights # <<>> /\ i \in 1..Len(flights)
    BY <1>0, <1>10 DEF FetchOk
  <2>3. NewestCurrent'
    BY <1>0, <2>1, <2>2 DEF ListRight, NewestCurrent, Newest, Caught
  <2>4. KeptCurrent'
    <3>. SUFFICES ASSUME flights' = <<>>, ~behind'
                  PROVE  /\ shown'.asked = asked
                         /\ dialog = GenerateCodeModal \/ shown'.saw >= told
      BY <2>2 DEF KeptCurrent, Caught
    <3>1. Len(flights) = 1 /\ i = Len(flights)
      BY <1>0, <2>1, <2>2, NoneLeft
    <3>2. /\ shown'.asked = flights[i].asked /\ shown'.saw = flights[i].saw
          /\ flights[i].read /\ ~flights[i].late
      BY <1>10 DEF FetchOk
    <3>3. Newest(flights[i])
      BY <2>2, <3>1 DEF ListRight, NewestCurrent
    <3>. QED  BY <3>2, <3>3 DEF Newest, Caught
  <2>. QED  BY <2>3, <2>4 DEF ListRight
<1>11. ASSUME NEW i \in DOMAIN flights, FetchFailed(i) PROVE ListRight'
  <2>1. /\ flights' \in Seq(Flight) /\ Len(flights') = Len(flights) - 1
        /\ i < Len(flights) => flights'[Len(flights')] = flights[Len(flights)]
        /\ i = Len(flights) /\ flights' # <<>> => flights'[Len(flights')].late
    BY <1>0, <1>11, LandedType DEF FetchFailed
  <2>2. /\ UNCHANGED <<asked, dialog, told>> /\ flights # <<>> /\ error'
        /\ i \in 1..Len(flights)
    BY <1>0, <1>11 DEF FetchFailed
  <2>. QED  BY <1>0, <2>1, <2>2 DEF ListRight, NewestCurrent, Newest, KeptCurrent,
                                    Caught
<1>12. ASSUME NEW i \in DOMAIN jobs, Done(i) PROVE ListRight'
  <2>1. jobs[i] \in Job
    BY DEF ListsTypeOK
  <2>2. CASE jobs[i].handler.refetch
    <3>1. jobs[i].asked \in ListQuery /\ (jobs[i].asked # asked) \in BOOLEAN
      BY <2>1 DEF Job, ListQuery
    <3>. QED  BY <1>12, <2>2, <3>1, AskRight DEF Done
  <2>3. CASE ~jobs[i].handler.refetch
    BY <1>12, <2>3, QuietListRight DEF Done, list
  <2>. QED  BY <2>2, <2>3
<1>13. ASSUME NEW i \in DOMAIN jobs, Failed(i) PROVE ListRight'
  BY <1>13, QuietListRight DEF Failed
<1>14. CASE UNCHANGED listsVars
  BY <1>14, QuietListRight DEF listsVars, list
<1>. QED  BY <1>1, <1>2, <1>3, <1>4, <1>5, <1>6, <1>7, <1>8, <1>9, <1>10, <1>11,
             <1>12, <1>13, <1>14 DEF ListsNext, ListsAnswer, Finish

(* Once nothing is under way and no error is shown, the list of a page is  *)
(* that of its filters and holds every change the page reported as done,   *)
(* unless it is known to be behind.                                        *)
THEOREM PlatformListIsRight == ListsSpec => []ListIsRight
<1>1. ListsInit => ListIInv
  BY ListTypedInit, ListRightInit DEF ListIInv
<1>2. ListIInv /\ [ListsNext]_listsVars => ListIInv'
  BY ListTypedStep, ListRightStep DEF ListIInv
<1>3. ListIInv => ListIsRight
  BY DialogType DEF ListIInv, ListRight, KeptCurrent, Caught, ListIsRight
<1>. QED  BY <1>1, <1>2, <1>3, PTL DEF ListsSpec
=============================================================================
