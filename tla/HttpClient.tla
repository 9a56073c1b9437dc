----------------------------- MODULE HttpClient -----------------------------
(***************************************************************************)
(* The calls of the web client to the API and the tokens they carry:       *)
(* frontend/src/shared/api/http.ts over shared/auth/tokens.ts.             *)
(*                                                                         *)
(* Callbacks run to completion, so a step is the answer to one request and *)
(* all that the interceptors do before they wait again.  The variables     *)
(* isRefreshing, refreshPromise and requestQueue are those of the module;  *)
(* they live as long as the document, the tokens outlive it.               *)
(***************************************************************************)
EXTENDS Naturals, Sequences, SequencesExt

CONSTANTS Account,
          Call,       \* calls under way at a time
          NoOne, NoToken

Method == {"get", "post", "login"}
(* held: waits for the refresh before it is sent; queued: waits for it     *)
(* after a 401; leading: the call that asked for the refresh               *)
Waiting == {"held", "queued", "leading"}
Pending == Waiting \cup {"sent", "backoff"}
Phase == Pending \cup {"none", "resolved", "rejected"}
(* An access token with the refresh token of the same account.             *)
Token == [user: Account, live: BOOLEAN]
Request == [at: Phase, method: Method, who: Account \cup {NoOne},
            with: Token \cup {NoToken}, retried: BOOLEAN, limited: 0..2,
            sends: Nat]

ASSUME HttpAssumption ==
  /\ NoOne \notin Account /\ NoToken \notin Token

VARIABLES tokens,         \* localStorage, shared with the other tabs
          barred,         \* accounts the server no longer lets in
          call,           \* per call: its request configuration
          isRefreshing,
          refreshPromise, \* the account whose refresh token is traded
          requestQueue,
          leaving,        \* window.location is set, the document still runs
          away            \* ghost: signed out, and no refresh was under way

vars == <<tokens, barred, call, isRefreshing, refreshPromise, requestQueue,
          leaving, away>>

TypeOK ==
  /\ tokens \in Token \cup {NoToken}
  /\ barred \subseteq Account
  /\ call \in [Call -> Request]
  /\ isRefreshing \in BOOLEAN
  /\ refreshPromise \in Account \cup {NoOne}
  /\ requestQueue \in Seq(Call)
  /\ leaving \in BOOLEAN /\ away \in BOOLEAN

Unused == [at |-> "none", method |-> "get", who |-> NoOne, with |-> NoToken,
           retried |-> FALSE, limited |-> 0, sends |-> 0]

Init ==
  /\ tokens = NoToken /\ barred = {}
  /\ call = [c \in Call |-> Unused]
  /\ isRefreshing = FALSE /\ refreshPromise = NoOne /\ requestQueue = <<>>
  /\ leaving = FALSE /\ away = FALSE

-----------------------------------------------------------------------------
Settled(at) == [Unused EXCEPT !.at = at]
Wait(r, at) == [r EXCEPT !.at = at, !.with = NoToken]

(* The request interceptor: wait for a refresh under way, else attach the  *)
(* token found in localStorage.  If there is none, a call that is repeated *)
(* keeps the one it has.                                                   *)
Attach(r, t) ==
  [r EXCEPT !.at = "sent", !.with = IF t = NoToken THEN @ ELSE t, !.sends = @ + 1]
Dispatch(r) == IF isRefreshing /\ refreshPromise # NoOne
               THEN [r EXCEPT !.at = "held"]
               ELSE Attach(r, tokens)

(* A component makes a call; the form of LoginPage, which names the account *)
(* to sign in, is only shown to a visitor without tokens.                  *)
Issue(c, m, u) ==
  /\ call[c].at \notin Pending
  /\ (m = "login") <=> (u # NoOne)
  /\ m = "login" => tokens = NoToken
  /\ call' = [call EXCEPT ![c] = Dispatch([Unused EXCEPT !.method = m, !.who = u])]
  /\ UNCHANGED <<tokens, barred, isRefreshing, refreshPromise, requestQueue, leaving, away>>

-----------------------------------------------------------------------------
(* clearTokens and, in the interceptor, redirectToLogin                    *)
Cleared == tokens' = NoToken /\ away' = (away \/ ~isRefreshing')
SignedOff == Cleared /\ leaving' = TRUE

Accepted(t) == t # NoToken /\ t.live /\ t.user \notin barred

(* LoginPage stores the tokens that its call brings back.                  *)
Succeed(c) ==
  /\ call[c].at = "sent"
  /\ call[c].method # "login" => Accepted(call[c].with)
  /\ call' = [call EXCEPT ![c] = Settled("resolved")]
  /\ tokens' = IF call[c].method = "login"
               THEN [user |-> call[c].who, live |-> TRUE] ELSE tokens
  /\ away' = (away /\ call[c].method # "login")
  /\ UNCHANGED <<barred, isRefreshing, refreshPromise, requestQueue, leaving>>

(* The response interceptor on a 401: a login with a wrong password is one *)
Refused(c) ==
  /\ call[c].at = "sent"
  /\ call[c].method = "login" \/ ~Accepted(call[c].with)

MayRefresh(c) == Refused(c) /\ tokens # NoToken /\ ~call[c].retried

Queue(c) ==
  /\ MayRefresh(c) /\ isRefreshing
  /\ call' = [call EXCEPT ![c] = [Wait(@, "queued") EXCEPT !.retried = TRUE]]
  /\ requestQueue' = Append(requestQueue, c)
  /\ UNCHANGED <<tokens, barred, isRefreshing, refreshPromise, leaving, away>>

(* mutant: a 401 does not look whether a refresh is under way              *)
LeadAlways(c) ==
  /\ MayRefresh(c)
  /\ call' = [call EXCEPT ![c] = [Wait(@, "leading") EXCEPT !.retried = TRUE]]
  /\ isRefreshing' = TRUE /\ refreshPromise' = tokens.user
  /\ UNCHANGED <<tokens, barred, requestQueue, leaving, away>>
(* mutant: the flag that limits a call to one refresh is not set           *)
LeadForever(c) ==
  /\ Refused(c) /\ tokens # NoToken /\ ~isRefreshing
  /\ call' = [call EXCEPT ![c] = Wait(@, "leading")]
  /\ isRefreshing' = TRUE /\ refreshPromise' = tokens.user
  /\ UNCHANGED <<tokens, barred, requestQueue, leaving, away>>
(* mutant: the refresh token is that of the token the call was sent with   *)
LeadAsIssuer(c) ==
  /\ Refused(c) /\ ~call[c].retried /\ call[c].with # NoToken /\ ~isRefreshing
  /\ call' = [call EXCEPT ![c] = [Wait(@, "leading") EXCEPT !.retried = TRUE]]
  /\ isRefreshing' = TRUE /\ refreshPromise' = call[c].with.user
  /\ UNCHANGED <<tokens, barred, requestQueue, leaving, away>>
Lead(c) ==
  /\ MayRefresh(c) /\ ~isRefreshing
  /\ call' = [call EXCEPT ![c] = [Wait(@, "leading") EXCEPT !.retried = TRUE]]
  /\ isRefreshing' = TRUE /\ refreshPromise' = tokens.user
  /\ UNCHANGED <<tokens, barred, requestQueue, leaving, away>>

GiveUp(c) ==
  /\ Refused(c) /\ ~MayRefresh(c)
  /\ call' = [call EXCEPT ![c] = Settled("rejected")]
  /\ UNCHANGED <<barred, isRefreshing, refreshPromise, requestQueue>>
  /\ SignedOff

(* 429: a GET is tried again, twice at most                                *)
Throttled(r) ==
  IF r.method = "get" /\ r.limited < 2
  THEN [r EXCEPT !.at = "backoff", !.limited = @ + 1]
  ELSE Settled("rejected")
Limit(c) ==
  /\ call[c].at = "sent"
  /\ call' = [call EXCEPT ![c] = Throttled(@)]
  /\ UNCHANGED <<tokens, barred, isRefreshing, refreshPromise, requestQueue, leaving, away>>

Resend(c) ==
  /\ call[c].at = "backoff"
  /\ call' = [call EXCEPT ![c] = Dispatch(@)]
  /\ UNCHANGED <<tokens, barred, isRefreshing, refreshPromise, requestQueue, leaving, away>>

(* No response, or any other error status                                  *)
Fail(c) ==
  /\ call[c].at = "sent"
  /\ call' = [call EXCEPT ![c] = Settled("rejected")]
  /\ UNCHANGED <<tokens, barred, isRefreshing, refreshPromise, requestQueue, leaving, away>>

-----------------------------------------------------------------------------
(* The answer to doRefresh, with all that waits for it.  The tokens are    *)
(* stored whoever is signed in by then.                                    *)
Renewed == [user |-> refreshPromise, live |-> TRUE]
Freed == isRefreshing' = FALSE /\ refreshPromise' = NoOne /\ requestQueue' = <<>>

(* mutant: a refresh leaves the queue as it is                             *)
GrantedLeader ==
  /\ refreshPromise # NoOne
  /\ tokens' = Renewed
  /\ call' = [c \in Call |-> IF call[c].at \in {"leading", "held"}
                             THEN Attach(call[c], Renewed) ELSE call[c]]
  /\ isRefreshing' = FALSE /\ refreshPromise' = NoOne
  /\ UNCHANGED <<barred, requestQueue, leaving, away>>
Granted ==
  /\ refreshPromise # NoOne
  /\ tokens' = Renewed
  /\ call' = [c \in Call |-> IF call[c].at \in Waiting
                             THEN Attach(call[c], Renewed) ELSE call[c]]
  /\ Freed
  /\ UNCHANGED <<barred, leaving, away>>

(* The refresh token is refused, or no candidate URL gives an access token *)
(* mutant: the calls that wait are not told                                *)
DeniedSilently ==
  /\ refreshPromise # NoOne
  /\ call' = [c \in Call |->
       CASE call[c].at = "leading" -> Settled("rejected")
         [] call[c].at = "held" -> Attach(call[c], NoToken)
         [] OTHER -> call[c]]
  /\ Freed /\ SignedOff
  /\ UNCHANGED barred
Denied ==
  /\ refreshPromise # NoOne
  /\ call' = [c \in Call |->
       CASE call[c].at \in {"leading", "queued"} -> Settled("rejected")
         [] call[c].at = "held" -> Attach(call[c], NoToken)
         [] OTHER -> call[c]]
  /\ Freed /\ SignedOff
  /\ UNCHANGED barred

-----------------------------------------------------------------------------
(* A logout handler, or another tab                                        *)
SignOut ==
  /\ tokens # NoToken
  /\ UNCHANGED <<barred, call, isRefreshing, refreshPromise, requestQueue, leaving>>
  /\ Cleared

(* Another tab signs in, or has its access token renewed.                  *)
OtherTab(u) ==
  /\ tokens' = [user |-> u, live |-> TRUE] /\ away' = FALSE
  /\ UNCHANGED <<barred, call, isRefreshing, refreshPromise, requestQueue, leaving>>

(* The access tokens issued so far reach their lifetime.                   *)
Aged(t) == IF t = NoToken THEN t ELSE [t EXCEPT !.live = FALSE]
Expire ==
  /\ tokens' = Aged(tokens)
  /\ call' = [c \in Call |-> [call[c] EXCEPT !.with = Aged(@)]]
  /\ UNCHANGED <<barred, isRefreshing, refreshPromise, requestQueue, leaving, away>>

(* An administrator deactivates an account, or activates it again.         *)
Bar(u) ==
  /\ barred' = IF u \in barred THEN barred \ {u} ELSE barred \cup {u}
  /\ UNCHANGED <<tokens, call, isRefreshing, refreshPromise, requestQueue, leaving, away>>

(* The document that redirectToLogin asked for replaces this one.          *)
Unload ==
  /\ leaving
  /\ call' = [c \in Call |-> Unused]
  /\ Freed /\ leaving' = FALSE
  /\ UNCHANGED <<tokens, barred, away>>

Answer(c) == \/ Succeed(c) \/ Queue(c) \/ Lead(c) \/ GiveUp(c)
             \/ Limit(c) \/ Fail(c)

Next ==
  \/ \E c \in Call : \/ Answer(c) \/ Resend(c)
                     \/ \E m \in Method, u \in Account \cup {NoOne} : Issue(c, m, u)
  \/ Granted \/ Denied \/ Unload
  \/ SignOut \/ Expire
  \/ \E u \in Account : OtherTab(u) \/ Bar(u)

(* Every request sent gets an answer or an error of the network, the one   *)
(* for a new token too, and a timer fires.                                 *)
Fairness ==
  /\ \A c \in Call : WF_vars(Answer(c)) /\ WF_vars(Resend(c))
  /\ WF_vars(Granted \/ Denied)

Spec == Init /\ [][Next]_vars /\ Fairness

-----------------------------------------------------------------------------
(* A call only waits for a refresh that is under way, and calls refused    *)
(* together share one: whatever sign-outs, failures and replaced documents *)
(* come in between, isRefreshing, the promise and the one call that leads  *)
(* stand or fall together, and the queue holds exactly the calls that wait *)
(* in it, each once.                                                       *)
At(phase) == {c \in Call : call[c].at = phase}
OneLeader ==
  /\ isRefreshing <=> refreshPromise # NoOne
  /\ isRefreshing <=> At("leading") # {}
  /\ \A c, d \in At("leading") : c = d
NobodyLeft == At("held") \cup At("queued") # {} => isRefreshing
QueueIsQueued == ToSet(requestQueue) = At("queued") /\ IsInjective(requestQueue)
RefreshIsShared == OneLeader /\ NobodyLeft /\ QueueIsQueued

(* However throttling, expiry and refreshes mix, a call reaches the server *)
(* four times at most: once, once more after a 401, twice more after 429.  *)
AtMostFourSends == \A c \in Call : call[c].sends <= 4

(* Who signed out while no refresh was under way stays signed out until    *)
(* the next login: no late answer of the API brings tokens back.  (A       *)
(* refresh under way at that time does.)                                   *)
SignedOutStays == away => tokens = NoToken

(* The calls as their callers see them                                     *)
promise == [c \in Call |-> IF call[c].at \in Pending THEN "pending" ELSE call[c].at]
Promised == INSTANCE CallContract
(* Every call is answered once, and answered in the end: none is left in   *)
(* the queue, none goes round between throttling and refreshes for ever.   *)
Contract == Promised!Spec
=============================================================================
