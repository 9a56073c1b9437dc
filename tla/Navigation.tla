----------------------------- MODULE Navigation -----------------------------
(***************************************************************************)
(* Where the web client takes its visitor: the guards of app/, the login   *)
(* page, and the answer to /me that both guards decide by, kept by React   *)
(* Query under the key "me" for as long as the document lives.             *)
(*                                                                         *)
(* An account is named by its role.  One tab; what the calls do to the     *)
(* tokens before they are refused for good is in HttpClient.  A visitor    *)
(* acts on a page that has settled.                                        *)
(***************************************************************************)
EXTENDS Sidebars

CONSTANTS Account, NoOne, NoFetch, NoPath

Unrouted == FormerReports \cup AccountingSetup \cup
  {"/hr/leave-inbox", "/hr/payroll", "/leaves/my-requests", "/accounting/journal",
   "/sales/customers", "/sales/customers/new", "/sales/invoices",
   "/sales/invoices/new", "/alerts", "/forecast"}
Path == router \cup Unrouted
Guarded == router \ {"/login"}

ASSUME NavigationAssumption ==
  Account \subseteq Role /\ NoOne \notin Role /\ NoFetch \notin Role \cup {NoOne}
  /\ NoPath \notin Path

VARIABLES path,     \* the location
          from,     \* where the login page leads: location.state.from
          tokens,   \* localStorage: whose tokens
          me,       \* the cached answer to /me
          stale,    \* ... fetched more than staleTime ago
          failed,   \* the last fetch of it ended in an error
          asks,     \* the fetch under way: with whose token
          goal,     \* the link followed last, since the visitor settled on it
          reused    \* ghost: signed out here, and the cache is not empty since

nav == <<path, from, goal>>
navVars == <<path, from, tokens, me, stale, failed, asks, goal, reused>>

NavTypeOK ==
  /\ path \in Path /\ from \in router \ {"/login"}
  /\ tokens \in Account \cup {NoOne} /\ me \in Account \cup {NoOne}
  /\ stale \in BOOLEAN /\ failed \in BOOLEAN /\ reused \in BOOLEAN
  /\ asks \in Account \cup {NoOne, NoFetch}
  /\ goal \in Path \cup {NoPath}
  /\ me = NoOne => ~stale

-----------------------------------------------------------------------------
(* isLoading: nothing cached, and a fetch under way                        *)
Loading == me = NoOne /\ asks # NoFetch

(* RequireSuperUser, RequireAuth and RoleHomeRedirect let a page show.     *)
Allows(p) ==
  IF p \in SuperArea THEN me = "superuser"
  ELSE isPathAllowedForRole(p, me) /\ p \notin DOMAIN Forward \cup {"/"}
Shown(p) ==
  IF p = "/login" THEN tokens = NoOne
  ELSE /\ p \in Guarded /\ tokens # NoOne
       /\ me # NoOne /\ ~failed /\ Allows(p)
Held(p) == p \in Guarded /\ tokens # NoOne /\ Loading
Settled == Shown(path)

(* Where they send the browser otherwise                                   *)
Home == getDefaultPathForRole(resolvePrimaryRole(me))
Target(p) ==
  CASE p = "/login" -> from
    [] p \notin router -> "/login"
    [] p \in Guarded /\ (tokens = NoOne \/ failed \/ me = NoOne) -> "/login"
    [] OTHER -> CASE p \in SuperArea -> "/dashboard"
                  [] p \in DOMAIN Forward /\ isPathAllowedForRole(p, me) -> Forward[p]
                  [] OTHER -> Home

(* useMe: the page at p asks for /me when there is no answer or a stale    *)
(* one, with the token of localStorage, even when there is none.           *)
useMe(p, t) ==
  LET fetch == p \in Guarded /\ asks = NoFetch /\ (me = NoOne \/ stale) IN
  /\ asks' = IF fetch THEN t ELSE asks
  /\ failed' = IF fetch /\ me = NoOne THEN FALSE ELSE failed

(* A new document at p, with the tokens t in localStorage                  *)
(* mutant: an address is followed inside the document                      *)
LoadInPlace(p, t) ==
  /\ path' = p /\ from' = "/" /\ goal' = NoPath /\ reused' = FALSE
  /\ useMe(p, t)
  /\ UNCHANGED <<me, stale>>
Load(p, t) ==
  /\ path' = p /\ from' = "/" /\ goal' = NoPath
  /\ me' = NoOne /\ stale' = FALSE /\ failed' = FALSE /\ reused' = FALSE
  /\ asks' = IF p \in Guarded THEN t ELSE NoFetch

NavInit ==
  /\ path = "/login" /\ from = "/" /\ tokens = NoOne /\ goal = NoPath
  /\ me = NoOne /\ stale = FALSE /\ failed = FALSE /\ asks = NoFetch
  /\ reused = FALSE

-----------------------------------------------------------------------------
(* The visitor types an address, or starts again.                          *)
Enter(p) ==
  /\ Settled
  /\ Load(p, tokens)
  /\ UNCHANGED tokens

(* A Navigate of the router or a guard, or the effect of the login page    *)
Redirect ==
  /\ ~Shown(path) /\ ~Held(path)
  /\ path' = Target(path)
  /\ from' = IF path' = "/login" /\ path \in Guarded THEN path ELSE "/"
  /\ useMe(path', tokens)
  /\ UNCHANGED <<tokens, me, stale, goal, reused>>

Click(l) ==
  /\ Settled /\ path # "/login" /\ l \in Links(path, me)
  /\ path' = l /\ goal' = l
  /\ useMe(l, tokens)
  /\ UNCHANGED <<from, tokens, me, stale, reused>>

(* LoginPage.handleSubmit, once the server has accepted the password       *)
SignIn(u) ==
  /\ path = "/login" /\ tokens = NoOne
  /\ tokens' = u /\ path' = from /\ from' = "/" /\ goal' = NoPath
  /\ useMe(path', u)
  /\ UNCHANGED <<me, stale, reused>>

(* The button of a page: the cache stays as it is.                         *)
SignOut ==
  /\ Settled /\ path # "/login"
  /\ tokens' = NoOne /\ path' = "/login" /\ from' = "/" /\ goal' = NoPath
  /\ reused' = TRUE
  /\ UNCHANGED <<me, stale, failed, asks>>

-----------------------------------------------------------------------------
MeOk ==
  /\ asks \in Account
  /\ me' = asks /\ stale' = FALSE /\ failed' = FALSE /\ asks' = NoFetch
  /\ UNCHANGED <<nav, tokens, reused>>

(* The network, or the server, fails twice.                                *)
MeFail ==
  /\ asks # NoFetch
  /\ failed' = TRUE /\ asks' = NoFetch
  /\ UNCHANGED <<nav, tokens, me, stale, reused>>

(* A 401, and tokens in localStorage that are not those of the request:    *)
(* it is sent again with theirs.                                           *)
MeResent ==
  /\ asks # NoFetch /\ tokens # NoOne /\ asks # tokens
  /\ asks' = tokens
  /\ UNCHANGED <<nav, tokens, me, stale, failed, reused>>

(* A call of the page, or /me, is refused for good: redirectToLogin        *)
Refused ==
  /\ tokens # NoOne \/ asks # NoFetch
  /\ tokens' = NoOne
  /\ Load("/login", NoOne)

(* staleTime and gcTime of useMe; only the login page shows nothing that   *)
(* observes it.                                                            *)
(* mutant: the age is counted even when nothing is cached                  *)
StaleAlways ==
  /\ ~stale /\ stale' = TRUE
  /\ UNCHANGED <<nav, tokens, me, failed, asks, reused>>
Stale ==
  /\ me # NoOne /\ ~stale /\ stale' = TRUE
  /\ UNCHANGED <<nav, tokens, me, failed, asks, reused>>

Collect ==
  /\ path = "/login" /\ tokens = NoOne /\ asks = NoFetch /\ me # NoOne
  /\ me' = NoOne /\ stale' = FALSE /\ failed' = FALSE /\ reused' = FALSE
  /\ UNCHANGED <<nav, tokens, asks>>

MeAnswer == MeOk \/ MeFail \/ MeResent

NavNext ==
  \/ Redirect \/ MeAnswer \/ Refused \/ Stale \/ Collect \/ SignOut
  \/ \E u \in Account : SignIn(u)
  \/ \E p \in Path : Enter(p)
  \/ \E l \in Path \cup {"/admin"} : Click(l)

(* The effects of a render run, and every fetch ends.                      *)
Fairness == WF_navVars(Redirect) /\ WF_navVars(MeAnswer \/ Refused)

NavSpec == NavInit /\ [][NavNext]_navVars /\ Fairness

-----------------------------------------------------------------------------
(* A redirect always ends on a page that stays: the guards never send a    *)
(* visitor round and round.  The exception is the login page and a guard   *)
(* that keeps an answer whose last refresh failed: they exchange the       *)
(* visitor until /me is answered, for ever if it always fails.             *)
Settles == []<>Settled \/ []<><<MeFail>>_navVars

(* The links a page shows to a role lead where they say.  Two kinds do     *)
(* not: the names the router no longer knows, which lead home by way of    *)
(* the login page, and the audit log that every page but one shows to a    *)
(* manager.                                                                *)
Misleading(l) == l \in Unrouted \/ (l = "/admin/audit-logs" /\ me # "superuser")
LinksLead ==
  (Settled /\ goal # NoPath /\ tokens # NoOne /\ ~reused /\ ~Misleading(goal)) =>
     path = IF goal \in DOMAIN Forward THEN Forward[goal] ELSE goal

(* Only who signs in after another's sign-out in the same document is      *)
(* judged by the other's role; after a refusal, which loads the document   *)
(* anew, whoever signs in is judged by the own.                            *)
JudgedByOwnRole ==
  (tokens # NoOne /\ me # NoOne /\ ~reused) => me = tokens

(* A page of the platform is never shown to the account of a company.      *)
PlatformOnly ==
  (Settled /\ path \in SuperArea \cup {"/admin/audit-logs"} /\ ~reused) =>
     tokens = "superuser"
=============================================================================
