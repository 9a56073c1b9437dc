----------------------------- MODULE RouteAccess ----------------------------
(***************************************************************************)
(* Which page of the web client is open to which role: app/router.tsx and  *)
(* shared/auth/roleAccess.ts, roleNavigation.ts.  A page is named by the   *)
(* pattern of its route, so /invoices/7 is "/invoices/:id".                *)
(***************************************************************************)
EXTENDS FiniteSets

Role == {"superuser", "manager", "hr", "accountant", "employee"}

-----------------------------------------------------------------------------
(* app/router.tsx                                                          *)
SuperArea == {"/superadmin", "/superadmin/companies", "/superadmin/users",
              "/superadmin/roles", "/superadmin/subscriptions",
              "/superadmin/backups", "/superadmin/audit-logs"}
Reports == {"/accounting/reports/trial-balance", "/accounting/reports/general-ledger",
            "/accounting/reports/pnl", "/accounting/reports/balance-sheet",
            "/accounting/reports/ar-aging"}
SelfService == {"/attendance/self", "/employee/self-service", "/messages",
                "/leaves/balance", "/leaves/request", "/leaves/my"}
HrPages == {"/hr/employees", "/hr/departments", "/hr/job-titles", "/hr/attendance",
            "/hr/leaves/inbox", "/hr/policies", "/hr/actions", "/payroll"}
BookPages == Reports \cup {"/accounting/journal-entries", "/accounting/expenses",
  "/collections", "/customers", "/customers/new", "/invoices", "/invoices/new",
  "/catalog", "/sales"}
Insights == {"/analytics/alerts", "/analytics/cash-forecast", "/analytics/ceo",
             "/analytics/finance", "/analytics/hr"}
Parametric == {"/hr/employees/:id", "/payroll/periods/:id",
  "/accounting/journal-entries/:id", "/customers/:id/edit", "/invoices/:id",
  "/invoices/:id/edit"}
(* Routes that only send on to another one                                 *)
Forward == [p \in {"/admin", "/setup"} |->
              IF p = "/admin" THEN "/superadmin" ELSE "/setup/templates"]
AuthArea == SelfService \cup HrPages \cup BookPages \cup Insights \cup Parametric
  \cup DOMAIN Forward
  \cup {"/", "/dashboard", "/users", "/admin/audit-logs", "/setup/templates",
        "/setup/progress", "/setup/super-admin"}
router == SuperArea \cup AuthArea \cup {"/login"}

-----------------------------------------------------------------------------
(* shared/auth/roleAccess.ts                                               *)
Unrestricted == {"superuser", "manager"}
ROLE_ALLOWED_PATHS(role) ==
  CASE role = "hr" -> SelfService \cup HrPages \cup {"/analytics/hr", "/users"}
    [] role = "accountant" -> SelfService \cup BookPages \cup
         {"/analytics/finance", "/analytics/alerts", "/analytics/cash-forecast"}
    [] role = "employee" -> SelfService
    [] role \in Unrestricted -> router       \* null in the table

(* The parametric pages whose path starts with a prefix of the role        *)
ROLE_ALLOWED_PREFIXES(role) ==
  CASE role = "hr" -> {"/hr/employees/:id", "/payroll/periods/:id"}
    [] role = "accountant" -> {"/accounting/journal-entries/:id",
         "/customers/:id/edit", "/invoices/:id", "/invoices/:id/edit"}
    [] role \in Unrestricted \cup {"employee"} -> {}

StartsWithAdmin == {"/admin", "/admin/audit-logs"}

(* mutant: the guard only knows the pages listed one by one                *)
isPathListedForRole(path, role) ==
  IF path \in StartsWithAdmin THEN role = "superuser"
  ELSE role \in Unrestricted \/ path \in ROLE_ALLOWED_PATHS(role)
isPathAllowedForRole(path, role) ==
  IF path \in StartsWithAdmin THEN role = "superuser"
  ELSE \/ role \in Unrestricted
       \/ path \in ROLE_ALLOWED_PATHS(role) \cup ROLE_ALLOWED_PREFIXES(role)

(* getAllowedPathsForRole, as the sidebars use it: null hides nothing      *)
Narrowed(links, role) ==
  IF role \in Unrestricted THEN links ELSE links \cap ROLE_ALLOWED_PATHS(role)

isNavLinkVisibleForRole(path, role) ==
  IF path \in StartsWithAdmin THEN role = "superuser"
  ELSE \/ role \in Unrestricted
       \/ path \in ROLE_ALLOWED_PATHS(role) \cup ROLE_ALLOWED_PREFIXES(role)

-----------------------------------------------------------------------------
(* shared/auth/roleNavigation.ts.  The server sends one of the five roles, *)
(* which is taken before any of the others of the payload; is_superuser is *)
(* set exactly for the first.                                              *)
resolvePrimaryRole(me) == IF me \in Role THEN me ELSE "employee"

(* mutant: every role starts at the dashboard                              *)
DashboardForAll(role) == "/dashboard"
getDefaultPathForRole(role) ==
  CASE role \in Unrestricted -> "/dashboard"
    [] role = "hr" -> "/analytics/hr"
    [] role = "accountant" -> "/analytics/finance"
    [] role = "employee" -> "/employee/self-service"
=============================================================================
