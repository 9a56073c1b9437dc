--------------------------- MODULE ApprovalPolicy ---------------------------
(***************************************************************************)
(* Who may decide a request: role resolution (core/rbac.py), permission    *)
(* codes (core/permissions.py) and the two approval predicates of          *)
(* hr/api_views.py.  Constant module: a state machine that changes roles   *)
(* instantiates it with a variable for RolesOf.                            *)
(***************************************************************************)
EXTENDS Naturals

CONSTANTS User,        \* accounts of one company
          Superuser,   \* accounts with is_superuser
          RolesOf,     \* role names of an account (core.UserRole rows)
          ManagerOf,   \* the employee's manager_id, or NoManager
          NoManager,
          SeededCodes  \* role -> codes stored in the role-permission table

Role == {"admin", "manager", "hr", "accountant", "employee"}
Code == {"leaves.*", "approvals.*", "commissions.*"}

ASSUME PolicyAssumption ==
  /\ Superuser \subseteq User
  /\ RolesOf \in [User -> SUBSET Role]
  /\ NoManager \notin User
  /\ ManagerOf \in [User -> User \cup {NoManager}]
  /\ SeededCodes \in [Role -> SUBSET Code]

-----------------------------------------------------------------------------
(* get_user_role: the highest role of ROLE_PRIORITY; a name outside        *)
(* VALID_ROLES ("admin") raises, which ends the request.                   *)
RolePriority == <<"manager", "hr", "accountant", "employee">>

RaisesInvalidRole(u) == u \notin Superuser /\ "admin" \in RolesOf[u]

PrimaryRole(u) ==
  IF \E i \in 1..4 : RolePriority[i] \in RolesOf[u]
  THEN RolePriority[CHOOSE i \in 1..4 :
         /\ RolePriority[i] \in RolesOf[u]
         /\ \A j \in 1..4 : RolePriority[j] \in RolesOf[u] => i <= j]
  ELSE "employee"

(* ACCESS_MATRIX restricted to the "hr" scope every code below belongs to  *)
HasHrScope(role) == role \in {"manager", "hr"}

(* ROLE_PERMISSION_MAP, extended by the codes stored in the database       *)
RoleCodes(role) ==
  SeededCodes[role] \cup
    CASE role \in {"admin", "manager"} -> Code
      [] role = "hr" -> {"leaves.*", "commissions.*"}
      [] OTHER -> {}

UserHasPermission(u, code) ==
  \/ u \in Superuser
  \/ /\ ~RaisesInvalidRole(u)
     /\ HasHrScope(PrimaryRole(u))
     /\ \E r \in RolesOf[u] : code \in RoleCodes(r)

-----------------------------------------------------------------------------
(* _user_can_approve(user, leave_request) for a request of employee e      *)
UserCanApprove(u, e) ==
  LET hasLeaves == UserHasPermission(u, "leaves.*")
      elevated(roles) == RolesOf[e] \cap roles # {}
      hrOnly == "hr" \in RolesOf[u] /\ "manager" \notin RolesOf[u]
  IN  /\ hasLeaves \/ UserHasPermission(u, "approvals.*")
      /\ u # e
      /\ \/ "admin" \in RolesOf[u]
         \/ hasLeaves /\ (hrOnly => ~elevated({"hr", "manager", "admin"}))
         \/ /\ ~hasLeaves
            /\ "manager" \in RolesOf[u]
            /\ elevated({"manager"}) => ManagerOf[e] \in {NoManager, u}
         \/ /\ ~hasLeaves
            /\ hrOnly
            /\ ~elevated({"hr", "manager", "admin"})

(* _user_can_approve_commission(user, commission_request)                  *)
UserCanApproveCommission(u, e) ==
  /\ \/ UserHasPermission(u, "commissions.*")
     \/ UserHasPermission(u, "approvals.*")
  /\ u # e
  /\ \/ "manager" \in RolesOf[u]
     \/ "hr" \in RolesOf[u] /\ RolesOf[e] \cap {"hr", "manager"} = {}
=============================================================================
