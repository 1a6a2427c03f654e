---------------------------- MODULE ConsoleUsers ----------------------------
(***************************************************************************)
(* The users page of the console (TenantUsersPage.tsx and                  *)
(* components/tenant/users), with the user operations of PlatformContext   *)
(* and the accounts of the backend's users.py.                             *)
(*                                                                         *)
(* "me" uses the modelled console; "peer" is another owner, whose requests *)
(* meet the same server.  An account is its role and its status; everybody *)
(* has a membership profile, with which the page offers most.              *)
(***************************************************************************)
EXTENDS Integers, FiniteSets, Sequences

CONSTANTS NewUsers, MaxUserOps

VARIABLES
  accounts,     \* tenant_users
  tenantUsers,  \* as loaded
  userOps,
  prompt,       \* the dialog that is open, and its user
  bulk          \* ImportUsersModal and importTenantUsers

userVars == <<accounts, tenantUsers, userOps, prompt, bulk>>

U == INSTANCE TenantReload
       WITH rows <- accounts, view <- tenantUsers, ops <- userOps, MaxOps <- MaxUserOps

(* The roles of the server, and of the page's dialogs.                     *)
TenantRoleName == {"owner", "admin", "operator", "viewer"}
UiRoles == {"TENANT_ADMIN", "SITE_MANAGER", "MEMBER"}

(* An invitation translates the role, a change of role only lowers it.     *)
mapUiRoleToBackend(role) ==
  CASE role = "TENANT_ADMIN" -> "admin" [] role = "SITE_MANAGER" -> "operator" [] OTHER -> "viewer"
toLowerCase(role) ==
  CASE role = "TENANT_ADMIN" -> "tenant_admin" [] role = "SITE_MANAGER" -> "site_manager"
    [] OTHER -> "member"

(* What the page shows of an account.                                      *)
mapUser(u) ==
  [id |-> u.id,
   role |-> CASE u.role = "owner" -> "OWNER" [] u.role = "admin" -> "ADMIN"
              [] u.role = "operator" -> "OPERATOR" [] OTHER -> "VIEWER",
   status |-> CASE u.status = "active" -> "ACTIVE" [] u.status = "invited" -> "INVITED"
                [] OTHER -> "DISABLED"]
mapMembership(u) ==
  CASE u.status = "INVITED" -> "PENDING" [] u.status = "ACTIVE" -> "ACTIVE" [] OTHER -> "SUSPENDED"

Users == {mapUser(u) : u \in tenantUsers}
Invitations == {u \in Users : u.status = "INVITED"}

(* The guard of the dialogs and the drawer.                                *)
isOnlyActiveAdmin(u) ==
  LET admins == {v \in Users : v.role = "TENANT_ADMIN" /\ v.status = "ACTIVE"}
  IN  u.role = "TENANT_ADMIN" /\ u.status = "ACTIVE" /\ Cardinality(admins) <= 1

-----------------------------------------------------------------------------
(* PlatformContext: the requests.  `from' is the dialog that awaits one.   *)

UserBody(by, role, status, from) ==
  [by |-> by, role |-> role, status |-> status, from |-> from, checked |-> FALSE]

inviteTenantUser(id, role) ==
  U!Begin("invite", id, UserBody("me", mapUiRoleToBackend(role), "invited", "none"))
changeTenantUserRole(id, role) ==
  U!Begin("update", id, UserBody("me", toLowerCase(role), "same", "role"))
toggleTenantUserStatus(id, status, from) ==
  U!Begin("update", id, UserBody("me", "same", status, from))
deleteTenantMember(id) == U!Begin("delete", id, UserBody("me", "same", "disabled", "none"))

(* users.py.  `checked': the transaction has made its checks and has not   *)
(* committed yet; nothing is locked.                                       *)
OtherOwner(id) == \E v \in accounts : v.id # id /\ v.role = "owner" /\ v.status = "active"

CheckUser(op) ==
  /\ op.at = "sent" /\ op.kind # "invite" /\ ~op.body.checked
  /\ op.body.role \in TenantRoleName \cup {"same"}
  /\ \E u \in U!Row(op.id) :
       /\ op.body.status = "disabled" => u.id # op.body.by
       /\ u.role = "owner" => \E v \in U!Row(op.body.by) : v.role = "owner"
       /\ u.role = "owner" /\ op.body.status = "disabled" => OtherOwner(u.id)
  /\ userOps' = (userOps \ {op}) \cup {[op EXCEPT !.body.checked = TRUE]}
  /\ UNCHANGED <<accounts, tenantUsers>>

Invited(id, role) ==
  IF U!Row(id) = {} THEN {accounts \cup {[id |-> id, role |-> role, status |-> "invited"]}} ELSE {}

UserResults(op) ==
  CASE op.kind = "invite" -> Invited(op.id, op.body.role)
    [] op.body.checked -> {{IF u.id = op.id THEN [u EXCEPT !.status = op.body.status] ELSE u :
                              u \in accounts}}
    [] OTHER -> {}

NoPrompt == [kind |-> "none", user |-> {}]

(* A dialog that awaited its operation closes when it succeeds, and stays  *)
(* with the error when it does not.                                        *)
DialogEnds(op) ==
  prompt' = IF op.body.from = prompt.kind THEN NoPrompt ELSE prompt

UserRequests ==
  /\ \E op \in userOps :
       \/ /\ \/ CheckUser(op) \/ U!Fails(op) \/ U!LoadServed(op)
             \/ \E new \in UserResults(op) : U!Served(op, new) \/ U!AnswerLost(op, new)
          /\ UNCHANGED prompt
       \/ U!LoadEnds(op) /\ DialogEnds(op)
  /\ UNCHANGED bulk

(* Another owner deactivates somebody.                                     *)
PeerDisables(id) ==
  /\ U!Begin("update", id, UserBody("peer", "same", "disabled", "none"))
  /\ UNCHANGED <<prompt, bulk>>

(* An invited person sets a password.                                      *)
Activates(id) ==
  /\ \E u \in U!Row(id) :
       u.status = "invited" /\ accounts' = (accounts \ {u}) \cup {[u EXCEPT !.status = "active"]}
  /\ UNCHANGED <<tenantUsers, userOps, prompt, bulk>>

-----------------------------------------------------------------------------
(* The page: what the tabs offer for a user the filters leave.  INACTIVE   *)
(* is offered as a filter, and is the status of nobody.                    *)

UserFilters == {"ALL", "ACTIVE", "INACTIVE"}
filteredUsers(status) == {u \in Users : status \in {"ALL", u.status}}

UserButtons(u) == {"detail", "role", "password", "status"}
MemberButtons(u) == {"detail", IF mapMembership(u) = "ACTIVE" THEN "suspend" ELSE "activate"}
DrawerUserButtons(u) ==
  {"role", "password", "status"}
    \cup (CASE mapMembership(u) = "ACTIVE" -> {"suspend", "end"}
            [] mapMembership(u) = "SUSPENDED" -> {"activate", "end"} [] OTHER -> {"end"})

OpenPrompt(kind, user) ==
  prompt' = [kind |-> kind, user |-> user] /\ UNCHANGED <<accounts, tenantUsers, userOps, bulk>>

PageOpens ==
  /\ prompt = NoPrompt
  /\ \/ OpenPrompt("add", {}) \/ OpenPrompt("import", {})
     \/ \E status \in UserFilters : \E u \in filteredUsers(status) :
          \E b \in UserButtons(u) \cup MemberButtons(u) : OpenPrompt(b, {u})

DrawerOpens ==
  /\ prompt.kind = "detail"
  /\ \E u \in prompt.user : \E b \in DrawerUserButtons(u) : OpenPrompt(b, {u})

ClosePrompt == prompt # NoPrompt /\ OpenPrompt("none", {})

ClosesPrompt == prompt' = NoPrompt /\ UNCHANGED bulk
KeepsPrompt == UNCHANGED <<prompt, bulk>>

(* The invitations tab.                                                    *)
cancelTenantInvitation ==
  /\ prompt = NoPrompt
  /\ \E u \in Invitations : deleteTenantMember(u.id)
  /\ KeepsPrompt

(* AddUserDialog: both forms invite, close at once and read no result;     *)
(* of their fields the email and the role are sent.                        *)
InviteForm == NewUsers \X UiRoles
ManualForm == NewUsers \X UiRoles
handleInviteSubmit ==
  /\ prompt.kind = "add"
  /\ \E f \in InviteForm \cup ManualForm : inviteTenantUser(f[1], f[2])
  /\ ClosesPrompt

(* ChangeRoleDialog.                                                       *)
handleRoleSubmit ==
  /\ prompt.kind = "role"
  /\ \E u \in prompt.user, role \in UiRoles :
       /\ u.role # role /\ ~(isOnlyActiveAdmin(u) /\ role # "TENANT_ADMIN")
       /\ changeTenantUserRole(u.id, role)
  /\ KeepsPrompt

(* DeactivateUserDialog.                                                   *)
handleStatusConfirm ==
  /\ prompt.kind = "status"
  /\ \E u \in prompt.user :
       /\ ~isOnlyActiveAdmin(u)
       /\ LET targetStatus == IF u.status = "ACTIVE" THEN "disabled" ELSE "active"
          IN  toggleTenantUserStatus(u.id, targetStatus, "status")
  /\ KeepsPrompt

(* MembershipActionDialog: the account is switched; no guard, no result.   *)
MembershipAction(kind, id) ==
  \/ kind = "suspend" /\ toggleTenantUserStatus(id, "disabled", "none")
  \/ kind = "activate" /\ toggleTenantUserStatus(id, "active", "none")
  \/ kind = "end" /\ deleteTenantMember(id)
handleMembershipConfirm ==
  (\E u \in prompt.user : MembershipAction(prompt.kind, u.id)) /\ ClosesPrompt

(* ResetPasswordDialog changes nothing that is modelled.                   *)
handlePasswordConfirm == prompt.kind = "password" /\ OpenPrompt("none", {})

-----------------------------------------------------------------------------
(* ImportUsersModal and importTenantUsers: an invitation per row, one      *)
(* after the other, then one reload.  `made' counts the accounts.          *)

NoImport == [at |-> "idle", todo |-> <<>>, rows |-> 0, imported |-> 0, failed |-> 0, made |-> 0]

(* parseCsv and the loop over its rows leave the rows with an email.       *)
handleImport(rows) ==
  /\ prompt.kind = "import" /\ bulk.at \in {"idle", "done"}
  /\ bulk' = [NoImport EXCEPT !.at = "row", !.todo = rows, !.rows = Len(rows)]
  /\ UNCHANGED <<accounts, tenantUsers, userOps, prompt>>

RowDone(ok, made) ==
  bulk' = [bulk EXCEPT !.todo = Tail(@), !.imported = IF ok THEN @ + 1 ELSE @,
                       !.failed = IF ok THEN @ ELSE @ + 1, !.made = @ + made]

(* A mutant: the first row that fails ends the loop.                       *)
ImportRowAborts ==
  /\ bulk.at = "row" /\ bulk.todo # <<>>
  /\ \/ \E new \in Invited(Head(bulk.todo), "viewer") : accounts' = new /\ RowDone(TRUE, 1)
     \/ UNCHANGED accounts /\ bulk' = [bulk EXCEPT !.todo = <<>>, !.failed = @ + 1]
  /\ UNCHANGED <<tenantUsers, userOps, prompt>>

(* One row: invited; invited and its answer lost; refused or not sent.     *)
ImportRow ==
  /\ bulk.at = "row" /\ bulk.todo # <<>>
  /\ \/ \E new \in Invited(Head(bulk.todo), "viewer"), ok \in BOOLEAN :
          accounts' = new /\ RowDone(ok, 1)
     \/ UNCHANGED accounts /\ RowDone(FALSE, 0)
  /\ UNCHANGED <<tenantUsers, userOps, prompt>>

(* loadTenantData, then the result is shown.                               *)
ImportUsersEnds ==
  /\ bulk.at = "row" /\ bulk.todo = <<>>
  /\ bulk' = [bulk EXCEPT !.at = "done"]
  /\ tenantUsers' \in {accounts, tenantUsers}
  /\ UNCHANGED <<accounts, userOps, prompt>>

UsersInit(peerRole) ==
  /\ accounts = {[id |-> "me", role |-> "owner", status |-> "active"],
                 [id |-> "peer", role |-> peerRole, status |-> "active"]}
  /\ tenantUsers = accounts
  /\ userOps = {} /\ prompt = NoPrompt /\ bulk = NoImport

UsersNext ==
  \/ UserRequests
  \/ \E id \in {"me"} \cup NewUsers : PeerDisables(id)
  \/ \E id \in NewUsers : Activates(id)
  \/ PageOpens \/ DrawerOpens \/ ClosePrompt \/ cancelTenantInvitation
  \/ handleInviteSubmit \/ handleRoleSubmit \/ handleStatusConfirm
  \/ handleMembershipConfirm \/ handlePasswordConfirm
  \/ \E rows \in UNION {[1..n -> NewUsers] : n \in 1..2} : handleImport(rows)
  \/ ImportRow \/ ImportUsersEnds

UsersSpec == (\E role \in {"owner", "admin"} : UsersInit(role)) /\ [][UsersNext]_userVars

-----------------------------------------------------------------------------
(* When an import says that it is over, every row of the file is counted   *)
(* once, each one counted as imported has made an account, and an account  *)
(* it made is counted, if only as a failure whose answer was lost.         *)
ImportAccounted ==
  bulk.at = "done" =>
    /\ bulk.imported + bulk.failed = bulk.rows
    /\ bulk.imported <= bulk.made /\ bulk.made <= bulk.imported + bulk.failed

(* `A tenant must always keep at least one active owner' (users.py:97).    *)
OwnerRemains == \E u \in accounts : u.role = "owner" /\ u.status = "active"

(* `Confirm Role Change': a change of role the dialog lets through is one  *)
(* the server knows.                                                       *)
RoleKnown == \A op \in userOps : op.body.role \in TenantRoleName \cup {"same"}
=============================================================================
