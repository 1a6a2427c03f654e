----------------------------- MODULE Memberships -----------------------------
(***************************************************************************)
(* Memberships of drivers (membership_service.py) and the console page     *)
(* that decides on them, edits plans and refunds payments                  *)
(* (TenantMembershipsPage.tsx).                                            *)
(*                                                                         *)
(* All memberships of the model are of one plate, at different sites of a  *)
(* tenant: they share the plate's row in registered_vehicles, which is     *)
(* what lets a car in and which the tenant edits too, on the vehicles page *)
(* or by an import.  A handler reads without a lock and writes by key when *)
(* it commits (Begin, Finish); the console, the driver's app and the       *)
(* payment gateway may each have one open.                                 *)
(***************************************************************************)
EXTENDS Integers, FiniteSets

CONSTANTS
  Mems,          \* memberships, each at its own site
  MaxDecisions,  \* requests the operator sends
  MaxEdits       \* times the tenant writes the vehicle's row

MemTabs == {"requests", "plans", "payments"}    \* of the page, each with its own request
MemParties == MemTabs \cup {"driver", "gateway"}

VARIABLES
  memStatus,   \* driver_memberships.status
  linked,      \* memberships with a registered_vehicle_id
  rv,          \* the plate's row: status, tag, and who wrote it last
  aged,        \* memberships past ends_at, or pending for seven days
  memPaid,     \* memberships with a paid payment
  memTxn,      \* the open request of each party
  conflicted,  \* a handler has committed on rows that had changed since it read them
  memPage,     \* the page: tab, filter, rows, dialogs
  memLoads,    \* its GETs in flight
  plans,       \* sites with a plan
  decisions,   \* requests the operator has sent
  edits        \* times the tenant has written the vehicle's row

memVars == <<memStatus, linked, rv, aged, memPaid, memTxn, conflicted,
             memPage, memLoads, plans, decisions, edits>>
memServer == <<memStatus, linked, rv, aged, memPaid, conflicted, plans, edits>>

MemOpen == {"pending", "active"}             \* ACTIVE_STATUSES
NoRow == [status |-> "absent", tag |-> "none", by |-> "tenant"]
TenantRow(status, tag) == [status |-> status, tag |-> tag, by |-> "tenant"]
NoTxn == [op |-> "none", m |-> "none", key |-> "none", at |-> "idle", status |-> "none",
          expired |-> {}, dropped |-> {}, prior |-> {}, seen |-> NoRow]
MemCall(op, m, key) == [NoTxn EXCEPT !.op = op, !.m = m, !.key = key, !.at = "sent"]

-----------------------------------------------------------------------------
(* The service.                                                            *)

(* What _expire_stale selects: active past its end, pending for too long.  *)
StaleMems(status) == {m \in aged : memStatus[m] = status}

(* The reject handler and the effects of a payment do not sweep.           *)
Sweeps(op) == op \in {"activate", "revoke", "cancel"}

(* The status a handler insists on; a payment is settled or refunded       *)
(* whatever the status, which only decides what happens to the membership. *)
MemExpected(op) ==
  CASE op \in {"activate", "reject", "settle"} -> {"pending"}
    [] op = "revoke" -> {"active"}
    [] OTHER -> MemOpen

(* The memberships that keep the plate on the whitelist.                   *)
Holders == {m \in linked : memStatus[m] = "active"}

(* The handler reads: the membership, the rows its sweep will end, the     *)
(* vehicle and the memberships that hold it.  A blacklisted plate refuses  *)
(* the operator's activation, not the payment.                             *)
MemBegin(c) ==
  LET t == memTxn[c]
      expired == IF Sweeps(t.op) THEN StaleMems("active") ELSE {}
      dropped == IF Sweeps(t.op) THEN StaleMems("pending") ELSE {}
      read == IF t.m \in expired \cup dropped THEN "over" ELSE memStatus[t.m]
      goes == \/ t.op \in {"settle", "refund"}
              \/ read \in MemExpected(t.op) /\ ~(t.op = "activate" /\ rv.tag = "blacklist")
  IN  /\ t.at = "sent" /\ t.op # "plan"
      /\ memTxn' = [memTxn EXCEPT ![c] =
           IF goes THEN [@ EXCEPT !.at = "read", !.status = read, !.seen = rv,
                                  !.expired = expired, !.dropped = dropped,
                                  !.prior = Holders \ (expired \cup {t.m})]
           ELSE IF c \in MemTabs THEN [@ EXCEPT !.at = "refused"] ELSE NoTxn]
      /\ UNCHANGED <<memServer, memPage, memLoads, decisions>>

(* A mutant: the tag of the vehicle is not looked at.                      *)
GrantingAny(t) == t.op \in {"activate", "settle"} /\ t.status = "pending"

(* _activate_membership_row goes through.  When it raises for a            *)
(* blacklisted plate, _apply_paid keeps the payment and the membership     *)
(* stays pending.                                                          *)
Granting(t) ==
  t.op \in {"activate", "settle"} /\ t.status = "pending" /\ t.seen.tag # "blacklist"

(* The status a handler gives its membership.                              *)
MemVerdict(t) ==
  IF t.status \notin MemExpected(t.op) THEN t.status
  ELSE CASE t.op \in {"activate", "settle"} -> IF Granting(t) THEN "active" ELSE t.status
         [] t.op = "reject" \/ (t.op = "refund" /\ t.status = "pending") -> "rejected"
         [] t.op = "cancel" -> "cancelled"
         [] OTHER -> "revoked"

(* A mutant: another active membership of the plate stays active.          *)
SupersededNone(t) == {}

(* LOGIC-MEM-001: another active membership of the plate is revoked.       *)
Superseded(t) == IF Granting(t) THEN t.prior ELSE {}

(* _suspend_whitelist, for the membership itself and for the expired ones: *)
(* it needs their link to the row.                                         *)
Suspends(t) ==
  \/ t.expired \cap linked # {}
  \/ t.m \in linked /\ t.status = "active" /\ MemVerdict(t) # "active"

(* What the commit makes of the vehicle's row: an activation provisions    *)
(* it, or takes it over.  Only columns that differ from what the handler   *)
(* had loaded are written.                                                 *)
RowWritten(t) ==
  IF Granting(t)
  THEN [status |-> IF t.seen.status = "active" /\ t.prior = {} /\ ~Suspends(t)
                   THEN rv.status ELSE "active",
        tag |-> IF t.seen.tag = "member" THEN rv.tag ELSE "member", by |-> "service"]
  ELSE IF Suspends(t) THEN [status |-> "suspended", tag |-> rv.tag, by |-> "service"]
  ELSE rv

(* The statuses a commit writes.                                           *)
MemWritten(t) == [m \in Mems |->
  CASE m = t.m /\ MemVerdict(t) # t.status -> MemVerdict(t)
    [] m \in Superseded(t) -> "revoked"
    [] m \in t.expired -> "expired"
    [] m \in t.dropped -> "cancelled"
    [] OTHER -> memStatus[m]]

MemCommit(t) ==
  /\ memStatus' = MemWritten(t) /\ rv' = RowWritten(t)
  /\ linked' = IF Granting(t) THEN linked \cup {t.m} ELSE linked
  /\ aged' = aged \ (t.expired \cup t.dropped \cup
                     {m \in {t.m} : MemVerdict(t) # t.status})
  /\ memPaid' = CASE t.op = "settle" -> memPaid \cup {t.m}
                  [] t.op = "refund" -> memPaid \ {t.m}
                  [] OTHER -> memPaid

(* What the handler writes over is still as it read it.                    *)
Fresh(t) ==
  /\ MemVerdict(t) # t.status => memStatus[t.m] = t.status
  /\ \A m \in t.expired : memStatus[m] = "active"
  /\ \A m \in t.dropped : memStatus[m] = "pending"
  /\ Granting(t) => rv = t.seen /\ t.prior = Holders \ (t.expired \cup {t.m})

(* A row that has appeared breaks the unique index, one that has gone the  *)
(* UPDATE: the handler is rolled back, which is MemLost.                   *)
MemFinish(c) ==
  LET t == memTxn[c]
  IN  /\ t.at = "read"
      /\ Granting(t) => (rv.status = "absent" <=> t.seen.status = "absent")
      /\ MemCommit(t)
      /\ conflicted' = (conflicted \/ ~Fresh(t))
      /\ memTxn' = [memTxn EXCEPT ![c] = IF c \in MemTabs THEN [@ EXCEPT !.at = "ok"] ELSE NoTxn]
      /\ UNCHANGED <<memPage, memLoads, plans, decisions, edits>>

(* Rolled back, or never answered.                                         *)
MemLost(c) ==
  /\ memTxn[c].at \in {"sent", "read", "ok"}
  /\ memTxn' = [memTxn EXCEPT ![c] = IF c \in MemTabs THEN [@ EXCEPT !.at = "refused"] ELSE NoTxn]
  /\ UNCHANGED <<memServer, memPage, memLoads, decisions>>

(* request_membership, one transaction without a race of interest.         *)
request_membership(m) ==
  /\ memStatus[m] = "none"
  /\ memStatus' = [memStatus EXCEPT ![m] = "pending"]
  /\ UNCHANGED <<linked, rv, aged, memPaid, memTxn, conflicted, memPage, memLoads, plans, decisions, edits>>

(* The driver cancels, the provider reports a payment as paid.             *)
DriverOrGateway(c, op, m) ==
  /\ memTxn[c] = NoTxn /\ memStatus[m] \in MemOpen
  /\ <<c, op>> \in {<<"driver", "cancel">>, <<"gateway", "settle">>}
  /\ memTxn' = [memTxn EXCEPT ![c] = MemCall(op, m, "none")]
  /\ UNCHANGED <<memServer, memPage, memLoads, decisions>>

TimePasses(m) ==
  /\ memStatus[m] \in MemOpen /\ m \notin aged
  /\ aged' = aged \cup {m}
  /\ UNCHANGED <<memStatus, linked, rv, memPaid, memTxn, conflicted, memPage, memLoads, plans, decisions, edits>>

(* The tenant registers the plate, or edits its row.                       *)
SaveVehicle(status, tag) ==
  /\ edits < MaxEdits /\ edits' = edits + 1
  /\ rv.status = "absent" => status = "active"
  /\ rv' = TenantRow(status, tag)
  /\ UNCHANGED <<memStatus, linked, aged, memPaid, memTxn, conflicted, memPage, memLoads, plans, decisions>>

(* The tenant deletes the row: ON DELETE SET NULL.                         *)
DeleteVehicle ==
  /\ edits < MaxEdits /\ edits' = edits + 1
  /\ rv.status # "absent"
  /\ rv' = NoRow /\ linked' = {}
  /\ UNCHANGED <<memStatus, aged, memPaid, memTxn, conflicted, memPage, memLoads, plans, decisions>>
-----------------------------------------------------------------------------
(* The page.  key stands for what a tab selects: the status and the site   *)
(* of the requests and of the payments, the site of the plans.  A row is   *)
(* shown with the status it had.  The overlay of a dialog hides the page.  *)

NoMemDialog == [kind |-> "none", m |-> "none"]
NewMemPage == [tab |-> "requests", dialog |-> NoMemDialog,
               key |-> [t \in MemTabs |-> IF t = "plans" THEN "none" ELSE "all"],
               rows |-> [m \in Mems |-> "none"], paid |-> {}, plans |-> {}]
MemLoad(tab, key, by) == [tab |-> tab, key |-> key, by |-> by, served |-> FALSE,
                          rows |-> NewMemPage.rows, paid |-> {}, plans |-> {}]

(* acting, refunding and savingPlan: from the press until the reload that  *)
(* follows has ended.                                                      *)
Acting(tab) == memTxn[tab] # NoTxn \/ \E r \in memLoads : r.tab = tab /\ r.by = "after"

(* loadMemberships, loadPayments, loadPlans.                               *)
MemReload(tab, key, by) == IF key = "none" THEN {} ELSE {MemLoad(tab, key, by)}

(* The effects: the requests load when their filter changes, the other     *)
(* tabs also when they are entered.                                        *)
setMemTab(tab) ==
  /\ memPage.dialog = NoMemDialog /\ tab # memPage.tab
  /\ memPage' = [memPage EXCEPT !.tab = tab]
  /\ memLoads' = IF tab = "requests" THEN memLoads
                 ELSE memLoads \cup MemReload(tab, memPage.key[tab], "effect")
  /\ UNCHANGED <<memServer, memTxn, decisions>>

setMemFilter(key) ==
  LET tab == memPage.tab
  IN  /\ memPage.dialog = NoMemDialog /\ key # memPage.key[tab]
      /\ memPage' = [memPage EXCEPT !.key[tab] = key, !.plans = IF key = "none" THEN {} ELSE @]
      /\ memLoads' = memLoads \cup MemReload(tab, key, "effect")
      /\ UNCHANGED <<memServer, memTxn, decisions>>

RefreshRequests ==
  /\ memPage.dialog = NoMemDialog
  /\ memLoads' = memLoads \cup MemReload("requests", memPage.key["requests"], "button")
  /\ memLoads' # memLoads
  /\ UNCHANGED <<memServer, memTxn, memPage, decisions>>

(* The buttons of a request, of a payment and of the plans.                *)
RowActions ==
  {d \in [kind : {"activate", "reject"}, m : Mems] : memPage.rows[d.m] = "pending"} \cup
  {d \in [kind : {"revoke"}, m : Mems] : memPage.rows[d.m] = "active"}
RefundActions == [kind : {"refund"}, m : memPage.paid]
PlanActions ==
  [kind : {"plan"}, m : memPage.plans \cup ({memPage.key["plans"]} \ {"none"})]

MemButtons(tab) ==
  CASE tab = "requests" -> RowActions [] tab = "payments" -> RefundActions [] OTHER -> PlanActions

OpenMemDialog(d) ==
  /\ memPage.dialog = NoMemDialog /\ d \in MemButtons(memPage.tab)
  /\ memPage' = [memPage EXCEPT !.dialog = d]
  /\ UNCHANGED <<memServer, memTxn, memLoads, decisions>>

CancelMemDialog ==
  /\ memPage.dialog # NoMemDialog
  /\ memPage' = [memPage EXCEPT !.dialog = NoMemDialog]
  /\ UNCHANGED <<memServer, memTxn, memLoads, decisions>>

MemConfirm(tab) ==
  /\ memPage.dialog # NoMemDialog /\ memPage.tab = tab /\ ~Acting(tab)
  /\ decisions < MaxDecisions /\ decisions' = decisions + 1
  /\ memTxn' = [memTxn EXCEPT ![tab] =
       MemCall(memPage.dialog.kind, memPage.dialog.m, memPage.key[tab])]
  /\ UNCHANGED <<memServer, memPage, memLoads>>

runAction == MemConfirm("requests")
runRefund == MemConfirm("payments")
savePlan == MemConfirm("plans")

(* create_plan and update_plan.                                            *)
PlanSaved ==
  /\ memTxn["plans"].at = "sent"
  /\ plans' = plans \cup {memTxn["plans"].m}
  /\ memTxn' = [memTxn EXCEPT !["plans"].at = "ok"]
  /\ UNCHANGED <<memStatus, linked, rv, aged, memPaid, conflicted, memPage, memLoads, decisions, edits>>

(* Success closes the dialog of the tab, whichever row it is for by now,   *)
(* and reloads with the filter of the render in which it was confirmed.    *)
ActionAnswered(tab) ==
  LET t == memTxn[tab]
  IN  /\ t.at \in {"ok", "refused"}
      /\ memTxn' = [memTxn EXCEPT ![tab] = NoTxn]
      /\ IF t.at = "refused" THEN UNCHANGED <<memPage, memLoads>>
         ELSE /\ memPage' = [memPage EXCEPT !.dialog = IF memPage.tab = tab THEN NoMemDialog ELSE @]
              /\ memLoads' = memLoads \cup MemReload(tab, t.key, "after")
      /\ UNCHANGED <<memServer, decisions>>

(* list_memberships sweeps before it reads.                                *)
MemLoadServed(r) ==
  LET sweep == [NoTxn EXCEPT !.op = "list", !.expired = StaleMems("active"), !.dropped = StaleMems("pending")]
  IN  /\ ~r.served
      /\ IF r.tab = "requests" THEN MemCommit(sweep) ELSE UNCHANGED <<memStatus, rv, linked, aged, memPaid>>
      /\ memLoads' = (memLoads \ {r}) \cup {[r EXCEPT !.served = TRUE, !.paid = memPaid,
           !.rows = [m \in Mems |-> IF r.key \in {"all", memStatus'[m]} THEN memStatus'[m] ELSE "none"],
           !.plans = plans \cap {r.key}]}
      /\ UNCHANGED <<conflicted, memTxn, memPage, plans, decisions, edits>>

MemLoadAnswered(r) ==
  /\ r.served /\ memLoads' = memLoads \ {r}
  /\ memPage' = CASE r.tab = "requests" -> [memPage EXCEPT !.rows = r.rows]
                  [] r.tab = "payments" -> [memPage EXCEPT !.paid = r.paid]
                  [] OTHER -> [memPage EXCEPT !.plans = r.plans]
  /\ UNCHANGED <<memServer, memTxn, decisions>>

MemLoadFails(r) ==
  /\ memLoads' = memLoads \ {r}
  /\ UNCHANGED <<memServer, memTxn, memPage, decisions>>

-----------------------------------------------------------------------------
VehicleRows == {NoRow} \cup {TenantRow("active", tag) : tag \in {"standard", "blacklist"}}

(* The tenant may have registered, or blacklisted, the plate before.       *)
MembersInit(status, row) ==
  /\ memStatus = [m \in Mems |-> status] /\ linked = {} /\ rv = row
  /\ aged = {} /\ memPaid = {} /\ plans = {} /\ conflicted = FALSE /\ edits = 0
  /\ memTxn = [c \in MemParties |-> NoTxn]
  /\ memPage = NewMemPage /\ memLoads = {MemLoad("requests", "all", "effect")} /\ decisions = 0

ServiceStep ==
  \/ \E c \in MemParties : MemBegin(c) \/ MemFinish(c) \/ MemLost(c)
  \/ \E m \in Mems : request_membership(m) \/ TimePasses(m)
  \/ \E c \in MemParties, op \in {"cancel", "settle"}, m \in Mems : DriverOrGateway(c, op, m)
  \/ \E status \in {"active", "suspended"}, tag \in {"standard", "blacklist"} : SaveVehicle(status, tag)
  \/ DeleteVehicle \/ PlanSaved

PageStep ==
  \/ \E tab \in MemTabs : setMemTab(tab) \/ ActionAnswered(tab)
  \/ \E key \in {"all", "pending"} : memPage.tab # "plans" /\ setMemFilter(key)
  \/ \E key \in Mems \cup {"none"} : memPage.tab = "plans" /\ setMemFilter(key)
  \/ \E tab \in MemTabs : \E d \in MemButtons(tab) : OpenMemDialog(d)
  \/ CancelMemDialog \/ RefreshRequests \/ runAction \/ runRefund \/ savePlan
  \/ \E r \in memLoads : MemLoadServed(r) \/ MemLoadAnswered(r) \/ MemLoadFails(r)

MembersNext == ServiceStep \/ PageStep

MembersBegin ==
  \E status \in {"none", "pending"}, row \in VehicleRows : MembersInit(status, row)

MembersSpec == MembersBegin /\ [][MembersNext]_memVars

-----------------------------------------------------------------------------
(* One membership at most holds the plate's row, and a row that the        *)
(* service has written since the tenant last did lets the car in exactly   *)
(* while one does: through every sequence of decisions, payments, refunds, *)
(* cancellations, expiries and edits by the tenant, overlapping ones       *)
(* included, the supersession of LOGIC-MEM-001 ("revoke any *other* active *)
(* membership") and a row that was the tenant's before.  No handler locks  *)
(* what it reads, so it holds until one commits over a change it has not   *)
(* seen.                                                                   *)
WhitelistFollows ==
  ~conflicted =>
    /\ \A m, n \in Holders : m = n
    /\ rv.by = "service" => (rv.status = "active" <=> Holders # {})

(* "The blacklist tag takes precedence": while the tenant has the plate on *)
(* the blacklist no membership becomes active, by an operator or by a      *)
(* payment (_activate_membership_row), with the same proviso.              *)
BlacklistHolds ==
  [][rv.tag = "blacklist" /\ ~conflicted' =>
       \A m \in Mems : memStatus'[m] = "active" => memStatus[m] = "active"]_memVars

(* Expected violations: the same without the proviso.  A driver's cancel   *)
(* that read `pending' overwrites the activation that committed meanwhile  *)
(* and leaves the plate on the whitelist; an activation that read the row  *)
(* before the tenant blacklisted it makes it a member's row again.         *)
WhitelistFollowsAlways ==
  rv.by = "service" /\ rv.status = "active" => Holders # {}
BlacklistHoldsAlways ==
  [][rv.tag = "blacklist" =>
       \A m \in Mems : memStatus'[m] = "active" => memStatus[m] = "active"]_memVars
=============================================================================
