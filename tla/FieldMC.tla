------------------------------- MODULE FieldMC -------------------------------
(***************************************************************************)
(* Memberships, the payments of the driver app and the edge devices for    *)
(* TLC.  A behaviour has a scope, in which the steps of one of them        *)
(* happen.  As in PagesMC, the In... conditions bound what overlaps, and   *)
(* never remove the answer to a request that is under way.                 *)
(***************************************************************************)
EXTENDS Memberships, DriverPay, EdgeDevices

CONSTANT Scopes    \* those of the instance

VARIABLE scope

MemScopes == {"decisions", "refunds", "plans", "overlap"}
PayScopes == {"wallet", "leave", "card", "slow"}
DeviceScopes == {"devices", "activation", "codes", "kiosk"}

(* One handler of a membership at a time, except in "overlap".             *)
Handled == {c \in MemParties : memTxn[c] # NoTxn}
Undisturbed == memLoads # {} \/ (memPage.dialog # NoMemDialog /\ Handled = {})

InMembers ==
  /\ scope # "overlap" => Cardinality(Handled') <= 1 /\ UNCHANGED edits
  /\ scope \notin {"decisions", "overlap"} => aged' = {}
  /\ scope = "overlap" => UNCHANGED <<memLoads, memPage>> /\ Cardinality(aged') <= 1
  /\ scope = "decisions" =>
       /\ memPage'.tab = "requests" /\ memPage'.key = NewMemPage.key /\ Cardinality(aged') <= 1
       /\ Undisturbed => Handled' \subseteq Handled \cup {"requests"} /\ aged' \subseteq aged
       /\ \A r \in memLoads' : r.by # "button"
  /\ scope = "refunds" =>
       /\ Handled' \subseteq {"gateway", "payments"} /\ memPage'.key = NewMemPage.key
       /\ memPage'.tab # "plans" /\ memPage'.dialog.kind \in {"none", "refund"}
       /\ Cardinality(memLoads') <= 1
       /\ Undisturbed => Handled' \subseteq Handled \cup {"payments"}
  /\ scope = "plans" =>
       /\ Handled' \subseteq {"plans"} /\ memPage'.tab # "payments"
       /\ memPage'.dialog.kind \in {"none", "plan"} /\ Cardinality(memLoads') <= 1
       /\ memPage'.dialog # NoMemDialog => memLoads' = {}
       /\ Handled' # {} => memPage'.tab = "plans"
       /\ memStatus' # memStatus => memPage = NewMemPage

(* Paying in the dialog, leaving and closing it, paying for a membership   *)
(* on its card, or paying for it twice with a slow network, where polls of *)
(* a hook overlap.                                                         *)
PayUnderWay == Cardinality(payPosts) + Cardinality(payFetches) + Cardinality(listLoads)

InPay ==
  /\ presses' > presses => PayUnderWay <= 1
  /\ hooks'["wallet"].enabled # hooks["wallet"].enabled =>
       (PayUnderWay = 0 /\ payPolls = {}) \/ hooks'["wallet"] = NoHook
  /\ scope = "wallet" =>
       /\ \A r \in payPosts' : r.hook = "wallet"
       /\ \A r \in listLoads' : r.by # "cancel"
       /\ presses' > presses => payFetches = {} /\ listLoads = {}
       /\ hooks["wallet"].enabled => hooks'["wallet"].enabled
       /\ ~hooks'["wallet"].off
  /\ scope = "leave" =>
       /\ \A r \in payPosts' : r.hook # "app"
       /\ \A r \in listLoads' : r.by # "cancel"
       /\ presses' <= 1 /\ (presses' > presses => payFetches = {})
       /\ (hooks'["wallet"] = NoHook /\ hooks' # hooks) => payFetches = {} /\ listLoads = {}
       /\ hooks'["wallet"] = NoHook => presses = 1
  /\ scope # "slow" => \A q, r \in payPolls' : q.hook = r.hook => q = r
  /\ scope = "slow" =>
       /\ \A r \in listLoads' : r.by # "cancel"
       /\ presses' > presses \/ Cardinality(payPolls') > Cardinality(payPolls) =>
            payFetches = {} /\ listLoads = {}
  /\ scope \in {"card", "slow"} =>
       /\ ~hooks'["wallet"].enabled /\ purse = 0
       /\ (\E r \in listLoads' \ listLoads : r.by = "cancel") => PayUnderWay = 0

(* The page alone, activations of two clients, codes for two devices, or   *)
(* the life of one client.                                                 *)
Opens(kinds) == deviceDialog = NoDeviceDialog /\ deviceDialog'.kind \in kinds

InDevices ==
  /\ scope # "activation" => expired' = {} /\ kiosk'["e2"] = Factory
  /\ Opens({"create", "edit", "revoke", "reboot", "decommission", "reactivate", "delete"}) =>
       deviceOps = {} /\ issues = {}
  /\ scope = "devices" =>
       UNCHANGED <<kiosk, issues>> /\ bound' \subseteq bound
  /\ scope = "codes" => deviceDialog'.kind \in {"none", "code"} /\ UNCHANGED kiosk
  /\ scope = "activation" =>
       /\ deviceDialog'.kind \in {"none", "code"} /\ Cardinality(expired') <= 1
       /\ \A e \in Kiosks : ~kiosk'[e].lock /\ ~kiosk'[e].online /\ kiosk'[e].boot # "asking"
       /\ issues' # {} => kiosk'["e2"] = Factory
  /\ scope = "kiosk" =>
       /\ deviceDialog'.kind \in {"none", "code", "revoke", "decommission", "delete"}
       /\ Opens({"code"}) => issues = {} /\ deviceOps = {} /\ kiosk["e1"] = Factory
       /\ Cardinality(issues') <= 1

-----------------------------------------------------------------------------
MCInit ==
  /\ scope \in Scopes
  /\ \E row \in VehicleRows :
       /\ scope \in {"plans", "refunds"} => row = NoRow
       /\ MembersInit(IF scope = "plans" THEN "none" ELSE "pending", row)
  /\ PayInit({IF scope \in {"card", "slow"} THEN "membership" ELSE "session"},
             IF scope = "leave" THEN 1 ELSE 0)
  /\ DevicesInit(IF scope = "codes" THEN {"d1", "d2"} ELSE {"d1"})

MCNext ==
  /\ \/ scope \in MemScopes /\ MembersNext /\ InMembers /\ UNCHANGED <<payVars, deviceVars>>
     \/ scope \in PayScopes /\ PayNext /\ InPay /\ UNCHANGED <<memVars, deviceVars>>
     \/ scope \in DeviceScopes /\ DevicesNext /\ InDevices /\ UNCHANGED <<memVars, payVars>>
  /\ UNCHANGED scope

MCSpec == MCInit /\ [][MCNext]_<<memVars, payVars, deviceVars, scope>> /\ PayFairness
KioskSpec == MCSpec /\ KioskFairness
=============================================================================
