----------------------------- MODULE EdgeDevices -----------------------------
(***************************************************************************)
(* Edge devices: the tenant's page (TenantEdgeDevicesPage.tsx and its      *)
(* dialogs), the device handlers of gates.py, activation codes and keys    *)
(* (edge.py, activation_service.py), and the edge client from its set-up   *)
(* screen to the wiping of its configuration (App.tsx, SetupScreen.tsx,    *)
(* LockScreen.tsx, activation.rs, the sync task of runtime.rs).            *)
(*                                                                         *)
(* A code and the key it is exchanged for have one name.  A handler that   *)
(* reads and then writes takes two steps; consumed_at is written under the *)
(* row's lock.  Fields of a device other than its status are left out.     *)
(***************************************************************************)
EXTENDS Integers, FiniteSets

CONSTANTS
  DeviceIds, Codes,
  Kiosks,           \* edge clients
  MaxDeviceOps,     \* requests of the page under way at once
  MaxIssues         \* of them, activation codes

VARIABLES
  deviceRows,       \* edge_devices
  tenantDevices,    \* as loaded
  deviceOps,
  bound,            \* devices with a gate
  codes,            \* device_activation_codes
  expired,          \* codes past expires_at
  keys,             \* api_credentials of devices
  spent,            \* how often consumed_at of a code was written
  issues,           \* POST activation-codes under way
  deviceDialog,     \* the dialog that is open, its device, isLoading
  issued,           \* the code that ActivationCodeDialog shows
  toldCodes,        \* codes an operator has seen
  rebootTimer,      \* RebootDeviceDialog is about to close itself
  kiosk             \* the clients

serverKeys == <<bound, codes, expired, keys, spent>>
dialogVars == <<deviceDialog, issued, toldCodes, rebootTimer>>
deviceVars == <<deviceRows, tenantDevices, deviceOps, serverKeys, issues, dialogVars, kiosk>>

D == INSTANCE TenantReload
       WITH rows <- deviceRows, view <- tenantDevices, ops <- deviceOps, MaxOps <- MaxDeviceOps

NoDeviceDialog == [kind |-> "none", id |-> "none", loading |-> FALSE]
Live(d) == \E r \in deviceRows : r.id = d /\ r.status # "decommissioned"
OpenCodes(d) == {c \in Codes : codes[c] = [device |-> d, at |-> "open"]}

-----------------------------------------------------------------------------
(* The device handlers.                                                    *)

createTenantDevice == D!Begin("create", "new", {})
updateTenantDevice(d) == D!Begin("edit", d, {})
decommissionTenantDevice(d) == D!Begin("decommission", d, {})
reactivateTenantDevice(d) == D!Begin("reactivate", d, {})
deleteTenantDevice(d) == D!Begin("delete", d, {})
rebootTenantDevice(d) == D!Begin("reboot", d, {})
revokeDeviceToken(d) == D!Begin("revoke", d, {})

WithStatus(d, status) == {IF r.id = d THEN [r EXCEPT !.status = status] ELSE r : r \in deviceRows}

decommission_device(d) == IF Live(d) THEN {WithStatus(d, "decommissioned")} ELSE {}
reactivate_device(d) ==
  IF D!Row(d) # {} /\ ~Live(d) THEN {WithStatus(d, "provisioning")} ELSE {}
delete_device(d) ==
  IF D!Row(d) # {} /\ ~Live(d) /\ d \notin bound THEN {deviceRows \ D!Row(d)} ELSE {}
register_device ==
  {deviceRows \cup {[id |-> d, status |-> "provisioning"]} : d \in {d \in DeviceIds : D!Row(d) = {}}}

(* reboot_device sends commands to the gates (GateCommand).                *)
DeviceResults(op) ==
  CASE op.kind = "create" -> register_device
    [] op.kind = "decommission" -> decommission_device(op.id)
    [] op.kind = "reactivate" -> reactivate_device(op.id)
    [] op.kind = "delete" -> delete_device(op.id)
    [] op.kind = "reboot" -> IF Live(op.id) THEN {deviceRows} ELSE {}
    [] OTHER -> IF D!Row(op.id) # {} THEN {deviceRows} ELSE {}

(* Gates are detached from a retired device; the codes of a deleted device *)
(* go with it, its keys stay (ON DELETE SET NULL); revoke_device_token.    *)
Consequences(op) ==
  /\ bound' = IF op.kind = "decommission" THEN bound \ {op.id} ELSE bound
  /\ codes' = [c \in Codes |-> IF op.kind = "delete" /\ codes[c].device = op.id
                               THEN [device |-> "none", at |-> "gone"] ELSE codes[c]]
  /\ keys' = [c \in Codes |->
       CASE op.kind = "delete" /\ keys[c].device = op.id -> [keys[c] EXCEPT !.device = "none"]
         [] op.kind = "revoke" /\ keys[c].device = op.id -> [keys[c] EXCEPT !.status = "revoked"]
         [] OTHER -> keys[c]]
  /\ UNCHANGED <<expired, spent>>

(* useAction: a success closes the dialog of that kind, whichever device   *)
(* it shows by now; RebootDeviceDialog leaves that to a timer.             *)
Answered(kind, ok) ==
  /\ deviceDialog' = IF deviceDialog.kind # kind THEN deviceDialog
                     ELSE IF ok /\ kind # "reboot" THEN NoDeviceDialog
                     ELSE [deviceDialog EXCEPT !.loading = FALSE]
  /\ rebootTimer' = (rebootTimer \/ (ok /\ kind = "reboot"))
  /\ UNCHANGED <<issued, toldCodes>>

(* A revocation is not followed by a reload.                               *)
DeviceRequests ==
  \E op \in deviceOps :
    \/ /\ \E new \in DeviceResults(op) :
            IF op.kind = "revoke" THEN D!AnswerLost(op, new) /\ Answered("revoke", TRUE)
            ELSE D!Served(op, new) /\ UNCHANGED dialogVars
       /\ Consequences(op) /\ UNCHANGED <<issues, kiosk>>
    \/ /\ \E new \in DeviceResults(op) : D!AnswerLost(op, new)
       /\ Consequences(op) /\ Answered(op.kind, FALSE) /\ UNCHANGED <<issues, kiosk>>
    \/ D!Fails(op) /\ Answered(op.kind, FALSE) /\ UNCHANGED <<serverKeys, issues, kiosk>>
    \/ D!LoadServed(op) /\ UNCHANGED <<serverKeys, issues, dialogVars, kiosk>>
    \/ D!LoadEnds(op) /\ Answered(op.kind, TRUE) /\ UNCHANGED <<serverKeys, issues, kiosk>>

-----------------------------------------------------------------------------
(* create_activation_code: the UPDATE that supersedes the open codes of    *)
(* the device locks their rows, the new one is inserted at the commit.     *)

Locked == UNION {i.supersedes : i \in {i \in issues : i.at = "open"}}

IssueBegin(i) ==
  /\ i.at = "sent" /\ OpenCodes(i.id) \cap Locked = {}
  /\ issues' = (issues \ {i}) \cup {[i EXCEPT
       !.at = IF D!Row(i.id) = {} THEN "failed" ELSE "open", !.supersedes = OpenCodes(i.id)]}
  /\ UNCHANGED <<deviceRows, tenantDevices, deviceOps, serverKeys, dialogVars, kiosk>>

IssueCommit(i) ==
  /\ i.at = "open"
  /\ IF D!Row(i.id) = {}
     THEN issues' = (issues \ {i}) \cup {[i EXCEPT !.at = "failed"]} /\ UNCHANGED <<codes, spent>>
     ELSE \E new \in {c \in Codes : codes[c].at = "none"} :
            /\ codes' = [c \in Codes |-> CASE c = new -> [device |-> i.id, at |-> "open"]
                                           [] c \in i.supersedes -> [codes[c] EXCEPT !.at = "spent"]
                                           [] OTHER -> codes[c]]
            /\ spent' = [c \in Codes |-> IF c \in i.supersedes THEN spent[c] + 1 ELSE spent[c]]
            /\ issues' = (issues \ {i}) \cup {[i EXCEPT !.at = "ok", !.code = new]}
  /\ UNCHANGED <<deviceRows, tenantDevices, deviceOps, bound, expired, keys, dialogVars, kiosk>>

IssueLost(i) ==
  /\ i.at \in {"sent", "ok"}
  /\ issues' = (issues \ {i}) \cup {[i EXCEPT !.at = "failed"]}
  /\ UNCHANGED <<deviceRows, tenantDevices, deviceOps, serverKeys, dialogVars, kiosk>>

(* setIssued: the dialog is a component of the page, open or not, and      *)
(* shows whatever arrives.                                                 *)
IssueAnswered(i) ==
  /\ i.at \in {"ok", "failed"} /\ issues' = issues \ {i}
  /\ issued' = IF i.at = "ok" THEN i.code ELSE issued
  /\ toldCodes' = IF i.at = "ok" /\ deviceDialog.kind = "code" THEN toldCodes \cup {i.code}
                  ELSE toldCodes
  /\ deviceDialog' = IF deviceDialog.kind = "code" THEN [deviceDialog EXCEPT !.loading = FALSE]
                     ELSE deviceDialog
  /\ UNCHANGED <<deviceRows, tenantDevices, deviceOps, serverKeys, rebootTimer, kiosk>>

generateDeviceActivationCode ==
  /\ deviceDialog.kind = "code" /\ ~deviceDialog.loading /\ issued = "none"
  /\ \E n \in 1..MaxIssues :
       /\ \A i \in issues : i.n # n
       /\ issues' = issues \cup {[n |-> n, id |-> deviceDialog.id, at |-> "sent",
                                  supersedes |-> {}, code |-> "none"]}
  /\ deviceDialog' = [deviceDialog EXCEPT !.loading = TRUE]
  /\ UNCHANGED <<deviceRows, tenantDevices, deviceOps, serverKeys, issued, toldCodes, rebootTimer, kiosk>>

-----------------------------------------------------------------------------
(* The page.                                                               *)

DeviceFilters == {"ALL", "provisioning", "decommissioned"}
filteredDevices(f) == {r \in tenantDevices : f \in {"ALL", r.status}}

DeviceButtons(r) ==
  {"edit"} \cup IF r.status = "decommissioned" THEN {"reactivate", "delete"}
                ELSE {"code", "revoke", "reboot", "decommission"}

(* The effects on [isOpen] reset isLoading, but not that of the two forms, *)
(* and the code.                                                           *)
OpenDeviceDialog(kind, d) ==
  /\ deviceDialog = NoDeviceDialog
  /\ \/ kind = "create" /\ d = "none"
     \/ \E f \in DeviceFilters : \E r \in filteredDevices(f) :
          d = r.id /\ kind \in DeviceButtons(r)
  /\ deviceDialog' = [kind |-> kind, id |-> d,
                      loading |-> kind \in {"create", "edit"} /\ \E op \in deviceOps : op.kind = kind]
  /\ issued' = IF kind = "code" THEN "none" ELSE issued
  /\ UNCHANGED <<deviceRows, tenantDevices, deviceOps, serverKeys, issues, toldCodes, rebootTimer, kiosk>>

CloseDeviceDialog ==
  /\ deviceDialog # NoDeviceDialog /\ deviceDialog' = NoDeviceDialog
  /\ UNCHANGED <<deviceRows, tenantDevices, deviceOps, serverKeys, issues, issued, toldCodes, rebootTimer, kiosk>>

(* setTimeout(onClose, 1200) of a reboot, also of a dialog opened since.   *)
RebootTimer ==
  /\ rebootTimer /\ rebootTimer' = FALSE
  /\ deviceDialog' = IF deviceDialog.kind = "reboot" THEN NoDeviceDialog ELSE deviceDialog
  /\ UNCHANGED <<deviceRows, tenantDevices, deviceOps, serverKeys, issues, issued, toldCodes, kiosk>>

DialogConfirmed(kind, request) ==
  /\ deviceDialog.kind = kind /\ ~deviceDialog.loading /\ request
  /\ deviceDialog' = [deviceDialog EXCEPT !.loading = TRUE]
  /\ UNCHANGED <<serverKeys, issues, issued, toldCodes, rebootTimer, kiosk>>

RegisterDeviceModal == DialogConfirmed("create", createTenantDevice)
EditDeviceModal == DialogConfirmed("edit", updateTenantDevice(deviceDialog.id))
RebootDeviceDialog == DialogConfirmed("reboot", rebootTenantDevice(deviceDialog.id))
DecommissionDeviceDialog == DialogConfirmed("decommission", decommissionTenantDevice(deviceDialog.id))
ReactivateDeviceDialog == DialogConfirmed("reactivate", reactivateTenantDevice(deviceDialog.id))
RevokeTokenDialog == DialogConfirmed("revoke", revokeDeviceToken(deviceDialog.id))
DeleteDeviceDialog == DialogConfirmed("delete", deleteTenantDevice(deviceDialog.id))

(* A gate is assigned to a device elsewhere; codes live for a day.         *)
AssignGate(d) ==
  /\ d \notin bound /\ D!Row(d) # {} /\ bound' = bound \cup {d}
  /\ UNCHANGED <<deviceRows, tenantDevices, deviceOps, codes, expired, keys, spent, issues, dialogVars, kiosk>>
CodeExpires(c) ==
  /\ codes[c].at = "open" /\ c \notin expired /\ expired' = expired \cup {c}
  /\ UNCHANGED <<deviceRows, tenantDevices, deviceOps, bound, codes, keys, spent, issues, dialogVars, kiosk>>

-----------------------------------------------------------------------------
(* The edge client.  key: the configuration on disk; boot: the runtime is  *)
(* off, asking GET /edge/config, or on; lock: a screen password is set;    *)
(* redeem: POST /edge/activate with a code.                                *)

Idle == [code |-> "none", at |-> "idle"]
Factory == [key |-> "none", boot |-> "off", online |-> FALSE, lock |-> FALSE,
            screen |-> "setup", redeem |-> Idle]
ToKiosk(e, k) ==
  /\ kiosk' = [kiosk EXCEPT ![e] = k]
  /\ UNCHANGED <<deviceRows, tenantDevices, deviceOps, issues, dialogVars>>

(* SetupScreen: the password first, then the code.                         *)
submit(e, c, password) ==
  /\ kiosk[e].screen = "setup" /\ kiosk[e].redeem = Idle /\ c \in toldCodes
  /\ ToKiosk(e, [kiosk[e] EXCEPT !.lock = password, !.redeem = [code |-> c, at |-> "sent"]])
  /\ UNCHANGED serverKeys

(* edge_activate up to the refusals; nothing is consumed by them, the one  *)
(* for an address that is not the code's allowed_ip (admitted) included.   *)
Redeemable(c) == codes[c].at = "open" /\ c \notin expired /\ Live(codes[c].device) /\ codes[c].device \in bound
RedeemRead(e) ==
  /\ kiosk[e].redeem.at = "sent"
  /\ \E admitted \in BOOLEAN :
       ToKiosk(e, [kiosk[e] EXCEPT !.redeem.at =
         IF Redeemable(kiosk[e].redeem.code) /\ admitted THEN "read" ELSE "refused"])
  /\ UNCHANGED serverKeys

(* A mutant: the consumption is not conditional.                           *)
ConsumeAny(c) == codes[c].at # "gone"

(* consume_activation_code: WHERE consumed_at IS NULL, or the row is gone. *)
consume_activation_code(c) == codes[c].at = "open"

RedeemCommit(e) ==
  LET c == kiosk[e].redeem.code
      ok == consume_activation_code(c)
  IN  /\ kiosk[e].redeem.at = "read" /\ c \notin Locked
      /\ ToKiosk(e, [kiosk[e] EXCEPT !.redeem.at = IF ok THEN "ok" ELSE "refused"])
      /\ codes' = IF ok THEN [codes EXCEPT ![c].at = "spent"] ELSE codes
      /\ spent' = IF ok THEN [spent EXCEPT ![c] = @ + 1] ELSE spent
      /\ keys' = IF ok THEN [keys EXCEPT ![c] = [status |-> "active", device |-> codes[c].device]] ELSE keys
      /\ UNCHANGED <<bound, expired>>

(* activate saves the configuration and boots, and the screen follows.     *)
Activated(e) ==
  /\ kiosk[e].redeem.at = "ok"
  /\ ToKiosk(e, [kiosk[e] EXCEPT !.key = kiosk[e].redeem.code, !.boot = "on", !.online = FALSE,
                                 !.screen = "operator", !.redeem = Idle])
  /\ UNCHANGED serverKeys
ActivationFails(e) ==
  /\ kiosk[e].redeem.at \in {"sent", "ok", "refused"}
  /\ ToKiosk(e, [kiosk[e] EXCEPT !.redeem = Idle])
  /\ UNCHANGED serverKeys

(* The app starts: App.tsx chooses the screen, refresh_and_boot asks.      *)
Restart(e) ==
  /\ kiosk[e].boot = "on"
  /\ ToKiosk(e, [kiosk[e] EXCEPT !.boot = "asking", !.online = FALSE,
                                 !.screen = IF kiosk[e].lock THEN "locked" ELSE "operator"])
  /\ UNCHANGED serverKeys

(* _resolve_api_key; the sync looks at the key alone (edge_ctx),           *)
(* /edge/config and the broker's hook at its device as well.               *)
authenticate_api_key(c) == keys[c].status = "active"
edge_config(c) == authenticate_api_key(c) /\ Live(keys[c].device)
mqtt_auth(c) == authenticate_api_key(c) /\ D!Row(keys[c].device) # {}

refresh_and_boot(e) ==
  /\ kiosk[e].boot = "asking"
  /\ \/ ToKiosk(e, [kiosk[e] EXCEPT !.boot = "on"])       \* the bundle, or no answer
     \/ ~edge_config(kiosk[e].key) /\ ToKiosk(e, Factory)
  /\ UNCHANGED serverKeys

MqttDrops(e) ==
  /\ kiosk[e].online /\ ToKiosk(e, [kiosk[e] EXCEPT !.online = FALSE]) /\ UNCHANGED serverKeys
MqttConnects(e) ==
  /\ kiosk[e].boot = "on" /\ ~kiosk[e].online /\ mqtt_auth(kiosk[e].key)
  /\ ToKiosk(e, [kiosk[e] EXCEPT !.online = TRUE]) /\ UNCHANGED serverKeys

(* The sync task runs only while the broker is connected; a 401 wipes the  *)
(* configuration and the lock (deprovision_inner) and shows the set-up.    *)
SyncRefused(e) ==
  /\ kiosk[e].boot = "on" /\ kiosk[e].online /\ ~authenticate_api_key(kiosk[e].key)
  /\ ToKiosk(e, Factory) /\ UNCHANGED serverKeys

(* LockScreen, and the button of OperatorScreen.                           *)
unlock(e) ==
  /\ kiosk[e].screen = "locked"
  /\ ToKiosk(e, [kiosk[e] EXCEPT !.screen = "operator"]) /\ UNCHANGED serverKeys
lockNow(e) ==
  /\ kiosk[e].screen = "operator" /\ kiosk[e].lock
  /\ ToKiosk(e, [kiosk[e] EXCEPT !.screen = "locked"]) /\ UNCHANGED serverKeys

-----------------------------------------------------------------------------
DevicesInit(ids) ==
  /\ deviceRows = [id : ids, status : {"provisioning"}] /\ bound = ids
  /\ tenantDevices = deviceRows /\ deviceOps = {}
  /\ codes = [c \in Codes |-> [device |-> "none", at |-> "none"]] /\ expired = {}
  /\ keys = [c \in Codes |-> [status |-> "none", device |-> "none"]]
  /\ spent = [c \in Codes |-> 0] /\ issues = {}
  /\ deviceDialog = NoDeviceDialog /\ issued = "none" /\ toldCodes = {} /\ rebootTimer = FALSE
  /\ kiosk = [e \in Kiosks |-> Factory]

DevicesPage ==
  \/ DeviceRequests \/ generateDeviceActivationCode \/ CloseDeviceDialog \/ RebootTimer
  \/ \E i \in issues : IssueBegin(i) \/ IssueCommit(i) \/ IssueLost(i) \/ IssueAnswered(i)
  \/ \E kind \in {"create", "edit", "code", "revoke", "reboot", "decommission", "reactivate", "delete"} :
       \E d \in DeviceIds \cup {"none"} : OpenDeviceDialog(kind, d)
  \/ RegisterDeviceModal \/ EditDeviceModal \/ RebootDeviceDialog \/ DecommissionDeviceDialog
  \/ ReactivateDeviceDialog \/ RevokeTokenDialog \/ DeleteDeviceDialog
  \/ \E d \in DeviceIds : AssignGate(d)
  \/ \E c \in Codes : CodeExpires(c)

KioskStep(e) ==
  \/ \E c \in Codes, password \in BOOLEAN : submit(e, c, password)
  \/ RedeemRead(e) \/ RedeemCommit(e) \/ Activated(e) \/ ActivationFails(e)
  \/ Restart(e) \/ refresh_and_boot(e) \/ MqttDrops(e) \/ MqttConnects(e) \/ SyncRefused(e)
  \/ unlock(e) \/ lockNow(e)

DevicesNext == DevicesPage \/ \E e \in Kiosks : KioskStep(e)

DevicesSpec == (\E ids \in SUBSET DeviceIds : DevicesInit(ids)) /\ [][DevicesNext]_deviceVars

-----------------------------------------------------------------------------
(* A code is used up once, by one client or by a newer code: however       *)
(* activations of several clients, new codes, expiry, retirement and       *)
(* deletion of the device overlap, no code is exchanged twice, and none    *)
(* after it was superseded ("two devices cannot redeem the same code").    *)
CodeSpentOnce == \A c \in Codes : spent[c] <= 1

(* ActivationCodeDialog shows the code of the device in its title.         *)
CodeOfDialog ==
  deviceDialog.kind = "code" /\ issued # "none" => codes[issued].device \in {deviceDialog.id, "none"}

(* "Only decommissioned devices ... can be deleted", "retire a device": a  *)
(* device that is retired or deleted is not connected with a key.          *)
RetiredShutOut ==
  \A e \in Kiosks : kiosk[e].online /\ authenticate_api_key(kiosk[e].key) => Live(keys[kiosk[e].key].device)

(* An edge client that is running boots, connects and syncs at last.       *)
KioskFairness ==
  \A e \in Kiosks : /\ WF_deviceVars(refresh_and_boot(e)) /\ WF_deviceVars(MqttConnects(e))
                    /\ WF_deviceVars(SyncRefused(e))

(* The revocation dialog: "the client deprovisions itself".                *)
RevokedLeaves ==
  \A e \in Kiosks : \A c \in Codes : (kiosk[e].key = c /\ keys[c].status = "revoked") ~> kiosk[e].key # c
=============================================================================
