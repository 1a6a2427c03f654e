-------------------------- MODULE ConsoleVehicles --------------------------
(***************************************************************************)
(* The vehicles page of the console (TenantVehiclesPage.tsx,               *)
(* AddVehicleModal.tsx and components/tenant/vehicles), with the vehicle   *)
(* operations of PlatformContext and the rows of the backend's             *)
(* vehicles.py.                                                            *)
(*                                                                         *)
(* A vehicle is its plate, its status and the member it is assigned to;    *)
(* make, model and colour are left out, so that editing them is a request  *)
(* that changes nothing.                                                   *)
(***************************************************************************)
EXTENDS Integers, FiniteSets

CONSTANTS VehicleIds, Plates, Members, MaxVehicleOps,
          MaxPollTries      \* polls of an import job; 20 in the code

VARIABLES
  vehicleRows,    \* registered_vehicles
  tenantVehicles, \* as loaded
  vehicleOps,
  sheet,          \* the dialog that is open, and its vehicle
  adding,         \* AddVehicleModal's
  selectedMemberId,
  history,        \* the plates tab of VehicleDetailsModal
  job             \* ImportVehiclesModal, importTenantVehicles and its job

vehicleVars == <<vehicleRows, tenantVehicles, vehicleOps, sheet, adding, selectedMemberId,
                 history, job>>
sheetVars == <<sheet, adding, selectedMemberId, history, job>>

V == INSTANCE TenantReload
       WITH rows <- vehicleRows, view <- tenantVehicles, ops <- vehicleOps, MaxOps <- MaxVehicleOps

NoSheet == [kind |-> "none", vehicle |-> {}]

mapVehicle(v) ==
  [id |-> v.id, plate |-> v.plate, status |-> v.status, member |-> v.member,
   access |-> IF v.status = "active" THEN "ALLOWED" ELSE "SUSPENDED"]
Vehicles == {mapVehicle(v) : v \in tenantVehicles}

-----------------------------------------------------------------------------
(* PlatformContext: the requests.  `from' is the dialog that awaits one.   *)

VehicleBody(plate, status, member, from) ==
  [plate |-> plate, status |-> status, member |-> member, from |-> from]

(* The member chosen in the dialog is not sent.                            *)
createTenantVehicle(plate) == V!Begin("create", "new", VehicleBody(plate, "active", "none", "add"))
updateTenantVehicle(id) == V!Begin("update", id, VehicleBody("same", "same", "same", "none"))
assignVehicleMember(id, m) == V!Begin("update", id, VehicleBody("same", "same", m, "none"))
setVehicleStatus(id, status) == V!Begin("update", id, VehicleBody("same", status, "same", "none"))
registerVehicleLicensePlate(id, plate) ==
  V!Begin("update", id, VehicleBody(plate, "same", "same", "plate"))

(* vehicles.py: a plate is registered once.                                *)
Pick(new, old) == IF new = "same" THEN old ELSE new
Changed(v, b) ==
  [v EXCEPT !.plate = Pick(b.plate, @), !.status = Pick(b.status, @), !.member = Pick(b.member, @)]
Taken(plate, id) == \E v \in vehicleRows : v.plate = plate /\ v.id # id

VehicleResults(op) ==
  IF Taken(op.body.plate, op.id) THEN {}
  ELSE IF op.kind = "create"
  THEN {vehicleRows \cup {[id |-> id, plate |-> op.body.plate, status |-> "active",
                           member |-> "none"]} :
          id \in {i \in VehicleIds : V!Row(i) = {}}}
  ELSE {{IF v.id = op.id THEN Changed(v, op.body) ELSE v : v \in vehicleRows}}

-----------------------------------------------------------------------------
(* VehicleDetailsModal: the effect on [isOpen, activeTab, vehicle] asks    *)
(* for the history; its cleanup cancels what an earlier one asked for.     *)

(* A mutant: no cleanup.                                                   *)
StillWanted(asks) == asks

(* return () => { cancelled = true }                                       *)
Cancelled(asks) == {[a EXCEPT !.cancelled = TRUE] : a \in asks}

(* What the effect leaves, with the dialog s and the tab.  Of the answers  *)
(* that are cancelled the model keeps one per vehicle.                     *)
HistoryEffect(s, tab) ==
  LET asking == IF s.kind = "details" /\ tab = "plates" THEN {v.id : v \in s.vehicle} ELSE {}
  IN  [history EXCEPT !.tab = tab,
         !.asks = Cancelled(@) \cup {[of |-> id, cancelled |-> FALSE] : id \in asking}]

SetTab(tab) ==
  /\ sheet.kind = "details" /\ history.tab # tab
  /\ history' = HistoryEffect(sheet, tab)
  /\ UNCHANGED <<vehicleRows, tenantVehicles, vehicleOps, sheet, adding, selectedMemberId, job>>

(* The rows, or none when the request failed.                              *)
HistoryAnswered(a) ==
  /\ a \in history.asks
  /\ \E ok \in BOOLEAN :
       history' = [history EXCEPT !.asks = @ \ {a},
                     !.shown = IF a.cancelled THEN @ ELSE IF ok THEN a.of ELSE "none"]
  /\ UNCHANGED <<vehicleRows, tenantVehicles, vehicleOps, sheet, adding, selectedMemberId, job>>

-----------------------------------------------------------------------------
(* Requests of the context, and what awaits them.                          *)

ToSheet(s) == sheet' = s /\ history' = HistoryEffect(s, history.tab)

(* The dialog shows the vehicle as it is loaded now.                       *)
SheetReloaded ==
  IF sheet.kind = "details"
  THEN LET now == {mapVehicle(w) : w \in {w \in tenantVehicles' :
                                             \E o \in sheet.vehicle : o.id = w.id}}
       IN  ToSheet([sheet EXCEPT !.vehicle = IF now = {} THEN @ ELSE now])
  ELSE UNCHANGED <<sheet, history>>

VehicleRequests ==
  /\ \E op \in vehicleOps :
       \/ /\ \/ \E new \in VehicleResults(op) : V!Served(op, new)
             \/ V!LoadServed(op)
          /\ UNCHANGED <<sheet, adding, history>>
       \/ /\ V!Fails(op) \/ \E new \in VehicleResults(op) : V!AnswerLost(op, new)
          /\ adding' = (adding /\ op.body.from # "add")
          /\ UNCHANGED <<sheet, history>>
       \/ /\ V!LoadEnds(op)
          /\ IF op.body.from = sheet.kind THEN ToSheet(NoSheet) ELSE SheetReloaded
          /\ adding' = (adding /\ op.body.from # "add")
  /\ UNCHANGED <<selectedMemberId, job>>

-----------------------------------------------------------------------------
(* The page and the other dialogs.                                         *)

VehicleFilters == {"all", "unassigned", "allowed"}
filteredVehicles(f) ==
  {v \in Vehicles : CASE f = "unassigned" -> v.member = "none"
                      [] f = "allowed" -> v.access = "ALLOWED" [] OTHER -> TRUE}

RowButtons(v) ==
  {"details", "edit", "plate", "assign"} \cup (IF v.status = "suspended" THEN {} ELSE {"suspend"})
DetailsButtons(v) ==
  {"edit", "plate", "assign"} \cup (IF v.status = "suspended" THEN {} ELSE {"suspend"})

OpenSheet(kind, vs) ==
  /\ ToSheet([kind |-> kind, vehicle |-> vs])
  /\ UNCHANGED <<vehicleRows, tenantVehicles, vehicleOps, adding, selectedMemberId, job>>

VehiclesPageOpens ==
  /\ sheet = NoSheet
  /\ \/ OpenSheet("add", {}) \/ OpenSheet("import", {})
     \/ \E f \in VehicleFilters : \E v \in filteredVehicles(f) :
          \E b \in RowButtons(v) : OpenSheet(b, {v})

DetailsOpens ==
  /\ sheet.kind = "details"
  /\ \E v \in sheet.vehicle : \E b \in DetailsButtons(v) : OpenSheet(b, {v})

CloseSheet == sheet # NoSheet /\ OpenSheet("none", {})

StaysOpen == UNCHANGED sheetVars
SheetCloses == ToSheet(NoSheet) /\ UNCHANGED <<adding, selectedMemberId, job>>

(* Reactivate in a row; reactivate, deactivate and archive in the details. *)
StatusOffered(v) ==
  (IF v.status = "suspended" THEN {"active"} ELSE {})
    \cup (IF sheet.kind # "details" THEN {}
          ELSE (IF v.status = "active" THEN {"inactive"} ELSE {})
                 \cup (IF v.status # "archived" THEN {"archived"} ELSE {}))

StatusButton ==
  /\ \/ sheet = NoSheet /\ \E v \in Vehicles, st \in {"active", "inactive", "archived"} :
          st \in StatusOffered(v) /\ setVehicleStatus(v.id, st)
     \/ sheet.kind = "details" /\ \E v \in sheet.vehicle : \E st \in StatusOffered(v) :
          setVehicleStatus(v.id, st)
  /\ StaysOpen

(* AddVehicleModal, a plate and a member; the button waits for the answer. *)
AddForm == Plates \X (Members \cup {"none"})
handleAddSubmit ==
  /\ sheet.kind = "add" /\ ~adding
  /\ \E f \in AddForm : createTenantVehicle(f[1])
  /\ adding' = TRUE
  /\ UNCHANGED <<sheet, selectedMemberId, history, job>>

(* UpdatePlateModal; the button does not.                                  *)
handlePlateSubmit ==
  /\ sheet.kind = "plate"
  /\ \E v \in sheet.vehicle, plate \in Plates : registerVehicleLicensePlate(v.id, plate)
  /\ StaysOpen

(* EditVehicleModal, SuspendVehicleModal.                                  *)
handleEditSubmit ==
  sheet.kind = "edit" /\ (\E v \in sheet.vehicle : updateTenantVehicle(v.id)) /\ SheetCloses
handleSuspendSubmit ==
  /\ sheet.kind = "suspend" /\ \E v \in sheet.vehicle : setVehicleStatus(v.id, "suspended")
  /\ SheetCloses

(* AssignMemberModal; its selection is initialised once, with no vehicle.  *)
SelectMember(m) ==
  /\ sheet.kind = "assign"
  /\ selectedMemberId' = m
  /\ UNCHANGED <<vehicleRows, tenantVehicles, vehicleOps, sheet, adding, history, job>>
handleAssignSubmit ==
  /\ sheet.kind = "assign"
  /\ \E v \in sheet.vehicle : assignVehicleMember(v.id, selectedMemberId)
  /\ SheetCloses

-----------------------------------------------------------------------------
(* ImportVehiclesModal: the file is uploaded; an interval asks for the job *)
(* each second; then the reload, the result and a timer that closes.       *)

NoJob == [at |-> "idle", tries |-> 0, polls |-> 0, work |-> "none", result |-> "none",
          closing |-> FALSE]
MaxPolls == 2   \* unanswered polls at once (bound)

JobStep == UNCHANGED <<vehicleRows, tenantVehicles, vehicleOps, adding, selectedMemberId>>
JobIs(j) == job' = j /\ UNCHANGED <<sheet, history>> /\ JobStep

handleParseAndImport ==
  /\ sheet.kind = "import" /\ job.at = "idle"
  /\ JobIs([NoJob EXCEPT !.at = "upload", !.closing = job.closing])

(* With an error the import says so and reports nothing.                   *)
Uploaded ==
  /\ job.at = "upload"
  /\ \/ JobIs([job EXCEPT !.at = "poll", !.work = "running"])
     \/ JobIs([job EXCEPT !.at = "idle", !.result = "0"])

(* The background worker, which may be down; a failed job has no counts.   *)
WorkerDone ==
  /\ job.work = "running"
  /\ \E end \in {"done", "failed"} : JobIs([job EXCEPT !.work = end])

PollTick ==
  /\ job.at = "poll" /\ job.polls < MaxPolls
  /\ JobIs([job EXCEPT !.polls = @ + 1, !.tries = IF @ < MaxPollTries THEN @ + 1 ELSE @])

(* A mutant: only a finished job ends the polling.                         *)
PollOverPatient(j, work) == work \in {"done", "failed"}

PollOver(j, work) == work \in {"done", "failed"} \/ j.tries >= MaxPollTries

(* clearInterval and resolve, by the first answer that says so.            *)
JobAnswered ==
  /\ job.polls > 0
  /\ LET j == [job EXCEPT !.polls = @ - 1]
     IN  IF j.at = "poll" /\ PollOver(j, j.work)
         THEN JobIs([j EXCEPT !.at = "reload", !.result = IF j.work = "done" THEN "all" ELSE "0"])
         ELSE JobIs(j)

JobAskFails ==
  /\ job.polls > 0
  /\ LET j == [job EXCEPT !.polls = @ - 1]
     IN  JobIs(IF j.at = "poll" THEN [j EXCEPT !.at = "reload", !.result = "0"] ELSE j)

ImportShown ==
  /\ job.at = "reload"
  /\ JobIs([job EXCEPT !.at = "idle", !.closing = @ \/ job.result = "all"])

(* setTimeout(onClose, 1000): whatever the dialog shows by then.           *)
AutoClose ==
  /\ job.closing
  /\ job' = [job EXCEPT !.closing = FALSE]
  /\ IF sheet.kind = "import" THEN ToSheet(NoSheet) ELSE UNCHANGED <<sheet, history>>
  /\ JobStep

VehiclesInit ==
  /\ vehicleRows = {[id |-> "v1", plate |-> "p1", status |-> "active", member |-> "m1"],
                    [id |-> "v2", plate |-> "p2", status |-> "active", member |-> "none"]}
  /\ tenantVehicles = vehicleRows
  /\ vehicleOps = {} /\ sheet = NoSheet /\ adding = FALSE /\ selectedMemberId = "none"
  /\ history = [tab |-> "overview", asks |-> {}, shown |-> "none"] /\ job = NoJob

VehiclesNext ==
  \/ VehicleRequests \/ VehiclesPageOpens \/ DetailsOpens \/ CloseSheet \/ StatusButton
  \/ handleAddSubmit \/ handlePlateSubmit \/ handleEditSubmit \/ handleSuspendSubmit
  \/ handleAssignSubmit \/ \E m \in Members \cup {"none"} : SelectMember(m)
  \/ \E tab \in {"overview", "plates"} : SetTab(tab)
  \/ \E a \in history.asks : HistoryAnswered(a)
  \/ handleParseAndImport \/ Uploaded \/ WorkerDone \/ PollTick \/ JobAnswered \/ JobAskFails
  \/ ImportShown \/ AutoClose

VehiclesSpec == VehiclesInit /\ [][VehiclesNext]_vehicleVars

(* A request is answered or fails, a timer fires; the worker may be down.  *)
VehiclesFairness ==
  /\ WF_job(Uploaded) /\ WF_job(PollTick) /\ WF_job(JobAnswered \/ JobAskFails)
  /\ WF_job(ImportShown)

-----------------------------------------------------------------------------
(* Once the history of the vehicle on the screen has arrived, no late      *)
(* answer about another vehicle takes its place.                           *)
HistoryOfVehicle ==
  sheet.kind = "details" /\ history.tab = "plates" /\ (\A a \in history.asks : a.cancelled) =>
    \E v \in sheet.vehicle : history.shown \in {v.id, "none"}

(* An import ends for the user although the worker never does the job.     *)
ImportEnds == job.at = "upload" ~> job.at = "idle"

(* `Poll until the worker finishes to get real counts': the result that is *)
(* shown is what the job did.                                              *)
CountsReal == job.at = "idle" /\ job.work = "done" => job.result = "all"

(* The dialog opens with the member the vehicle has (useState of           *)
(* vehicle.memberId): saving without a choice changes nothing.             *)
AssignKeeps ==
  [][sheet.kind # "assign" /\ sheet'.kind = "assign" =>
       \A v \in sheet'.vehicle : selectedMemberId = v.member]_vehicleVars
=============================================================================
