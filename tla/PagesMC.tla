------------------------------ MODULE PagesMC ------------------------------
(***************************************************************************)
(* The pages of the console for TLC.  They share little state: a behaviour *)
(* has a scope, in which the steps of one page happen and the variables of *)
(* the others do not change.                                               *)
(*                                                                         *)
(* The In... conditions bound what overlaps in a scope: which requests,    *)
(* dialogs and places.  They remove steps of users, of the network and of  *)
(* other clients, never the answer to a request that is under way.         *)
(***************************************************************************)
EXTENDS BarrierMap, ConsoleRules, ConsoleUsers, ConsoleVehicles, ParkingLive

CONSTANT Scopes    \* those of the instance

VARIABLE scope

parkingVars == <<lotVars, liveVars, zoneVars, levelVars>>
mcVars == <<vars, ruleVars, userVars, vehicleVars, parkingVars, scope>>

MapScopes == {"alerts", "commands", "polls"}
RuleScopes == {"wizard", "rules", "simulator"}
UserScopes == {"users", "import"}
VehicleScopes == {"vehicles", "fleet", "history"}
LotScopes == {"lot", "map", "zones"}

(* Every incident is of one gate.                                          *)
OneGate == [i \in Incidents |-> CHOOSE g \in Gates : TRUE]

(* Several commands to a gate with one poll at a time, the polls of one    *)
(* command, which overlap, or incidents and anomalies without commands.     *)
InFlight == {p \in Commands \X (1..MaxTicks) : cmd[p[1]].polls[p[2]] # "none"}

InMap ==
  /\ scope = "alerts" => UNCHANGED cmd
  /\ scope = "commands" =>
       /\ UNCHANGED <<busy, srvInc>> /\ Cardinality(InFlight') <= 1
       /\ Free = {} => UNCHANGED <<item, mounted>>
       /\ \A c \in Commands : cmd'[c].tries <= MaxTries
  /\ scope = "polls" =>
       UNCHANGED <<busy, srvInc>> /\ Cardinality(Commands \ Free') <= 1

InRules ==
  /\ Cardinality({s \in 1..5 : ~wizard'.ok[s]}) <= 1
  /\ scope = "wizard" =>
       /\ ruleDialog'.kind \in {"none", "wizard"}
       /\ ruleOps' = {} \/ (wizard' = NewForm /\ submitTimers' = {})
       /\ ruleDialog'.kind = "wizard" =>
            ruleRows = tenantAccessRules /\ Cardinality(ruleRows) <= 1
       /\ \A op \in ruleOps' \ ruleOps : op.at # "sent" \/ submitTimers # submitTimers'
  /\ scope = "rules" => ruleDialog'.kind # "wizard" /\ UNCHANGED simulation
  /\ scope = "simulator" => ruleDialog'.kind \in {"none", "simulate"} /\ ruleOps' = {}

InUsers ==
  /\ scope = "users" =>
       /\ bulk' = bulk /\ prompt'.kind # "import"
       /\ prompt'.kind \notin {prompt.kind, "none"} => userOps = {} /\ tenantUsers = accounts
       /\ \A u \in accounts' : u.role = "viewer" \/ u.id \notin NewUsers
  /\ scope = "import" => prompt'.kind \in {"none", "import"} /\ userOps' = {}

InVehicles ==
  /\ scope = "vehicles" =>
       /\ history'.tab = "overview" /\ job' = NoJob
       /\ sheet'.kind \notin {sheet.kind, "none"} => vehicleOps = {} /\ tenantVehicles = vehicleRows
       /\ Cardinality({v \in vehicleRows' : v.status # "active"}) <= 1
       /\ \A v \in vehicleRows' : v.plate = "p3" => v.status = "active"
  /\ scope = "fleet" => sheet'.kind \in {"none", "import"} /\ vehicleOps' = {}
  /\ scope = "history" => sheet'.kind \in {"none", "details"} /\ job' = NoJob /\ UNCHANGED vehicleRows

InLot ==
  /\ scope = "lot" => UNCHANGED map
  /\ scope = "map" => frames' = <<>> /\ mapLoads' = {} /\ map'.editor = NoEditor
  /\ scope = "zones" =>
       /\ lot' = lot /\ map'.popover = "none" /\ map'.highlight = "none" /\ ~map'.searching
       /\ Cardinality(saves') + Cardinality(removals') <= 1 /\ frames' = <<>>
       /\ map'.editor.zone # "none" => removals' = {}
       /\ removals' # {} => wanted' = {}
       /\ saves' # {} => map'.editor.zone # "none"
       /\ \A r \in mapLoads' : r.map.served => r.rows.served

InLevels ==
  /\ Cardinality(levelOps') <= 1 \/ levelOps = {} \/ Cardinality(levelOps) = 2
  /\ Cardinality(uploads') <= 1 /\ (uploads' = {} \/ levelOps' = {})
  /\ \A l \in levelRows' : l.image = "none" \/ (l.name = 0 /\ Cardinality(levelRows') = 1)

-----------------------------------------------------------------------------
MCInit ==
  /\ scope \in Scopes
  /\ Init /\ (scope = "alerts" \/ \A i \in Incidents : srvInc[i] = "absent")
  /\ \E type \in IF scope \in RuleScopes THEN {"deny", "deny_list"} ELSE {"deny"} :
       RulesInit(Type(type))
  /\ \E role \in IF scope \in UserScopes THEN {"owner", "admin"} ELSE {"owner"} : UsersInit(role)
  /\ VehiclesInit
  /\ \E w \in IF scope = "map" THEN BOOLEAN ELSE {TRUE} : ParkingInit(w)

MCNext ==
  /\ \/ /\ scope \in MapScopes /\ Next /\ InMap
        /\ UNCHANGED <<ruleVars, userVars, vehicleVars, parkingVars>>
     \/ /\ scope \in RuleScopes /\ RulesNext /\ InRules
        /\ UNCHANGED <<vars, userVars, vehicleVars, parkingVars>>
     \/ /\ scope \in UserScopes /\ UsersNext /\ InUsers
        /\ UNCHANGED <<vars, ruleVars, vehicleVars, parkingVars>>
     \/ /\ scope \in VehicleScopes /\ VehiclesNext /\ InVehicles
        /\ UNCHANGED <<vars, ruleVars, userVars, parkingVars>>
     \/ /\ scope \in LotScopes /\ ParkingStep /\ InLot
        /\ UNCHANGED <<vars, ruleVars, userVars, vehicleVars, levelVars>>
     \/ /\ scope = "levels" /\ LevelsStep /\ InLevels
        /\ UNCHANGED <<vars, ruleVars, userVars, vehicleVars, lotVars, liveVars, zoneVars>>
  /\ UNCHANGED scope

MCSpec == MCInit /\ [][MCNext]_mcVars /\ Fairness /\ VehiclesFairness
=============================================================================
