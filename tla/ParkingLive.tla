---------------------------- MODULE ParkingLive ----------------------------
(***************************************************************************)
(* The parking map of the console: the occupancy of the zones and the list *)
(* of the parked vehicles, kept up to date by the `vehicle_location'       *)
(* frames of the WebSocket and replaced by refreshParkingMap               *)
(* (PlatformContext.tsx), the page that shows them                         *)
(* (TenantParkingMapPage.tsx, components/tenant/parking) and the presences *)
(* of the backend (parking_service.py, mqtt_bridge.py).                    *)
(*                                                                         *)
(* One monitor camera covers some of the zones.  "null" is the zone of a   *)
(* vehicle whose zone was not resolved.  Levels have a part of their own,  *)
(* below.                                                                  *)
(***************************************************************************)
EXTENDS Integers, FiniteSets, Sequences

CONSTANTS
  Cars, Zones, LevelIds,
  MaxFrames,     \* frames on their way (bound)
  MaxMapLoads,  \* mapLoads under way (bound)
  MaxLevelOps

ASSUME ParkingAssumption == IsFiniteSet(Cars)

VARIABLES
  lot,               \* vehicle_presences: the zone and the status of a vehicle
  zones, covered,    \* the zones, and those the camera covers, on the server
  frames,            \* frames published and not yet received
  parkingMap,        \* per zone that is shown: occupiedCount, and if it is covered
  parkingPresences,  \* the vehicles listed, with their zone
  mapLoads,          \* refreshParkingMap calls under way
  saves, removals,   \* of zones, under way
  map,               \* what the page shows
  wanted             \* zones whose last finished save selected the camera
lotVars == <<lot, zones, covered, frames>>
liveVars == <<parkingMap, parkingPresences, mapLoads>>
zoneVars == <<saves, removals, map, wanted>>

-----------------------------------------------------------------------------
(* The backend.  An exited vehicle is remembered for a minute.             *)

Active(c) == lot[c].status \in {"parked", "stale"}
In(z) == {c \in Cars : Active(c) /\ lot[c].zone = z}

Presence(zone, status) == [zone |-> zone, status |-> status]

(* publish_ws: the frame has the presence as it is then; it is lost when   *)
(* the socket is down.                                                     *)
publish_ws(ev, c) ==
  \/ /\ Len(frames) < MaxFrames
     /\ frames' = Append(frames, [ev |-> ev, car |-> c, zone |-> lot'[c].zone])
  \/ frames' = frames

(* record_detection, for a zone that was resolved or not.                  *)
record_detection(c, z, ev) ==
  \/ lot[c].status = "out" /\ ev = "parked" /\ lot' = [lot EXCEPT ![c] = Presence(z, "parked")]
  \/ lot[c].status = "exited" /\ ev = "seen" /\ UNCHANGED lot
  \/ Active(c) /\ lot[c].zone = z /\ ev = "seen" /\ lot' = [lot EXCEPT ![c].status = "parked"]
  \/ lot[c].status = "parked" /\ lot[c].zone # z /\ ev = "seen" /\ UNCHANGED lot  \* within 30 s
  \/ Active(c) /\ lot[c].zone # z /\ ev = "relocated"
     /\ lot' = [lot EXCEPT ![c] = Presence(z, "parked")]

handle_detection(c) ==
  /\ \/ \E z \in zones \cup {"null"}, ev \in {"parked", "seen", "relocated"} :
          record_detection(c, z, ev) /\ publish_ws(ev, c)
     \/ Active(c) /\ lot' = [lot EXCEPT ![c].status = "exited"] /\ publish_ws("exited", c)
  /\ UNCHANGED <<zones, covered, liveVars, zoneVars>>

(* Changes no frame tells of: an exit at a gate and a check-in or check-   *)
(* out by hand, the sweep, and the end of the minute.                      *)
Unannounced(c) ==
  /\ \/ \E z \in zones, ev \in {"parked", "seen", "relocated"} : record_detection(c, z, ev)
     \/ lot[c].status = "parked" /\ lot' = [lot EXCEPT ![c].status = "stale"]
     \/ Active(c) /\ lot' = [lot EXCEPT ![c].status = "exited"]
     \/ lot[c].status = "exited" /\ lot' = [lot EXCEPT ![c] = Presence("null", "out")]
  /\ UNCHANGED <<zones, covered, frames, liveVars, zoneVars>>

-----------------------------------------------------------------------------
(* The frame handler.                                                      *)

RowsOf(c) == {p \in parkingPresences : p.car = c}
Bumped(count, d) == IF count + d < 0 THEN 0 ELSE count + d

(* The change of a zone's count: the vehicle was listed in the zones       *)
(* `prev', the frame says `new'.                                           *)
Delta(ev, prev, new, z) ==
  IF ev = "exited"
  THEN IF z \in (IF prev \subseteq {"null"} THEN {new} ELSE prev) THEN -1 ELSE 0
  ELSE IF prev = {new} THEN 0
       ELSE (IF z = new THEN 1 ELSE 0) - (IF z \in prev THEN 1 ELSE 0)

(* A mutant: a vehicle that moves is not taken from the zone it leaves.    *)
OnlyAdds(f, z) ==
  LET prev == {p.zone : p \in RowsOf(f.car)}
      d == Delta(f.ev, prev, f.zone, z)
  IN  IF f.ev # "exited" /\ d < 0 THEN 0 ELSE d

(* `deltas'.                                                               *)
Deltas(f, z) == Delta(f.ev, {p.zone : p \in RowsOf(f.car)}, f.zone, z)

vehicle_location ==
  /\ frames # <<>> /\ frames' = Tail(frames)
  /\ LET f == Head(frames)
     IN  /\ parkingPresences' = (parkingPresences \ RowsOf(f.car))
                                  \cup (IF f.ev = "exited" THEN {}
                                        ELSE {[car |-> f.car, zone |-> f.zone]})
         /\ parkingMap' = [z \in DOMAIN parkingMap |->
                             [parkingMap[z] EXCEPT !.count = Bumped(@, Deltas(f, z))]]
  /\ UNCHANGED <<lot, zones, covered, mapLoads, zoneVars>>

-----------------------------------------------------------------------------
(* refreshParkingMap: two requests that answer on their own, applied       *)
(* together.                                                               *)

Unserved == [served |-> FALSE]
FreeLoad == {n \in 1..MaxMapLoads : \A r \in mapLoads : r.n # n}

refreshParkingMap ==
  \E n \in FreeLoad :
    /\ \A m \in FreeLoad : n <= m
    /\ mapLoads' = mapLoads \cup {[n |-> n, map |-> Unserved, rows |-> Unserved]}

(* parking/map: parked and stale vehicles count.                           *)
MapOut == [z \in zones |-> [count |-> Cardinality(In(z)), covered |-> z \in covered]]

(* parking/presence: the default status is "parked".                       *)
PresenceOut == {[car |-> c, zone |-> lot[c].zone] : c \in {d \in Cars : lot[d].status = "parked"}}

MapLoadServed(r) ==
  /\ \/ /\ ~r.map.served
        /\ mapLoads' = (mapLoads \ {r})
                          \cup {[r EXCEPT !.map = [served |-> TRUE, out |-> MapOut]]}
     \/ /\ ~r.rows.served
        /\ mapLoads' = (mapLoads \ {r})
                          \cup {[r EXCEPT !.rows = [served |-> TRUE, out |-> PresenceOut]]}
  /\ UNCHANGED <<lotVars, parkingMap, parkingPresences, zoneVars>>

MapLoadEnds(r) ==
  /\ mapLoads' = mapLoads \ {r}
  /\ \/ r.map.served /\ r.rows.served /\ parkingMap' = r.map.out /\ parkingPresences' = r.rows.out
     \/ UNCHANGED <<parkingMap, parkingPresences>>
  /\ UNCHANGED <<lotVars, zoneVars>>

(* After a check-in or a check-out, and with loadTenantData.               *)
Refresh == refreshParkingMap /\ UNCHANGED <<lotVars, parkingMap, parkingPresences, zoneVars>>

-----------------------------------------------------------------------------
(* The page.  The popover and the editor have the zone as it was when it   *)
(* was clicked.                                                            *)

NoEditor == [zone |-> "none", cam |-> FALSE, saving |-> 0]   \* saving: the save it awaits

NewPage(canWrite) ==
  [canWrite |-> canWrite, editMode |-> FALSE, editor |-> NoEditor,
   popover |-> "none", highlight |-> "none", searching |-> FALSE]

Page(m) == map' = m /\ UNCHANGED <<lotVars, liveVars, saves, removals, wanted>>

Uncovered == map.editor.zone = "none" \* no sheet lies over the page

ToggleEdit == map.canWrite /\ Uncovered /\ Page([map EXCEPT !.editMode = ~@])

(* onZoneClick: the canvas shows the zones of the loaded map.              *)
onZoneClick(z) ==
  /\ Uncovered /\ z \in DOMAIN parkingMap
  /\ Page(IF map.editMode /\ map.canWrite
          THEN [map EXCEPT !.editor = [zone |-> z, cam |-> parkingMap[z].covered, saving |-> 0]]
          ELSE [map EXCEPT !.popover = z, !.highlight = z])

(* onPointerUp: a rectangle that is large enough.                          *)
onZoneDrawn ==
  /\ Uncovered /\ map.editMode /\ map.canWrite
  /\ Page([map EXCEPT !.editor = [zone |-> "new", cam |-> FALSE, saving |-> 0]])

ClosePopover == Uncovered /\ map.popover # "none" /\ Page([map EXCEPT !.popover = "none"])

(* VehicleLocatePanel: the button is disabled while a search is on.        *)
handleLocate ==
  /\ Uncovered /\ ~map.searching
  /\ Page([map EXCEPT !.searching = TRUE])

LocateAnswered ==
  /\ map.searching
  /\ \E found \in {lot[c].zone : c \in {d \in Cars : Active(d)}} \cup {"null"} :
       Page([map EXCEPT !.searching = FALSE,
                        !.highlight = IF found = "null" THEN "none" ELSE found])

-----------------------------------------------------------------------------
(* ZoneEditorSheet.                                                        *)

toggleCamera == ~Uncovered /\ Page([map EXCEPT !.editor.cam = ~@])
CloseZoneSheet == ~Uncovered /\ Page([map EXCEPT !.editor = NoEditor])

(* coverageByCamera, from the map that is loaded.                          *)
coverageByCamera == {z \in DOMAIN parkingMap : parkingMap[z].covered}

(* handleSubmit keeps the lists of the render it was pressed in.           *)
handleSubmitZone ==
  /\ ~Uncovered /\ map.editor.saving = 0
  /\ \E n \in 1..2 \ {s.n : s \in saves} :   \* at most two at once (bound)
       /\ saves' = saves \cup {[n |-> n, zone |-> map.editor.zone, want |-> map.editor.cam,
                                current |-> coverageByCamera, at |-> "zone"]}
       /\ map' = [map EXCEPT !.editor.saving = n]
  /\ UNCHANGED <<lotVars, liveVars, removals, wanted>>

(* PATCH of the zone, or POST of a new one, then the camera's list.        *)
ZoneSaved(s) ==
  /\ s.at = "zone"
  /\ \E z \in IF s.zone = "new" THEN Zones \ zones ELSE {s.zone} \cap zones :
       /\ zones' = zones \cup {z}
       /\ saves' = (saves \ {s})
                     \cup {[s EXCEPT !.zone = z,
                                     !.at = IF s.want = (z \in s.current) THEN "done" ELSE "cover"]}
  /\ UNCHANGED <<lot, covered, frames, liveVars, removals, map, wanted>>

(* set_camera_coverage replaces the whole list, or refuses it.             *)
CoverageSaved(s) ==
  /\ s.at = "cover"
  /\ LET next == IF s.want THEN s.current \cup {s.zone} ELSE s.current \ {s.zone}
     IN  next \subseteq zones /\ covered' = next
  /\ saves' = (saves \ {s}) \cup {[s EXCEPT !.at = "done"]}
  /\ UNCHANGED <<lot, zones, frames, liveVars, removals, map, wanted>>

(* Refresh and onClose, which closes the sheet that is open now.           *)
SaveDone(s) ==
  /\ s.at = "done"
  /\ refreshParkingMap
  /\ saves' = saves \ {s} /\ map' = [map EXCEPT !.editor = NoEditor]
  /\ wanted' = IF s.want THEN wanted \cup {s.zone} ELSE wanted \ {s.zone}
  /\ UNCHANGED <<lotVars, parkingMap, parkingPresences, removals>>

(* An error at any step; the sheet stays, if it is still this one.         *)
SaveFails(s) ==
  /\ s.at # "done"
  /\ saves' = saves \ {s}
  /\ map' = [map EXCEPT !.editor.saving = IF @ = s.n THEN 0 ELSE @]
  /\ UNCHANGED <<lotVars, liveVars, removals, wanted>>

(* handleDelete: removeParkingZone, and the sheet closes at once.          *)
handleDelete ==
  /\ map.editor.zone \in Zones
  /\ removals' = removals \cup {map.editor.zone}
  /\ map' = [map EXCEPT !.editor = NoEditor]
  /\ UNCHANGED <<lotVars, liveVars, saves, wanted>>

(* delete_zone: presences lose the zone, the coverage goes with it.        *)
removeParkingZone(z) ==
  /\ z \in removals /\ removals' = removals \ {z}
  /\ \/ /\ zones' = zones \ {z} /\ covered' = covered \ {z} /\ wanted' = wanted \ {z}
        /\ lot' = [c \in Cars |-> IF lot[c].zone = z THEN [lot[c] EXCEPT !.zone = "null"] ELSE lot[c]]
        /\ refreshParkingMap
     \/ UNCHANGED <<zones, covered, wanted, lot, mapLoads>>
  /\ UNCHANGED <<frames, parkingMap, parkingPresences, saves, map>>

-----------------------------------------------------------------------------
(* ParkingLevelEditor: a level is its name (one of two), its place in the  *)
(* order and its image.  A patch is a function of what it sets.            *)

VARIABLES levelRows, levels, levelOps, uploads, uploadingId
levelVars == <<levelRows, levels, levelOps, uploads, uploadingId>>

L == INSTANCE TenantReload
       WITH rows <- levelRows, view <- levels, ops <- levelOps, MaxOps <- MaxLevelOps

upsertParkingLevel(kind, id, patch) == L!Begin(kind, id, patch)

(* The last place of the list that is shown.                               *)
handleAdd(id) ==
  /\ L!Row(id) = {} /\ \A op \in levelOps : op.id # id
  /\ upsertParkingLevel("create", id, [name |-> 0, order |-> Cardinality(levels)])
  /\ UNCHANGED <<uploads, uploadingId>>

(* Two requests, each with the place of the other level.                   *)
move(a, b) ==
  /\ a.order < b.order /\ \A l \in levels : ~(a.order < l.order /\ l.order < b.order)
  /\ \E m, n \in L!Free :
       /\ m < n
       /\ LET Sent(k, l, order) == [n |-> k, kind |-> "update", id |-> l.id, at |-> "sent", snap |-> {},
                                    body |-> [name |-> l.name, order |-> order]]
          IN  levelOps' = levelOps \cup {Sent(m, a, b.order), Sent(n, b, a.order)}
  /\ UNCHANGED <<levelRows, levels, uploads, uploadingId>>

(* A key pressed in the name field, which shows the loaded name.           *)
rename(l) ==
  /\ upsertParkingLevel("update", l.id, [name |-> 1 - l.name])
  /\ UNCHANGED <<uploads, uploadingId>>

(* Only the level whose upload began last is disabled.                     *)
handleUpload(l) ==
  /\ uploadingId # l.id
  /\ uploadingId' = l.id /\ uploads' = uploads \cup {l}
  /\ UNCHANGED <<levelRows, levels, levelOps>>

(* Presign, PUT of the file, then the level is given the image and the     *)
(* name it had when the upload began.                                      *)
uploadParkingMapImage(l) ==
  /\ uploads' = uploads \ {l} /\ uploadingId' = "none"
  /\ \/ upsertParkingLevel("update", l.id, [name |-> l.name, image |-> "set"])
     \/ UNCHANGED <<levelRows, levels, levelOps>>

removeParkingLevel(l) ==
  L!Begin("delete", l.id, [name |-> l.name]) /\ UNCHANGED <<uploads, uploadingId>>

(* update_level sets what it is given; create_level adds a row.            *)
Patched(l, patch) == [k \in DOMAIN l |-> IF k \in DOMAIN patch THEN patch[k] ELSE l[k]]

LevelResult(op) ==
  CASE op.kind = "create" ->
         {levelRows \cup {[id |-> op.id, name |-> 0, order |-> op.body.order, image |-> "none"]}}
    [] op.kind = "update" /\ L!Row(op.id) # {} ->
         {{IF l.id = op.id THEN Patched(l, op.body) ELSE l : l \in levelRows}}
    [] op.kind = "delete" /\ L!Row(op.id) # {} -> {levelRows \ L!Row(op.id)}
    [] OTHER -> {}

LevelsStep ==
  \/ /\ \E op \in levelOps :
          \/ L!Fails(op) \/ L!LoadServed(op) \/ L!LoadEnds(op)
          \/ \E new \in LevelResult(op) : L!Served(op, new) \/ L!AnswerLost(op, new)
     /\ UNCHANGED <<uploads, uploadingId>>
  \/ \E id \in LevelIds : handleAdd(id)
  \/ \E a, b \in levels : move(a, b)
  \/ \E l \in levels : rename(l) \/ handleUpload(l) \/ removeParkingLevel(l)
  \/ \E l \in uploads : uploadParkingMapImage(l)

-----------------------------------------------------------------------------
ParkingInit(canWrite) ==
  /\ lot = [c \in Cars |-> Presence("null", "out")]
  /\ zones = Zones /\ covered = {} /\ frames = <<>>
  /\ parkingMap = MapOut /\ parkingPresences = {} /\ mapLoads = {}
  /\ saves = {} /\ removals = {} /\ map = NewPage(canWrite) /\ wanted = {}
  /\ levelRows = {} /\ levels = {} /\ levelOps = {}
  /\ uploads = {} /\ uploadingId = "none"

ParkingStep ==
  \/ \E c \in Cars : handle_detection(c) \/ Unannounced(c)
  \/ vehicle_location
  \/ \E r \in mapLoads : MapLoadServed(r) \/ MapLoadEnds(r)
  \/ Refresh
  \/ ToggleEdit \/ onZoneDrawn \/ ClosePopover \/ handleLocate \/ LocateAnswered
  \/ \E z \in Zones : onZoneClick(z) \/ removeParkingZone(z)
  \/ toggleCamera \/ CloseZoneSheet \/ handleSubmitZone \/ handleDelete
  \/ \E s \in saves : ZoneSaved(s) \/ CoverageSaved(s) \/ SaveDone(s) \/ SaveFails(s)

lotPageVars == <<lotVars, liveVars, zoneVars>>

ParkingNext ==
  \/ ParkingStep /\ UNCHANGED levelVars
  \/ LevelsStep /\ UNCHANGED lotPageVars

ParkingSpec ==
  (\E canWrite \in BOOLEAN : ParkingInit(canWrite)) /\ [][ParkingNext]_<<lotPageVars, levelVars>>

-----------------------------------------------------------------------------
(* What a zone's count says more than the list does.                       *)
Drift(count, rows, z) ==
  LET d == count[z].count - Cardinality({p \in rows : p.zone = z}) IN IF d < 0 THEN -d ELSE d

(* The count of a zone and the list of its vehicles come from two requests *)
(* and may differ; a frame about a listed vehicle whose zone is known, or  *)
(* the first one about a vehicle that has come, never makes them differ    *)
(* more, in any zone, whatever frames were lost before.                    *)
DriftShrinks ==
  [][vehicle_location =>
       LET f == Head(frames)
       IN  ({p.zone : p \in RowsOf(f.car)} \subseteq {"null"} /\ f.ev = "exited")
           \/ \A z \in DOMAIN parkingMap :
                Drift(parkingMap', parkingPresences', z) <= Drift(parkingMap, parkingPresences, z)]_liveVars

(* `stale still counts as occupied; seen -> no change'                     *)
(* (PlatformContext.tsx:998).                                              *)
SeenNoChange ==
  [][vehicle_location /\ Head(frames).ev = "seen" =>
       \A z \in DOMAIN parkingMap : parkingMap'[z].count = parkingMap[z].count]_liveVars

(* `each selected monitor camera should cover this zone'                   *)
(* (ZoneEditorSheet.tsx:109).                                              *)
CoverageSynced == saves = {} => wanted \subseteq covered
=============================================================================
