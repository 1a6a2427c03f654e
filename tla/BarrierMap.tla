----------------------------- MODULE BarrierMap -----------------------------
(***************************************************************************)
(* The live barrier map of the web console (BarrierMapVisualization.tsx)   *)
(* and the incident queue beside it (MonitoringPage.tsx), with what they   *)
(* use of PlatformContext.tsx: the gates and incidents they are given,     *)
(* triggerGateCommand with its polls, and the calls that settle incidents. *)
(*                                                                         *)
(* The map derives one item per gate from REST rows and live frames        *)
(* (barrierMapData.ts), raises a toast per new incident and per anomaly of *)
(* the detector (anomalyDetectionService.ts), and sends commands.  What    *)
(* the user can set at any time and what only filters or zooms (view mode, *)
(* filters, selection, open drawer or dialog) is chosen where it is used.  *)
(*                                                                         *)
(* The rows of the commands are CommandRow, which GateCommand implements.  *)
(* A GET is answered with the server's state of that moment; the answers   *)
(* of the polls of a command may arrive in any order.                      *)
(***************************************************************************)
EXTENDS Integers, Sequences, FiniteSets, CommandRow

CONSTANTS
  Gates, Incidents,
  GateOf,      \* the gate of each incident
  Stuck,       \* the incidents whose text says the arm is stuck
  RawStates,   \* states a gate can report
  Statuses,    \* statuses a gate's row can have
  MaxTries,    \* `tries >= 10' in triggerGateCommand
  MaxTicks,    \* bound on the ticks of one poll interval
  MaxToasts,   \* slice(-6)
  None

ASSUME MapAssumption ==
  /\ GateOf \in [Incidents -> Gates] /\ Stuck \subseteq Incidents
  /\ MaxTries \in Nat \ {0} /\ MaxTicks \in Nat /\ MaxTicks >= MaxTries
  /\ MaxToasts \in Nat \ {0} /\ None \notin Gates
  /\ IsFiniteSet(Gates) /\ IsFiniteSet(Incidents)

VARIABLES
  srvInc,     \* incidents of the server: absent, open, acknowledged, resolved
  incidents,  \* the context's copy
  item,       \* status and health the map shows of each gate
  busy,       \* gates whose events of the last 5 minutes are an anomaly
  mounted,    \* the map is on the screen
  seen,       \* seenIncidentIdsRef
  told,       \* history: the alerts the map has had since it was mounted
  toasts,     \* inAppToasts, oldest first
  anomalies,  \* gates with an entry in activeAnomalies
  inspected,  \* gate of the anomaly the inspector holds, or None
  applying,   \* gate of the action whose 450 ms are running, or None
  pending,    \* gates in pendingCommands
  timers,     \* running 12 s timers of each gate
  cmd         \* the console's side of each command

mapVars == <<mounted, seen, told, toasts, anomalies>>
inspVars == <<inspected, applying>>
cmdVars == <<cmd, pending, timers, row, acted>>
ctxVars == <<srvInc, incidents, item, busy>>
vars == <<ctxVars, mapVars, inspVars, cmdVars>>

-----------------------------------------------------------------------------
(* barrierMapData.ts: what the map shows of a gate.  The status ignores    *)
(* the case of raw and the health does not, but raw is in lower case: the  *)
(* edge serialises the state of a frame so (fsm.rs), and the bridge        *)
(* lower-cases what it stores in the row (mqtt_bridge.py).                 *)

mapGateStatus(raw) ==
  CASE raw = "open" -> "OPEN"
    [] raw \in {"opening", "closing"} -> "IN_MOTION"
    [] raw = "locked" -> "LOCKED"
    [] raw = "fault" -> "STUCK"
    [] OTHER -> "CLOSED"

(* A mutant: what the row says of the device is looked at first.           *)
HealthByRow(status, raw) ==
  IF raw = "unknown" \/ status = "OFFLINE" THEN "OFFLINE"
  ELSE IF raw = "fault" THEN "CRITICAL"
  ELSE IF status = "DEGRADED" THEN "WARNING" ELSE "HEALTHY"

mapGateHealth(status, raw) ==
  IF raw = "fault" THEN "CRITICAL"
  ELSE IF raw = "unknown" \/ status = "OFFLINE" THEN "OFFLINE"
  ELSE IF status = "DEGRADED" THEN "WARNING" ELSE "HEALTHY"

(* buildBarrierLocations, the gates: the live frame, if there is one and   *)
(* the stream is not paused, wins over the row.                            *)
BarrierGateItem(status, rawStatus, live) ==
  LET raw == IF live # None THEN live ELSE rawStatus
  IN  [status |-> mapGateStatus(raw), health |-> mapGateHealth(status, raw)]

(* buildBarrierLocations, the site.                                        *)
overallHealth ==
  IF \A g \in Gates : item[g].health = "OFFLINE" THEN "OFFLINE"
  ELSE IF \E g \in Gates : item[g].health = "CRITICAL" \/ item[g].status = "STUCK"
  THEN "CRITICAL"
  ELSE IF \E g \in Gates : item[g].health \in {"WARNING", "OFFLINE"} THEN "WARNING"
  ELSE "HEALTHY"

(* Every item some row and frame of the context can give.                  *)
Items ==
  {BarrierGateItem(s, r, l) : s \in Statuses,
                              r \in RawStates, l \in RawStates \cup {None}}

isStuck(g) == item[g].status = "STUCK"
isOffline(g) == item[g].health = "OFFLINE"

(* The colour of a gate on the canvas of a single site.                    *)
LocalColor(g) ==
  IF isStuck(g) THEN "red"
  ELSE IF item[g].status = "OPEN" THEN "green"
  ELSE IF isOffline(g) THEN "amber"
  ELSE IF item[g].health = "CRITICAL" THEN "red" ELSE "blue"

(* The colour of the site on the nationwide map.                           *)
statusColor(overlay) ==
  IF overlay /\ anomalies # {} THEN "violet"
  ELSE IF \E g \in Gates : isStuck(g) THEN "red"
  ELSE IF \E g \in Gates : isOffline(g) THEN "amber"
  ELSE IF \E g \in Gates : item[g].health = "CRITICAL" THEN "red"
  ELSE IF \E g \in Gates : item[g].health = "WARNING" THEN "amber" ELSE "green"

(* The KPI counters.                                                       *)
metrics ==
  LET Count(s) == Cardinality({g \in Gates : item[g].status = s})
  IN  [openGates |-> Count("OPEN"), closedGates |-> Count("CLOSED"),
       lockedGates |-> Count("LOCKED"), stuckGates |-> Count("STUCK"),
       offlineGates |-> Cardinality({g \in Gates : item[g].health = "OFFLINE"}),
       warningGates |-> Cardinality({g \in Gates :
                          item[g].health \in {"WARNING", "CRITICAL"}})]

(* The badge of the toolbar counts them as alerts.                         *)
AlertBadge == metrics.stuckGates + metrics.offlineGates

(* Whether the status filter of the toolbar leaves the site.               *)
filteredSites(f) ==
  CASE f = "ALL" -> TRUE
    [] f = "OFFLINE" -> \E g \in Gates : item[g].health = "OFFLINE"
    [] f = "WARNING" -> \/ overallHealth = "WARNING"
                        \/ \E g \in Gates : item[g].health \in {"WARNING", "CRITICAL"}
    [] OTHER -> \E g \in Gates : item[g].status = f

(* What the card and the grid call a gate; an arm in motion is `lowered'.  *)
CardBadge(g) ==
  IF isStuck(g) THEN "STUCK"
  ELSE IF isOffline(g) THEN "OFFLINE"
  ELSE CASE item[g].status = "OPEN" -> "RAISED"
         [] item[g].status = "LOCKED" -> "LOCKED"
         [] OTHER -> "LOWERED"

GridBadge(g) == CardBadge(g)

(* The alerts: incidents that are not RESOLVED in the context's copy.      *)
alerts == {i \in Incidents : incidents[i] \in {"open", "acknowledged"}}

AlertOf(g) == {i \in alerts : GateOf[i] = g}

-----------------------------------------------------------------------------
Toasts == [type : {"INCIDENT"}, id : Incidents]
            \cup [type : {"ML_ANOMALY"}, id : Gates]

(* prev.filter: the toasts that are not in T, in their order.              *)
Without(q, T) ==
  LET kept == {k \in DOMAIN q : q[k] \notin T}
      place(k) == Cardinality({j \in kept : j <= k})
  IN  [n \in 1..Cardinality(kept) |-> q[CHOOSE k \in kept : place(k) = n]]

Copies(q, t) == Cardinality({k \in DOMAIN q : q[k] = t})

(* [...prev, toast].slice(-6), once for each new toast of a set.           *)
Pushed(q, T) ==
  {LET all == q \o s
       from == IF Len(all) > MaxToasts THEN Len(all) - MaxToasts ELSE 0
   IN  [k \in 1..(Len(all) - from) |-> all[from + k]] :
     s \in {f \in [1..Cardinality(T) -> T] :
              \A j, k \in 1..Cardinality(T) : f[j] = f[k] => j = k}}

(* The gates evaluateGate flags: offline gates have no observation.        *)
Flagged == {g \in Gates : item[g].health # "OFFLINE" /\ busy[g]}

(* A mutant: the alerts of the screen are remembered, not all that were.   *)
SeenNow(fresh) == alerts'

SeenWith(fresh) == seen \cup fresh

(* The effects that run after a render with new sites, alerts or events:   *)
(* a toast per unseen alert, an evaluation of every gate, and a toast per  *)
(* anomaly.  Each evaluation of a flagged gate makes an anomaly with a new *)
(* id (Date.now()), so each is toasted.                                    *)
Effects ==
  IF ~mounted THEN UNCHANGED <<seen, told, toasts, anomalies>>
  ELSE LET fresh == alerts' \ seen
           new == [type : {"INCIDENT"}, id : fresh]
           ml == [type : {"ML_ANOMALY"}, id : Flagged']
       IN  /\ seen' = SeenWith(fresh)
           /\ told' = told \cup alerts'
           /\ anomalies' = Flagged'
           /\ \E q \in Pushed(toasts, new) : toasts' \in Pushed(q, ml)

-----------------------------------------------------------------------------
(* The context changes under the map.                                      *)

(* A telemetry or heartbeat frame, a load, or Pause Stream: the items are  *)
(* derived again.                                                          *)
GatesChange(g) ==
  /\ \E it \in Items : item' = [item EXCEPT ![g] = it]
  /\ UNCHANGED <<srvInc, incidents, busy, mounted, inspVars, cmdVars>>
  /\ Effects

(* An access event is put in front of accessEvents.                        *)
EventArrives(g) ==
  /\ \E b \in {busy[g], TRUE} : busy' = [busy EXCEPT ![g] = b]
  /\ UNCHANGED <<srvInc, incidents, item, mounted, inspVars, cmdVars>>
  /\ Effects

(* The window of observedReqPerMin slides on; nothing is rendered.         *)
WindowSlides(g) ==
  /\ busy[g]
  /\ busy' = [busy EXCEPT ![g] = FALSE]
  /\ UNCHANGED <<srvInc, incidents, item, mapVars, inspVars, cmdVars>>

(* The edge reports an incident.  The bridge spreads the payload over its  *)
(* frame, so the frame's type is the incident's own (fault, offline...),   *)
(* and the console's handler of /incident/ frames does not see it.         *)
EdgeIncident(i) ==
  /\ srvInc[i] = "absent"
  /\ srvInc' = [srvInc EXCEPT ![i] = "open"]
  /\ UNCHANGED <<incidents, item, busy, mapVars, inspVars, cmdVars>>

(* The server settles an incident: another operator, or the POST of this   *)
(* console, whenever it arrives.  A resolved one can be opened again.      *)
ServerSettles(i) ==
  /\ srvInc[i] # "absent"
  /\ \E s \in {"open", "acknowledged", "resolved"} :
       srvInc' = [srvInc EXCEPT ![i] = s]
  /\ UNCHANGED <<incidents, item, busy, mapVars, inspVars, cmdVars>>

(* The incidents are fetched again: loadTenantData, or the refetch after   *)
(* an incident or incident_update frame of the API.                        *)
IncidentsLoaded ==
  /\ incidents' = srvInc
  /\ UNCHANGED <<srvInc, item, busy, mounted, inspVars, cmdVars>>
  /\ Effects

(* MonitoringPage, tab `incidents': the queue offers Acknowledge for an    *)
(* open one and Resolve (a dialog asks for a note) for any that is not     *)
(* resolved; the map is unmounted while the tab is shown.                  *)
QueueOffers(i) ==
  CASE incidents[i] = "open" -> {"acknowledged", "resolved"}
    [] incidents[i] = "acknowledged" -> {"resolved"}
    [] OTHER -> {}

(* acknowledgeIncident, resolveIncident: the call, then the local copy.    *)
QueueSettles(i) ==
  /\ ~mounted
  /\ \E s \in QueueOffers(i) :
       /\ srvInc' = [srvInc EXCEPT ![i] = s]
       /\ incidents' = [incidents EXCEPT ![i] = s]
  /\ UNCHANGED <<item, busy, mapVars, inspVars, cmdVars>>

(* bulkResolveIncidents with every open one of the queue.                  *)
QueueSettlesAll ==
  /\ ~mounted /\ alerts # {}
  /\ srvInc' = [i \in Incidents |-> IF i \in alerts THEN "resolved" ELSE srvInc[i]]
  /\ incidents' = [i \in Incidents |-> IF i \in alerts THEN "resolved"
                                       ELSE incidents[i]]
  /\ UNCHANGED <<item, busy, mapVars, inspVars, cmdVars>>

(* The first run of the effect only records the alerts of the mount.       *)
Mount ==
  /\ ~mounted
  /\ mounted' = TRUE
  /\ seen' = alerts /\ told' = alerts
  /\ anomalies' = Flagged
  /\ toasts' \in Pushed(<<>>, [type : {"ML_ANOMALY"}, id : Flagged])
  /\ UNCHANGED <<ctxVars, inspVars, cmdVars>>

(* The page is left.  The detector and the polls live on, the state of the *)
(* component does not.                                                     *)
Unmount ==
  /\ mounted
  /\ mounted' = FALSE
  /\ seen' = {} /\ told' = {} /\ toasts' = <<>>
  /\ inspected' = None /\ applying' = None
  /\ pending' = {} /\ timers' = [g \in Gates |-> 0]
  /\ UNCHANGED <<ctxVars, anomalies, cmd, row, acted>>

-----------------------------------------------------------------------------
(* triggerGateCommand of PlatformContext.                                  *)

Unused == [gate |-> None, stage |-> "unused", tries |-> 0,
           polls |-> [n \in 1..MaxTicks |-> "none"], said |-> {}]

Free == {c \in Commands : cmd[c].stage = "unused"}

(* A command is posted with an idempotency key of its own.                 *)
Posted(c, g) == [cmd EXCEPT ![c] = [Unused EXCEPT !.gate = g, !.stage = "sending"]]

(* The POST is answered: polls every 1.5 s from now on.                    *)
CommandAccepted(c) ==
  /\ cmd[c].stage = "sending"
  /\ Create(c)
  /\ cmd' = [cmd EXCEPT ![c].stage = "polling"]
  /\ UNCHANGED <<ctxVars, mapVars, inspVars, pending, timers>>

CommandRefused(c) ==
  /\ cmd[c].stage = "sending"
  /\ cmd' = [cmd EXCEPT ![c].stage = "closed"]
  /\ UNCHANGED <<ctxVars, mapVars, inspVars, pending, timers, row, acted>>

(* The interval ticks, whether or not the earlier polls are answered.      *)
Tick(c) ==
  /\ cmd[c].stage = "polling" /\ cmd[c].tries < MaxTicks
  /\ cmd' = [cmd EXCEPT ![c].tries = @ + 1,
                        ![c].polls = [@ EXCEPT ![cmd[c].tries + 1] = row[c]]]
  /\ UNCHANGED <<ctxVars, mapVars, inspVars, pending, timers, row, acted>>

(* A mutant: a poll that is out of tries is announced as a success.        *)
OutcomeHasty(c, v) ==
  IF v = "acknowledged" \/ cmd[c].tries >= MaxTries THEN {"acknowledged"}
  ELSE IF v \in {"timeout", "failed"} THEN {v} ELSE {}

(* A mutant: only a settled row ends the polls.                            *)
OutcomePatient(c, v) == IF v \in Settled THEN {v} ELSE {}

(* What the answer of a poll announces; nothing while it should go on.     *)
Outcome(c, v) ==
  IF v \in Settled THEN {v}
  ELSE IF cmd[c].tries >= MaxTries THEN {"unacknowledged"} ELSE {}

PollAnswered(c, n) ==
  /\ cmd[c].polls[n] # "none"
  /\ LET said == Outcome(c, cmd[c].polls[n])
     IN  cmd' = [cmd EXCEPT ![c].polls = [@ EXCEPT ![n] = "none"],
                            ![c].said = @ \cup said,
                            ![c].stage = IF said = {} THEN @ ELSE "closed"]
  /\ UNCHANGED <<ctxVars, mapVars, inspVars, pending, timers, row, acted>>

(* .catch(() => clearInterval(poll)).                                      *)
PollFails(c, n) ==
  /\ cmd[c].polls[n] # "none"
  /\ cmd' = [cmd EXCEPT ![c].polls = [@ EXCEPT ![n] = "none"],
                        ![c].stage = "closed"]
  /\ UNCHANGED <<ctxVars, mapVars, inspVars, pending, timers, row, acted>>

(* The edge and the backend work on the command.                           *)
ServerSide(c) ==
  /\ cmd[c].stage # "unused"
  /\ Act(c) \/ Settle(c)
  /\ UNCHANGED <<ctxVars, mapVars, inspVars, cmd, pending, timers>>

-----------------------------------------------------------------------------
(* The buttons of a gate.                                                  *)

GateButtons(g) ==
  IF isStuck(g) THEN {"reset", "force"}
  ELSE IF isOffline(g) THEN {"relink", "lock"}
  ELSE IF g \in pending THEN {} ELSE {"arm", "lock"}

(* On the card of the selected site, beside `Details'.                     *)
CardOffers(g) == GateButtons(g)

(* In the grid, where a gate that works also offers a test passage.        *)
GridOffers(g) ==
  GateButtons(g) \cup (IF isStuck(g) \/ isOffline(g) THEN {} ELSE {"passage"})

(* In the gate's dialog; it does nothing without an alert but close.       *)
DialogOffers(g) ==
  {"passage"} \cup (IF isStuck(g) /\ AlertOf(g) # {} THEN {"fix"} ELSE {})
              \cup (IF isOffline(g) /\ AlertOf(g) # {} THEN {"fix"} ELSE {})

(* handleToggleBarrierArm and handleEmergencyLock: the entry in            *)
(* pendingCommands, its 12 s timer, triggerGateCommand; the sites are      *)
(* derived again since they depend on pendingCommands.                     *)
SendPending(g) ==
  /\ \E c \in Free : cmd' = Posted(c, g)
  /\ pending' = pending \cup {g}
  /\ timers' = [timers EXCEPT ![g] = @ + 1]
  /\ UNCHANGED <<ctxVars, mounted, inspVars, row, acted>>
  /\ Effects

(* Raise, Lower, and Reset and Force of a stuck gate without an alert.     *)
(* Re-link of an offline gate without one only shows `Gate is offline'.    *)
handleToggleBarrierArm(g) ==
  /\ mounted /\ ~isOffline(g)
  /\ \/ "arm" \in CardOffers(g) \cup GridOffers(g)
     \/ "reset" \in CardOffers(g) \cup GridOffers(g) /\ AlertOf(g) = {}
  /\ SendPending(g)

(* It does not ask whether the gate is offline.                            *)
handleEmergencyLock(g) ==
  /\ mounted /\ "lock" \in CardOffers(g) \cup GridOffers(g)
  /\ SendPending(g)

(* simulateNewAccessEvent: the event is created on the server, and         *)
(* loadTenantData brings it.                                               *)
handleRecordTestPassage(g) ==
  /\ mounted /\ "passage" \in GridOffers(g) \cup DialogOffers(g)
  /\ EventArrives(g)

(* The timer of any earlier command of the gate drops the entry.           *)
PendingTimer(g) ==
  /\ timers[g] > 0
  /\ timers' = [timers EXCEPT ![g] = @ - 1]
  /\ pending' = pending \ {g}
  /\ UNCHANGED <<ctxVars, mounted, inspVars, cmd, row, acted>>
  /\ IF g \in pending THEN Effects ELSE UNCHANGED mapVars

-----------------------------------------------------------------------------
(* Alerts and anomalies.                                                   *)

(* resolveBarrierIncident with REBOOT or FORCE_OPEN: from the drawer, or   *)
(* from the card, the grid or the dialog of a gate that has the alert.     *)
resolveBarrierIncident(i) ==
  /\ i \in alerts
  /\ toasts' = Without(toasts, [type : {"INCIDENT"}, id : {i}])
  /\ \E c \in Free : cmd' = Posted(c, GateOf[i])
  /\ UNCHANGED <<ctxVars, mounted, seen, told, anomalies, inspVars, pending, timers, row, acted>>

Resolve(i) == mounted /\ resolveBarrierIncident(i)

(* The bulk button of the toolbar, and of the drawer's footer.             *)
BulkOffered == AlertBadge > 0 \/ alerts # {}

(* resolveAllIncidents: a reboot for each stuck one, and no toast is left. *)
(* The button is also offered for a gate without alert, and does nothing.  *)
resolveAllIncidents ==
  /\ mounted /\ BulkOffered
  /\ alerts # {}
  /\ \E f \in [alerts \cap Stuck -> Free] :
       /\ \A i, j \in alerts \cap Stuck : f[i] = f[j] => i = j
       /\ cmd' = [c \in Commands |->
                    IF \E i \in alerts \cap Stuck : f[i] = c
                    THEN Posted(c, GateOf[CHOOSE i \in alerts \cap Stuck : f[i] = c])[c]
                    ELSE cmd[c]]
  /\ toasts' = <<>>
  /\ UNCHANGED <<ctxVars, mounted, seen, told, anomalies, inspVars, pending, timers, row, acted>>

Dropped(k) == SubSeq(toasts, 1, k - 1) \o SubSeq(toasts, k + 1, Len(toasts))

(* dismissInAppToast, View on Map, or the toast's time is over.            *)
dismissInAppToast(k) ==
  /\ toasts' = Dropped(k)
  /\ UNCHANGED <<ctxVars, mounted, seen, told, anomalies, inspVars, cmdVars>>

(* Quick Fix: the incident may be resolved meanwhile, then only the toast  *)
(* goes.                                                                   *)
QuickFix(k) ==
  /\ toasts[k].type = "INCIDENT"
  /\ \/ resolveBarrierIncident(toasts[k].id)
     \/ toasts[k].id \notin alerts /\ dismissInAppToast(k)

(* mitigateAnomaly of the detector.                                        *)
mitigateAnomaly(g) == anomalies \ {g}

(* handleMitigateAnomaly: without an anomaly, nothing.                     *)
handleMitigateAnomaly(g) ==
  /\ anomalies' = mitigateAnomaly(g)
  /\ toasts' = IF g \in anomalies
               THEN Without(toasts, [type : {"ML_ANOMALY"}, id : {g}]) ELSE toasts

(* Mitigate in the anomaly's toast; the toast goes in any case.            *)
MitigateFromToast(k) ==
  /\ toasts[k].type = "ML_ANOMALY"
  /\ anomalies' = mitigateAnomaly(toasts[k].id)
  /\ toasts' = IF toasts[k].id \in anomalies
               THEN Without(toasts, {toasts[k]}) ELSE Dropped(k)
  /\ UNCHANGED <<ctxVars, mounted, seen, told, inspVars, cmdVars>>

(* Analyze in the anomaly's toast; without an anomaly the inspector shows  *)
(* nothing.                                                                *)
AnalyzeFromToast(k) ==
  /\ toasts[k].type = "ML_ANOMALY"
  /\ inspected' = IF toasts[k].id \in anomalies THEN toasts[k].id ELSE None
  /\ toasts' = Dropped(k)
  /\ UNCHANGED <<ctxVars, mounted, seen, told, anomalies, applying, cmdVars>>

(* The badge on the site's node, when the overlay is on, and the card of   *)
(* the ribbon lead to an anomaly.                                          *)
NodeBadge(overlay) == IF overlay THEN anomalies ELSE {}
AnomalyCard == anomalies

(* BarrierAnomalyInspector keeps the anomaly it was opened on; an action   *)
(* takes 450 ms, then mitigates and closes.                                *)
Inspect(g) ==
  /\ mounted /\ \E overlay \in BOOLEAN : g \in NodeBadge(overlay) \cup AnomalyCard
  /\ inspected' = g
  /\ UNCHANGED <<ctxVars, mapVars, applying, cmdVars>>

CloseInspector ==
  /\ inspected # None
  /\ inspected' = None
  /\ UNCHANGED <<ctxVars, mapVars, applying, cmdVars>>

handleApplyAction ==
  /\ inspected # None /\ applying = None
  /\ applying' = inspected
  /\ UNCHANGED <<ctxVars, mapVars, inspected, cmdVars>>

ActionApplied ==
  /\ applying # None
  /\ handleMitigateAnomaly(applying)
  /\ inspected' = None /\ applying' = None
  /\ UNCHANGED <<ctxVars, mounted, seen, told, cmdVars>>

-----------------------------------------------------------------------------
Init ==
  /\ srvInc \in [Incidents -> {"absent", "open"}]
  /\ incidents = [i \in Incidents |-> "absent"]
  /\ item = [g \in Gates |-> BarrierGateItem("ONLINE", "closed", None)]
  /\ busy = [g \in Gates |-> FALSE]
  /\ mounted = FALSE /\ seen = {} /\ told = {} /\ toasts = <<>> /\ anomalies = {}
  /\ inspected = None /\ applying = None
  /\ pending = {} /\ timers = [g \in Gates |-> 0]
  /\ cmd = [c \in Commands |-> Unused]
  /\ RowInit

Context ==
  \/ \E g \in Gates : GatesChange(g) \/ EventArrives(g) \/ WindowSlides(g)
  \/ \E i \in Incidents : EdgeIncident(i) \/ ServerSettles(i) \/ QueueSettles(i)
  \/ IncidentsLoaded \/ QueueSettlesAll

Command(c) ==
  \/ CommandAccepted(c) \/ CommandRefused(c) \/ Tick(c) \/ ServerSide(c)
  \/ \E n \in 1..MaxTicks : PollAnswered(c, n) \/ PollFails(c, n)

User ==
  \/ Mount \/ Unmount \/ resolveAllIncidents
  \/ \E g \in Gates : \/ handleToggleBarrierArm(g) \/ handleEmergencyLock(g)
                      \/ handleRecordTestPassage(g) \/ Inspect(g)
  \/ \E i \in Incidents : Resolve(i)
  \/ \E k \in DOMAIN toasts : \/ dismissInAppToast(k) \/ QuickFix(k)
                             \/ MitigateFromToast(k) \/ AnalyzeFromToast(k)
  \/ CloseInspector \/ handleApplyAction

Timer == (\E g \in Gates : PendingTimer(g)) \/ ActionApplied

Next == Context \/ (\E c \in Commands : Command(c)) \/ User \/ Timer

Spec == Init /\ [][Next]_vars

(* Timers run; an answer to a request arrives or the request fails; the    *)
(* user owes nothing.                                                      *)
Fairness ==
  /\ \A g \in Gates : WF_vars(PendingTimer(g))
  /\ WF_vars(ActionApplied)
  /\ \A c \in Commands :
       /\ WF_vars(CommandAccepted(c) \/ CommandRefused(c))
       /\ WF_vars(Tick(c))
       /\ \A n \in 1..MaxTicks : WF_vars(PollAnswered(c, n) \/ PollFails(c, n))

-----------------------------------------------------------------------------
TypeOK ==
  /\ RowTypeOK
  /\ toasts \in Seq(Toasts) /\ Len(toasts) <= MaxToasts
  /\ srvInc \in [Incidents -> {"absent", "open", "acknowledged", "resolved"}]
  /\ incidents \in [Incidents -> {"absent", "open", "acknowledged", "resolved"}]
  /\ item \in [Gates -> Items] /\ busy \in [Gates -> BOOLEAN]
  /\ mounted \in BOOLEAN /\ seen \subseteq Incidents /\ told \subseteq Incidents
  /\ anomalies \subseteq Gates /\ pending \subseteq Gates
  /\ timers \in [Gates -> Nat]
  /\ inspected \in Gates \cup {None} /\ applying \in Gates \cup {None}
  /\ cmd \in [Commands ->
       [gate : Gates \cup {None}, stage : {"unused", "sending", "polling", "closed"},
        tries : 0..MaxTicks, polls : [1..MaxTicks -> Settled \cup {"none", "sent"}],
        said : SUBSET (Settled \cup {"unacknowledged"})]]

(* An alert that the map has had since it was mounted is not toasted again *)
(* while the map is shown, whatever is reloaded, resolved or opened again  *)
(* in between (seenIncidentIdsRef, `so toasts/sounds fire once per         *)
(* incident').                                                             *)
ToastedOnce ==
  [][mounted /\ mounted' =>
       \A i \in Incidents : LET t == [type |-> "INCIDENT", id |-> i] IN
         Copies(toasts', t) > Copies(toasts, t) => i \notin told]_vars

(* A gate whose arm is stuck is shown, whatever the row says of the device *)
(* and however many commands are pending: its site is CRITICAL and red     *)
(* unless the overlay marks an anomaly, passes the filters that look for   *)
(* it and is counted; card, grid and canvas mark the gate and offer the    *)
(* recovery buttons.                                                       *)
StuckShown ==
  \A g \in Gates : isStuck(g) =>
    /\ overallHealth = "CRITICAL" /\ statusColor(FALSE) = "red" /\ LocalColor(g) = "red"
    /\ \A f \in {"STUCK", "WARNING"} : filteredSites(f)
    /\ AlertBadge > 0 /\ metrics.warningGates > 0
    /\ CardBadge(g) = "STUCK" /\ GridBadge(g) = "STUCK"
    /\ "reset" \in CardOffers(g) \cap GridOffers(g)

(* `Command acknowledged' is shown only for a command that the gate's      *)
(* machine did accept, whatever polls overlap.                             *)
AckShownActed ==
  \A c \in Commands : "acknowledged" \in cmd[c].said => c \in acted

(* Every command comes to an end on the console: the POST is refused, or   *)
(* its outcome is announced, or a poll of it failed.                       *)
CommandEnds ==
  \A c \in Commands : cmd[c].stage = "polling" ~> cmd[c].stage = "closed"

(* BarrierMapVisualization.tsx:230, `Toast once per newly-detected ML      *)
(* anomaly'.                                                               *)
AnomalyToastedOnce ==
  [][\A g \in anomalies \cap anomalies' :
       LET t == [type |-> "ML_ANOMALY", id |-> g]
       IN  Copies(toasts', t) <= Copies(toasts, t)]_vars

(* BarrierMapVisualization.tsx:114, `Commands awaiting backend ack --      *)
(* disables the button while pending'.                                     *)
AwaitingDisables ==
  \A c \in Commands :
    mounted /\ cmd[c].stage = "polling" /\ row[c] = "sent" => cmd[c].gate \in pending

(* PlatformContext.tsx:1754, `Poll for the ack a couple of times, then     *)
(* surface the outcome'.                                                   *)
OutcomeSurfaced ==
  \A c \in Commands : cmd[c].stage = "polling" ~> cmd[c].said # {}
=============================================================================
