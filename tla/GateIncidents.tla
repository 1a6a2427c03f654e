---------------------------- MODULE GateIncidents ----------------------------
(***************************************************************************)
(* The tick task of one gate (runtime.rs) and its IncidentReporter         *)
(* (incidents.rs), on a contact-relay gate.                                *)
(*                                                                         *)
(* The task ticks the machine under the mutex, releases it, and then       *)
(* handles the returned events one by one.  Reporting an incident awaits a *)
(* slot in the request channel of the MQTT client, which the client's      *)
(* event loop empties only while the broker is reachable; until the list   *)
(* is handled the task does not tick again.  Commands reach the machine    *)
(* meanwhile.                                                              *)
(***************************************************************************)
EXTENDS GateFsm

CONSTANT QueueCap   \* slots of the MQTT request channel (64 in mqtt.rs)

ASSUME QueueCapAssumption == QueueCap \in Nat \ {0}

VARIABLES
  pending,   \* events of the last tick that the task has still to handle
  open,      \* IncidentReporter.open
  queue,     \* requests waiting in the channel of the MQTT client
  link       \* the event-loop task: "up", "down", or awaiting its subscription

mqttVars == <<queue, link>>
taskVars == <<pending, open, mqttVars>>
incidentVars == <<fsmVars, taskVars>>

(* A contact gate measures no current, and its board owns the closing:     *)
(* tuning_for sets overcurrent_a to infinity.                              *)
ContactReadings == {r \in Readings : ~r.over /\ ~r.loop}

IncidentInit ==
  /\ Init
  /\ pending = <<>> /\ open = {}
  /\ queue = 0 /\ link = "up"

(* Commands and access decisions, from the other tasks.                    *)
Command ==
  /\ \/ RequestOpen \/ RequestClose \/ Lock \/ Reboot
     \/ \E r \in ContactReadings : Unlock(r)
  /\ UNCHANGED <<pending, open, mqttVars>>

TickStep ==
  /\ pending = <<>>
  /\ \E r \in ContactReadings : Tick(r)
  /\ pending' = events'
  /\ UNCHANGED <<open, mqttVars>>

(* A mutant: a restored link does not re-arm the report of its loss.       *)
ClearedByNoLink(ev) ==
  IF ev.type = "incident" THEN {}
  ELSE (IF ev.what # "fault" THEN {"fault"} ELSE {}) \cup
       (IF ev.what # "open" THEN {"gate_open_too_long"} ELSE {})

(* The kinds an event re-arms.                                             *)
ClearedBy(ev) ==
  IF ev.type = "incident"
  THEN IF ev.what = "barrier_link_up" THEN {"barrier_link_down"} ELSE {}
  ELSE (IF ev.what # "fault" THEN {"fault"} ELSE {}) \cup
       (IF ev.what # "open" THEN {"gate_open_too_long"} ELSE {})

(* A mutant: room for the whole list is awaited before its first event.    *)
HasSlotForAll == queue + Len(pending) <= QueueCap

HasSlot == queue < QueueCap

(* clear(..).await and report(..).await for the next event.                *)
Report ==
  /\ pending # <<>>
  /\ LET ev    == Head(pending)
         armed == open \ ClearedBy(ev)
         sends == ev.type = "incident" /\ ev.what \notin armed
     IN  /\ sends => HasSlot
         /\ open' = IF sends THEN armed \cup {ev.what} ELSE armed
         /\ queue' = IF sends THEN queue + 1 ELSE queue
  /\ pending' = Tail(pending)
  /\ UNCHANGED <<fsmVars, link>>

(* The event loop sends a queued request, or writes it to a socket that is *)
(* already dead.                                                           *)
Drain ==
  /\ link = "up" /\ queue > 0
  /\ queue' = queue - 1
  /\ UNCHANGED <<fsmVars, pending, open, link>>

(* Telemetry, heartbeats and access events share the channel; their tasks  *)
(* publish only while the connected flag is set.                           *)
OtherPublish ==
  /\ link # "down" /\ HasSlot
  /\ queue' = queue + 1
  /\ UNCHANGED <<fsmVars, pending, open, link>>

(* poll() fails, as the broker is gone: the flag is cleared.  The client   *)
(* library may move what waits in the channel to its own list of requests  *)
(* to repeat.                                                              *)
LinkLost ==
  /\ link = "up"
  /\ link' = "down"
  /\ queue' \in {0, queue}
  /\ UNCHANGED <<fsmVars, pending, open>>

(* poll() returns a ConnAck: the flag is set before the re-subscription.   *)
ConnAck ==
  /\ link = "down"
  /\ link' = "subscribing"
  /\ UNCHANGED <<fsmVars, pending, open, queue>>

(* subscribe(..).await for the command topic, by the task that otherwise   *)
(* empties the channel.                                                    *)
Resubscribe ==
  /\ link = "subscribing" /\ HasSlot
  /\ link' = "up"
  /\ queue' = queue + 1
  /\ UNCHANGED <<fsmVars, pending, open>>

Clock == Pass /\ UNCHANGED taskVars

IncidentNext ==
  \/ Command \/ TickStep \/ Report \/ Clock
  \/ Drain \/ OtherPublish \/ LinkLost \/ ConnAck \/ Resubscribe

IncidentSpec == IncidentInit /\ [][IncidentNext]_incidentVars

(* The runtime polls its tasks, and the channel serves waiting senders in  *)
(* their order, so a sender is not overtaken for ever; the broker owes     *)
(* nothing.                                                                *)
Fairness ==
  /\ WF_incidentVars(TickStep) /\ SF_incidentVars(Report)
  /\ WF_incidentVars(Clock) /\ WF_incidentVars(Drain)
  /\ SF_incidentVars(Resubscribe)

FairIncidentSpec == IncidentSpec /\ Fairness

-----------------------------------------------------------------------------
(* Type invariant.  The request channel of the MQTT client never holds     *)
(* more than its capacity (connect in mqtt.rs).                            *)
IncidentTypeOK ==
  /\ TypeOK
  /\ pending \in Seq(FsmEvents)
  /\ open \subseteq Incidents
  /\ queue \in 0..QueueCap
  /\ link \in {"down", "subscribing", "up"}

(* Whenever the tick task has handled its events, the loss of the relay    *)
(* link is an open incident exactly while the machine sees the link down:  *)
(* every loss is published, however the link flaps while the task waits    *)
(* for the broker.                                                         *)
LinkReportCurrent ==
  pending = <<>> => (linkWasOk <=> "barrier_link_down" \notin open)

(* While the MQTT event loop keeps being polled the tick task never waits  *)
(* for ever: it keeps coming back to its next tick, however busy the       *)
(* channel is.                                                             *)
TicksResume == <>[](link = "up") => []<>(pending = <<>>)

(* docs/TEST_CASES.md:451, EDG-09: when the broker restarts the "client    *)
(* reconnects; resubscribes to command topic".  So once the broker stays   *)
(* reachable the link comes up and stays up.                               *)
ResubscribedAfterRestart == <>[](link # "down") => <>[](link = "up")

(* docs/edge-client.md:249: an opening gate past its stuck timeout stops   *)
(* and faults; here, while the broker cannot be reached.                   *)
OpeningEndsOffline == <>[](link = "down") => (state = "opening" ~> state # "opening")

=============================================================================
