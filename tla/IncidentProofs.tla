--------------------------- MODULE IncidentProofs ---------------------------
(***************************************************************************)
(* For every tuning, every size of the request channel and every way in    *)
(* which the relay link and the broker come and go: once the tick task has *)
(* handled the events of its tick, the loss of the link is an open         *)
(* incident exactly while the machine sees the link down.                  *)
(***************************************************************************)
EXTENDS GateIncidents, TLAPS

LinkIncidents == {Incident("barrier_link_up"), Incident("barrier_link_down")}

(* The list s starts with the incident of an edge to `up', if there is an  *)
(* edge, and holds no other link incident.                                 *)
LinkFirst(s, edge, up) ==
  /\ s \in Seq(FsmEvents)
  /\ edge => s # <<>> /\ s[1] = Incident(IF up THEN "barrier_link_up" ELSE "barrier_link_down")
  /\ \A i \in 1..Len(s) : s[i] \in LinkIncidents => edge /\ i = 1

(* A link edge is the first event the task has still to handle, or what is *)
(* open agrees with what the machine sees.                                 *)
LinkInv ==
  \/ LinkFirst(pending, TRUE, linkWasOk)
  \/ LinkFirst(pending, FALSE, linkWasOk) /\ (linkWasOk <=> "barrier_link_down" \notin open)

-----------------------------------------------------------------------------
(* The kinds of events are told apart.                                     *)
LEMMA EventKinds ==
  /\ \A k \in Incidents : Incident(k) \in FsmEvents
  /\ \A s \in GateStates : StateChanged(s) \in FsmEvents \ LinkIncidents
  /\ \A k \in Incidents : Incident(k) \in LinkIncidents
        => k \in {"barrier_link_up", "barrier_link_down"}
  /\ {"fault", "gate_open_too_long", "barrier_relay_latch_fault"} \subseteq Incidents
  /\ {"barrier_link_up", "barrier_link_down"} \subseteq Incidents
  BY DEF Incident, StateChanged, FsmEvents, LinkIncidents, Incidents

(* A further event that is no link incident leaves the list as it has to   *)
(* be.                                                                     *)
LEMMA AppendKeeps ==
  ASSUME NEW s, NEW edge \in BOOLEAN, NEW up \in BOOLEAN, LinkFirst(s, edge, up),
         NEW e \in FsmEvents \ LinkIncidents
  PROVE  LinkFirst(Append(s, e), edge, up)
<1>1. s \in Seq(FsmEvents)
  BY DEF LinkFirst
<1>2. /\ Append(s, e) \in Seq(FsmEvents) /\ Append(s, e) # <<>>
      /\ Len(Append(s, e)) = Len(s) + 1
      /\ \A i \in 1..Len(s) : Append(s, e)[i] = s[i]
      /\ Append(s, e)[Len(s) + 1] = e
  BY <1>1
<1>3. edge => Len(s) >= 1
  BY <1>1 DEF LinkFirst
<1>4. QED
  BY <1>1, <1>2, <1>3 DEF LinkFirst

(* A tick returns the edge of the link, if it reads one, before everything *)
(* else.                                                                   *)
LEMMA TickEvents ==
  ASSUME linkWasOk \in BOOLEAN, NEW r \in Readings, Tick(r)
  PROVE  /\ linkWasOk' = r.link /\ r.link \in BOOLEAN
         /\ LinkFirst(events', r.link # linkWasOk, r.link)
<1> DEFINE Good(s) == LinkFirst(s, r.link # linkWasOk, r.link)
<1>1. r.link \in BOOLEAN /\ linkWasOk' = r.link
  BY DEF Readings, Tick
<1>2. Good(LinkEvents(r))
  BY <1>1, EventKinds DEF LinkEvents, LinkFirst
<1>3. ASSUME NEW s, Good(s), NEW e \in FsmEvents \ LinkIncidents PROVE Good(Append(s, e))
  BY <1>1, <1>3, AppendKeeps
<1>4. ASSUME NEW next \in GateStates PROVE Good(MoveEvents(r, next))
  BY <1>2, <1>3, EventKinds DEF MoveEvents
<1>5. ASSUME NEW k \in {"fault", "gate_open_too_long", "barrier_relay_latch_fault"}
      PROVE  Incident(k) \in FsmEvents \ LinkIncidents
  BY EventKinds
<1>6. ASSUME NEW k \in {"fault", "barrier_relay_latch_fault"}, EnterFault(r, k)
      PROVE  Good(events')
  <2>1. Good(MoveEvents(r, "fault"))
    BY <1>4 DEF GateStates
  <2>2. Good(Append(MoveEvents(r, "fault"), Incident(k)))
    BY <1>3, <1>5, <2>1
  <2> HIDE DEF Good
  <2>3. QED
    BY <1>6, <2>1, <2>2 DEF EnterFault
<1> HIDE DEF Good
<1>7. Good(events')
  <2>1. CASE TickLatch(r)
    BY <1>6, <2>1 DEF TickLatch
  <2>2. CASE TickOvercurrent(r)
    BY <1>6, <2>2 DEF TickOvercurrent
  <2>3. CASE TickStuck(r)
    BY <1>6, <2>3 DEF TickStuck
  <2>4. CASE TickArrived(r)
    BY <1>4, <2>4 DEF TickArrived, GateStates
  <2>5. CASE TickOpenEdge(r)
    BY <1>2, <1>4, <2>5 DEF TickOpenEdge, GateStates
  <2>6. CASE TickOpenBoard(r)
    <3>1. Good(MoveEvents(r, "closed"))
      BY <1>4 DEF GateStates
    <3>2. Good(Append(LinkEvents(r), Incident("gate_open_too_long")))
      BY <1>2, <1>3, <1>5
    <3>3. QED
      BY <1>2, <2>6, <3>1, <3>2 DEF TickOpenBoard
  <2>7. CASE TickQuiet(r)
    BY <1>2, <2>7 DEF TickQuiet
  <2>8. QED
    BY <2>1, <2>2, <2>3, <2>4, <2>5, <2>6, <2>7 DEF Tick
<1>8. QED
  BY <1>1, <1>7 DEF Good

(* Handling the first event of the list, whether it is published or        *)
(* dropped as a repeat.                                                    *)
LEMMA ReportKeeps ==
  ASSUME LinkInv, linkWasOk \in BOOLEAN, Report
  PROVE  LinkInv'
<1>1. /\ pending # <<>> /\ pending' = Tail(pending) /\ linkWasOk' = linkWasOk
      /\ pending \in Seq(FsmEvents)
  BY DEF Report, fsmVars, LinkInv, LinkFirst
<1> DEFINE ev == Head(pending)
           armed == open \ ClearedBy(ev)
<1>2. open' = armed \/ (ev.type = "incident" /\ open' = armed \cup {ev.what})
  BY DEF Report
<1>3. ev.type = "incident" => ev.what \in open'
  BY DEF Report
<1>4. /\ Tail(pending) \in Seq(FsmEvents) /\ ev = pending[1] /\ ev \in FsmEvents
      /\ Len(Tail(pending)) = Len(pending) - 1
      /\ \A i \in 1..Len(Tail(pending)) : Tail(pending)[i] = pending[i + 1] /\ i + 1 \in 1..Len(pending)
      /\ 1 \in 1..Len(pending)
  BY <1>1
<1>5. LinkFirst(pending', FALSE, linkWasOk')
  <2>1. \A i \in 1..Len(pending) : pending[i] \in LinkIncidents => i = 1
    BY DEF LinkInv, LinkFirst
  <2>2. \A i \in 1..Len(Tail(pending)) : i \in Nat /\ i # 0
    BY <1>4
  <2>3. \A i \in 1..Len(Tail(pending)) : Tail(pending)[i] \notin LinkIncidents
    BY <1>4, <2>1, <2>2
  <2>4. QED
    BY <1>1, <1>4, <2>3 DEF LinkFirst
<1>6. CASE LinkFirst(pending, TRUE, linkWasOk)
  <2>1. ev = Incident(IF linkWasOk THEN "barrier_link_up" ELSE "barrier_link_down")
    BY <1>4, <1>6 DEF LinkFirst
  <2>2. linkWasOk => "barrier_link_down" \notin open'
    BY <1>2, <2>1 DEF ClearedBy, Incident
  <2>3. ~linkWasOk => "barrier_link_down" \in open'
    BY <1>3, <2>1 DEF Incident
  <2>4. QED
    BY <1>1, <1>5, <2>2, <2>3 DEF LinkInv
<1>7. CASE LinkFirst(pending, FALSE, linkWasOk) /\ (linkWasOk <=> "barrier_link_down" \notin open)
  <2>1. ev \notin LinkIncidents
    BY <1>4, <1>7 DEF LinkFirst
  <2>2. "barrier_link_down" \in open' <=> "barrier_link_down" \in open
    <3>1. CASE ev.type = "incident"
      <4>1. ev = [type |-> "incident", what |-> ev.what]
        BY <1>4, <3>1 DEF FsmEvents
      <4>2. ev.what \notin {"barrier_link_up", "barrier_link_down"}
        BY <2>1, <4>1 DEF LinkIncidents, Incident
      <4>3. QED
        BY <1>2, <4>2, <3>1 DEF ClearedBy
    <3>2. CASE ev.type # "incident"
      <4>1. open' = armed
        BY <1>2, <3>2
      <4>2. "barrier_link_down" \notin ClearedBy(ev)
        BY <3>2 DEF ClearedBy
      <4>3. QED
        BY <4>1, <4>2
    <3>3. QED
      BY <3>1, <3>2
  <2>3. QED
    BY <1>1, <1>5, <1>7, <2>2 DEF LinkInv
<1>8. QED
  BY <1>6, <1>7 DEF LinkInv

(* Every step keeps the invariant.                                         *)
LEMMA LinkStep ==
  LinkInv /\ linkWasOk \in BOOLEAN /\ [IncidentNext]_incidentVars
    => LinkInv' /\ linkWasOk' \in BOOLEAN
<1> SUFFICES ASSUME LinkInv, linkWasOk \in BOOLEAN, [IncidentNext]_incidentVars
             PROVE  LinkInv' /\ linkWasOk' \in BOOLEAN
  OBVIOUS
<1>1. ASSUME UNCHANGED <<pending, open, linkWasOk>> PROVE LinkInv' /\ linkWasOk' \in BOOLEAN
  BY <1>1 DEF LinkInv, LinkFirst
<1>2. CASE TickStep
  <2>1. PICK r \in ContactReadings : Tick(r)
    BY <1>2 DEF TickStep
  <2>2. r \in Readings
    BY DEF ContactReadings
  <2>3. /\ linkWasOk' = r.link /\ r.link \in BOOLEAN
        /\ LinkFirst(events', r.link # linkWasOk, r.link)
    BY <2>1, <2>2, TickEvents
  <2>4. pending = <<>> /\ pending' = events' /\ open' = open
    BY <1>2 DEF TickStep
  <2>5. linkWasOk <=> "barrier_link_down" \notin open
    BY <2>4 DEF LinkInv, LinkFirst
  <2>6. LinkFirst(pending', linkWasOk' # linkWasOk, linkWasOk')
    BY <2>3, <2>4
  <2>7. CASE linkWasOk' = linkWasOk
    BY <2>3, <2>4, <2>5, <2>6, <2>7 DEF LinkInv
  <2>8. CASE linkWasOk' # linkWasOk
    BY <2>3, <2>6, <2>8 DEF LinkInv
  <2>9. QED
    BY <2>7, <2>8
<1>3. CASE Report
  BY <1>3, ReportKeeps DEF Report, fsmVars
<1>4. CASE Command
  <2>1. linkWasOk' = linkWasOk
    BY <1>4 DEF Command, RequestOpen, RequestClose, Lock, Reboot, Unlock
  <2>2. QED
    BY <1>1, <1>4, <2>1 DEF Command
<1>5. CASE Clock
  BY <1>1, <1>5 DEF Clock, Pass, taskVars
<1>6. CASE Drain \/ OtherPublish \/ LinkLost \/ ConnAck \/ Resubscribe
  BY <1>1, <1>6 DEF Drain, OtherPublish, LinkLost, ConnAck, Resubscribe, fsmVars
<1>7. CASE UNCHANGED incidentVars
  BY <1>1, <1>7 DEF incidentVars, fsmVars, taskVars
<1>8. QED
  BY <1>2, <1>3, <1>4, <1>5, <1>6, <1>7 DEF IncidentNext

(* IncidentReporter keeps `barrier_link_down' open exactly while the       *)
(* machine sees the relay link down, whenever the tick task (runtime.rs)   *)
(* has handled its events (LinkReportCurrent).                             *)
THEOREM LinkLossReported == IncidentSpec => []LinkReportCurrent
<1> DEFINE Inv == LinkInv /\ linkWasOk \in BOOLEAN
<1>1. IncidentInit => Inv
  BY DEF IncidentInit, Init, LinkInv, LinkFirst
<1>2. Inv /\ [IncidentNext]_incidentVars => Inv'
  BY LinkStep
<1>3. Inv => LinkReportCurrent
  BY DEF LinkInv, LinkFirst, LinkReportCurrent
<1> HIDE DEF Inv
<1>4. QED
  BY <1>1, <1>2, <1>3, PTL DEF IncidentSpec

=============================================================================
