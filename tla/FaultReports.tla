---------------------------- MODULE FaultReports ----------------------------
(***************************************************************************)
(* Which faults of a gate are published: the tick task of GateIncidents    *)
(* beside an observer of the machine.                                      *)
(***************************************************************************)
EXTENDS GateIncidents

VARIABLE
  sinceClear  \* the machine has left Fault since the last fault was handled

reportVars == <<incidentVars, sinceClear>>

Handles(kind) == Report /\ Head(pending) = Incident(kind)
HandlesFault == Handles("fault") \/ Handles("barrier_relay_latch_fault")

ReportInit == IncidentInit /\ sinceClear = TRUE

ReportNext ==
  \/ /\ HandlesFault
     /\ sinceClear' = (state # "fault")
  \/ /\ IncidentNext /\ ~HandlesFault
     /\ sinceClear' = (sinceClear \/ state' \notin {"fault", "locked"})

ReportSpec == ReportInit /\ [][ReportNext]_reportVars

-----------------------------------------------------------------------------
(* incidents.rs:3-4: repeat reports are dropped "until `clear` re-arms     *)
(* (the orchestrator clears when the FSM leaves Fault)".  So a fault       *)
(* entered after the machine left Fault is published.                      *)
NewFaultPublished ==
  [][Handles("fault") /\ sinceClear => "fault" \notin open]_reportVars

(* The same sentence, of the fault in which the machine waits for an       *)
(* operator: a relay that may be stuck energised.                          *)
NewLatchFaultPublished ==
  [][Handles("barrier_relay_latch_fault") /\ sinceClear
       => "barrier_relay_latch_fault" \notin open]_reportVars

(* fsm.rs:226: a relay link edge is "one incident per transition".  So     *)
(* every restored link is published, as every lost one is.                 *)
EveryLinkUpPublished ==
  [][Handles("barrier_link_up") => "barrier_link_up" \notin open]_reportVars

=============================================================================
