----------------------------- MODULE EdgeOutbox -----------------------------
(***************************************************************************)
(* The durable outbox of the edge: access events that a camera pipeline    *)
(* produces while the broker is away (pipeline.rs) are stored in SQLite    *)
(* (store.rs) and republished by the flush task (runtime.rs) through the   *)
(* request channel of the MQTT client (mqtt.rs).                           *)
(*                                                                         *)
(* Events are numbered in the order in which the pipeline produces them,   *)
(* which is the order of their row ids.  Storing an event takes several    *)
(* SQL statements, each its own transaction, under the mutex of the        *)
(* connection: other tasks cannot come between them, a crash can.          *)
(***************************************************************************)
EXTENDS Integers, Sequences, FiniteSets

CONSTANTS
  MaxOutbox,   \* MAX_OUTBOX, 10000 rows
  BatchSize,   \* rows taken by one drain, 50
  QueueCap,    \* slots of the MQTT request channel, 64
  MaxEvents,   \* bound on the events produced
  MaxCuts      \* bound on the restarts and on the calls cut short by an SQL error

ASSUME OutboxAssumption ==
  /\ MaxOutbox \in Nat \ {0} /\ BatchSize \in Nat \ {0} /\ QueueCap \in Nat \ {0}
  /\ MaxEvents \in Nat /\ MaxCuts \in Nat

VARIABLES
  connected, \* the flag kept by the MQTT event loop
  produced,  \* the number of the last event produced
  pc,        \* what the pipeline is doing with that event
  table,     \* pending_events
  dropped,   \* the dropped_events counter in kv
  over,      \* rows deleted by the eviction in progress
  batch,     \* rows of the flush task's batch that are still to publish
  acking,    \* the row published and not yet acked, or 0
  chan,      \* the MQTT request channel
  received,  \* events the broker has received
  direct,    \* observer: events handed to the MQTT client as they came
  flushed,   \* observer: stored events handed to the MQTT client
  evicted,   \* observer: events deleted by the cap
  unsaved,   \* observer: events whose publish or store failed, or in hand at a crash
  cuts       \* restarts and SQL errors in mid-call so far

pipelineVars == <<produced, pc, dropped, over, direct, evicted, unsaved>>
vars == <<connected, produced, pc, table, dropped, over, batch, acking, chan,
          received, direct, flushed, evicted, unsaved, cuts>>

Events == 1..MaxEvents
Older(e, S) == {x \in S : x < e}
Newer(e, S) == {x \in S : x > e}
Oldest(S) == CHOOSE e \in S : Older(e, S) = {}

Init ==
  /\ connected = FALSE /\ produced = 0 /\ pc = "idle"
  /\ table = {} /\ dropped = 0 /\ over = 0
  /\ batch = {} /\ acking = 0 /\ chan = <<>> /\ received = {}
  /\ direct = {} /\ flushed = {} /\ evicted = {} /\ unsaved = {} /\ cuts = 0

-----------------------------------------------------------------------------
(* run_pipeline: the next event, and the choice between publishing it and  *)
(* storing it.                                                             *)

Produce ==
  /\ pc = "idle" /\ produced < MaxEvents
  /\ produced' = produced + 1
  /\ pc' = IF connected THEN "publish" ELSE "insert"
  /\ UNCHANGED <<connected, table, dropped, over, batch, acking, chan,
                 received, direct, flushed, evicted, unsaved, cuts>>

HasSlot == Len(chan) < QueueCap

(* publish(..).await returns once the channel has taken the event; the     *)
(* link may have been lost meanwhile.                                      *)
PublishDirect ==
  /\ pc = "publish" /\ HasSlot
  /\ chan' = Append(chan, produced) /\ direct' = direct \cup {produced}
  /\ pc' = "idle"
  /\ UNCHANGED <<connected, produced, table, dropped, over, batch, acking,
                 received, flushed, evicted, unsaved, cuts>>

(* publish returns an error, which is logged: the event is gone.           *)
PublishFails ==
  /\ pc = "publish"
  /\ unsaved' = unsaved \cup {produced}
  /\ pc' = "idle"
  /\ UNCHANGED <<connected, produced, table, dropped, over, batch, acking,
                 chan, received, direct, flushed, evicted, cuts>>

(* enqueue_event: the INSERT, and the COUNT.                               *)
Insert ==
  /\ pc = "insert"
  /\ table' = table \cup {produced}
  /\ pc' = IF Cardinality(table') > MaxOutbox THEN "evict" ELSE "idle"
  /\ UNCHANGED <<connected, produced, dropped, over, batch, acking, chan,
                 received, direct, flushed, evicted, unsaved, cuts>>

(* The INSERT fails: the error is logged and the event is gone.            *)
InsertFails ==
  /\ pc = "insert"
  /\ unsaved' = unsaved \cup {produced}
  /\ pc' = "idle"
  /\ UNCHANGED <<connected, produced, table, dropped, over, batch, acking,
                 chan, received, direct, flushed, evicted, cuts>>

(* A mutant: an OFFSET off by one.                                         *)
KeptOneMore == {e \in table : Cardinality(Newer(e, table)) <= MaxOutbox}

(* The newest MaxOutbox rows.                                              *)
Kept == {e \in table : Cardinality(Newer(e, table)) < MaxOutbox}

Overflow == Cardinality(table) - MaxOutbox

(* The DELETE of the oldest rows.                                          *)
Evict ==
  /\ pc = "evict"
  /\ over' = Overflow
  /\ table' = Kept /\ evicted' = evicted \cup (table \ Kept)
  /\ pc' = "count"
  /\ UNCHANGED <<connected, produced, dropped, batch, acking, chan, received,
                 direct, flushed, unsaved, cuts>>

TotalDropped == dropped + over

(* The update of the counter.                                              *)
CountDropped ==
  /\ pc = "count"
  /\ dropped' = TotalDropped /\ over' = 0
  /\ pc' = "idle"
  /\ UNCHANGED <<connected, produced, table, batch, acking, chan, received,
                 direct, flushed, evicted, unsaved, cuts>>

(* A statement after the INSERT fails: enqueue_event returns early.        *)
CutShort ==
  /\ pc \in {"evict", "count"} /\ cuts < MaxCuts
  /\ cuts' = cuts + 1
  /\ pc' = "idle" /\ over' = 0
  /\ UNCHANGED <<connected, produced, table, dropped, batch, acking, chan,
                 received, direct, flushed, evicted, unsaved>>

-----------------------------------------------------------------------------
(* The flush task.                                                         *)

ConnFree == pc \notin {"evict", "count"}

(* A mutant: only a full batch is flushed.                                 *)
DrainableFull == Cardinality(table) >= BatchSize

Drainable == table # {}

(* drain_events: the oldest rows.                                          *)
Drain ==
  /\ batch = {} /\ acking = 0 /\ connected /\ ConnFree /\ Drainable
  /\ batch' = {e \in table : Cardinality(Older(e, table)) < BatchSize}
  /\ UNCHANGED <<connected, pipelineVars, table, acking, chan, received,
                 flushed, cuts>>

(* A mutant: ORDER BY id DESC.                                             *)
NextRowNewest == CHOOSE e \in batch : Newer(e, batch) = {}

NextRow == Oldest(batch)

(* A mutant: the row is acked before it is published.                      *)
FlushPublishAcked ==
  /\ batch # {} /\ acking = 0 /\ ConnFree
  /\ table' = table \ {NextRow} /\ acking' = NextRow
  /\ batch' = batch \ {NextRow}
  /\ UNCHANGED <<connected, pipelineVars, chan, received, flushed, cuts>>

FlushPublish ==
  /\ batch # {} /\ acking = 0 /\ HasSlot
  /\ chan' = Append(chan, NextRow) /\ flushed' = flushed \cup {NextRow}
  /\ acking' = NextRow /\ batch' = batch \ {NextRow}
  /\ UNCHANGED <<connected, pipelineVars, table, received, cuts>>

(* publish returns an error: the rest of the batch waits for the next one. *)
FlushPublishFails ==
  /\ batch # {} /\ acking = 0
  /\ batch' = {}
  /\ UNCHANGED <<connected, pipelineVars, table, acking, chan, received,
                 flushed, cuts>>

(* ack_event; a row the cap has deleted meanwhile is no longer there.      *)
FlushAck ==
  /\ acking # 0 /\ ConnFree
  /\ table' = table \ {acking}
  /\ acking' = 0
  /\ UNCHANGED <<connected, pipelineVars, batch, chan, received, flushed, cuts>>

(* The DELETE fails, which is ignored: the row is published again.         *)
FlushAckFails ==
  /\ acking # 0 /\ ConnFree
  /\ acking' = 0
  /\ UNCHANGED <<connected, pipelineVars, table, batch, chan, received, flushed,
                 cuts>>

-----------------------------------------------------------------------------
(* The MQTT client and the broker.                                         *)

Send ==
  /\ connected /\ chan # <<>>
  /\ received' = received \cup {Head(chan)} /\ chan' = Tail(chan)
  /\ UNCHANGED <<connected, pipelineVars, table, batch, acking, flushed, cuts>>

Link ==
  /\ connected' = ~connected
  /\ UNCHANGED <<pipelineVars, table, batch, acking, chan, received, flushed,
                 cuts>>

(* The process stops and starts again: what is not in SQLite is gone.      *)
Crash ==
  /\ cuts < MaxCuts
  /\ cuts' = cuts + 1
  /\ unsaved' = IF pc \in {"publish", "insert"} THEN unsaved \cup {produced}
                ELSE unsaved
  /\ pc' = "idle" /\ over' = 0 /\ connected' = FALSE
  /\ batch' = {} /\ acking' = 0 /\ chan' = <<>>
  /\ UNCHANGED <<produced, table, dropped, received, direct, flushed, evicted>>

-----------------------------------------------------------------------------
Pipeline == Produce \/ PublishDirect \/ PublishFails \/ Insert \/ InsertFails
            \/ Evict \/ CountDropped \/ CutShort
Flush == Drain \/ FlushPublish \/ FlushPublishFails \/ FlushAck \/ FlushAckFails

Next == Pipeline \/ Flush \/ Send \/ Link \/ Crash

Spec == Init /\ [][Next]_vars

(* The runtime polls its tasks, neither SQLite nor the client's channel    *)
(* fails for ever, and waiting senders are served in their order.          *)
Fairness ==
  /\ WF_vars(Insert \/ InsertFails) /\ WF_vars(Evict) /\ WF_vars(CountDropped)
  /\ SF_vars(Drain) /\ SF_vars(FlushPublish) /\ SF_vars(PublishDirect)
  /\ SF_vars(FlushAck) /\ WF_vars(Send)

FairSpec == Spec /\ Fairness

-----------------------------------------------------------------------------
(* Type invariant.  The request channel of the MQTT client never holds     *)
(* more than its capacity.                                                 *)
TypeOK ==
  /\ connected \in BOOLEAN
  /\ produced \in 0..MaxEvents
  /\ pc \in {"idle", "publish", "insert", "evict", "count"}
  /\ table \subseteq Events /\ batch \subseteq Events
  /\ dropped \in Nat /\ over \in Nat
  /\ acking \in Events \cup {0}
  /\ chan \in Seq(Events) /\ Len(chan) <= QueueCap
  /\ received \subseteq Events
  /\ direct \subseteq Events /\ flushed \subseteq Events
  /\ evicted \subseteq Events /\ unsaved \subseteq Events
  /\ cuts \in 0..MaxCuts

(* Every event the pipeline has dealt with is still in SQLite unless it    *)
(* was handed to the MQTT client, deleted by the cap, or lost with an      *)
(* error before it could be stored: no row is removed before its publish.  *)
Accounted ==
  \A e \in 1..produced :
    \/ e \in table \cup direct \cup flushed \cup evicted \cup unsaved
    \/ e = produced /\ pc \in {"publish", "insert"}

(* What a crash or an SQL error between the three statements of a call     *)
(* costs: the table exceeds its cap by at most one row for each, beside    *)
(* the row being stored, and each hides at most one deleted event from the *)
(* counter that tells the operators about the loss.                        *)
LimitKept ==
  /\ Cardinality(table) <= MaxOutbox + cuts + IF pc = "evict" THEN 1 ELSE 0
  /\ Cardinality(evicted) <= dropped + over + cuts

(* The flush hands no stored event to the client before an older one that  *)
(* is stored too, though rows are evicted, added and fail to be deleted    *)
(* while its batch waits for the channel.                                  *)
FlushInOrder ==
  [][FlushPublish => \A x \in Older(NextRow, table) : x \in flushed]_vars

(* Once the broker stays connected and no more events come, the outbox is  *)
(* emptied, though deletions fail now and then.                            *)
OutboxEmpties == <>[]connected => []<>(table = {})

(* docs/TEST_CASES.md:448, EDG-06: after an outage the stored events are   *)
(* "replayed in order, none lost".  So a stored event is in SQLite or on   *)
(* its way until the broker has it, unless the cap deleted it.             *)
NoneLost ==
  \A e \in 1..produced :
    e \in flushed => \/ e \in table \cup received \cup evicted
                    \/ \E i \in DOMAIN chan : chan[i] = e

=============================================================================
