----------------------------- MODULE GateCommand -----------------------------
(***************************************************************************)
(* A remote gate command from the API to the barrier and back.             *)
(*                                                                         *)
(* API requests that carry one idempotency key (command_service.py) insert *)
(* a row, push the command to the Redis list mqtt:outbox and only then     *)
(* commit; the bridge (mqtt_bridge.py) pops and publishes it; the edge     *)
(* executes it on the gate's state machine (commands.rs), with a log of    *)
(* the commands it has processed; its ack comes back through the bridge    *)
(* while a cron job times out what is still `sent'.                        *)
(*                                                                         *)
(* A command id is the request that created it.  MQTT at QoS 1 may lose a  *)
(* message when a peer is away and may deliver it more than once.          *)
(***************************************************************************)
EXTENDS Integers, Sequences, FiniteSets

CONSTANTS
  Requests,     \* the API requests with the key: a call and its retries
  MaxCrashes    \* bound on the restarts of the edge process

ASSUME CommandAssumption == MaxCrashes \in Nat

None == "none"
ASSUME NoneAssumption == None \notin Requests

VARIABLES
  phase,     \* how far each API request is
  row,       \* status of the committed row of each request, None without one
  late,      \* rows whose timeout_at has passed
  rollbacks, \* requests rolled back after their push
  outbox,    \* the Redis list, oldest first
  popped,    \* the command between brpop and publish in the bridge
  net,       \* commands on their way to the edge
  log,       \* the executor's CommandLog: None, or the stored verdict
  handling,  \* the command the executor is handling, or Idle
  fired,     \* how often the gate's machine accepted each command
  crashes,   \* restarts of the edge process so far
  acks,      \* acks on their way to the bridge
  acking,    \* the open transaction of mark_command_ack, or NoAck
  sweeping   \* rows read by the open transaction of the sweep

apiVars == <<phase, rollbacks>>
edgeVars == <<log, handling, fired, crashes>>
vars == <<phase, row, late, rollbacks, outbox, popped, net, log, handling,
          fired, crashes, acks, acking, sweeping>>

Verdicts == {"ok", "err"}
Acks == [id : Requests, verdict : Verdicts]
Statuses == {"sent", "acknowledged", "failed", "timeout"}
Idle == [id |-> None, verdict |-> "err", step |-> "idle"]
NoAck == [id |-> None, status |-> None, new |-> None]

Init ==
  /\ phase = [r \in Requests |-> "new"]
  /\ row = [r \in Requests |-> None] /\ late = {} /\ rollbacks = 0
  /\ outbox = <<>> /\ popped = None /\ net = {}
  /\ log = [r \in Requests |-> None] /\ handling = Idle
  /\ fired = [r \in Requests |-> 0] /\ crashes = 0
  /\ acks = {} /\ acking = NoAck /\ sweeping = {}

-----------------------------------------------------------------------------
(* issue_command, in the request's database transaction.                   *)

Committed == \E q \in Requests : row[q] # None

(* The SELECT by key: a committed row is returned as it is.                *)
Lookup(r) ==
  /\ phase[r] = "new"
  /\ phase' = [phase EXCEPT ![r] = IF Committed THEN "done" ELSE "looked"]
  /\ UNCHANGED <<row, late, rollbacks, outbox, popped, net, edgeVars, acks,
                 acking, sweeping>>

(* A mutant: the push before the INSERT is flushed, so that the unique     *)
(* index is consulted too late.                                            *)
KeyFreeAlways(r) == TRUE

(* The unique index makes an INSERT wait for the open transaction that     *)
(* inserted the same key.                                                  *)
KeyFree(r) == \A q \in Requests \ {r} : phase[q] \notin {"inserted", "pushed"}

(* db.flush().                                                             *)
Insert(r) ==
  /\ phase[r] = "looked" /\ KeyFree(r)
  /\ phase' = [phase EXCEPT ![r] = IF Committed THEN "error" ELSE "inserted"]
  /\ UNCHANGED <<row, late, rollbacks, outbox, popped, net, edgeVars, acks,
                 acking, sweeping>>

Push(r) ==
  /\ phase[r] = "inserted"
  /\ phase' = [phase EXCEPT ![r] = "pushed"]
  /\ outbox' = Append(outbox, r)
  /\ UNCHANGED <<row, late, rollbacks, popped, net, edgeVars, acks, acking,
                 sweeping>>

(* Redis is down: the transaction is rolled back with nothing pushed.      *)
PushFails(r) ==
  /\ phase[r] = "inserted"
  /\ phase' = [phase EXCEPT ![r] = "error"]
  /\ UNCHANGED <<row, late, rollbacks, outbox, popped, net, edgeVars, acks,
                 acking, sweeping>>

Commit(r) ==
  /\ phase[r] = "pushed"
  /\ phase' = [phase EXCEPT ![r] = "done"]
  /\ row' = [row EXCEPT ![r] = "sent"]
  /\ UNCHANGED <<late, rollbacks, outbox, popped, net, edgeVars, acks, acking,
                 sweeping>>

(* The audit write, the commit or the process fails: the row is gone, the  *)
(* pushed command is not.                                                  *)
Rollback(r) ==
  /\ phase[r] = "pushed"
  /\ phase' = [phase EXCEPT ![r] = "error"]
  /\ rollbacks' = rollbacks + 1
  /\ UNCHANGED <<row, late, outbox, popped, net, edgeVars, acks, acking,
                 sweeping>>

-----------------------------------------------------------------------------
(* The bridge's outbox_publisher, and the broker.                          *)

Pop ==
  /\ popped = None /\ outbox # <<>>
  /\ popped' = Head(outbox) /\ outbox' = Tail(outbox)
  /\ UNCHANGED <<apiVars, row, late, net, edgeVars, acks, acking, sweeping>>

(* client.publish succeeds; or it fails, or the bridge stops, and the      *)
(* popped command is forgotten.                                            *)
Publish ==
  /\ popped # None
  /\ net' \in {net, net \cup {popped}}
  /\ popped' = None
  /\ UNCHANGED <<apiVars, row, late, outbox, edgeVars, acks, acking, sweeping>>

(* Lost: the edge is away from the broker, or its channel of inbound       *)
(* messages is full.                                                       *)
Lose ==
  /\ \/ \E r \in net : net' = net \ {r} /\ UNCHANGED acks
     \/ \E a \in acks : acks' = acks \ {a} /\ UNCHANGED net
  /\ UNCHANGED <<apiVars, row, late, outbox, popped, edgeVars, acking, sweeping>>

-----------------------------------------------------------------------------
(* CommandExecutor::handle on the edge; one task handles one command at a  *)
(* time.                                                                   *)

(* A redelivered command: the stored verdict is sent again.                *)
Replay(r) ==
  /\ handling = Idle /\ r \in net /\ log[r] # None
  /\ net' \in {net, net \ {r}}
  /\ handling' = [id |-> r, verdict |-> log[r], step |-> "ack"]
  /\ UNCHANGED <<apiVars, row, late, outbox, popped, log, fired, crashes, acks,
                 acking, sweeping>>

(* A mutant: the log is not consulted.                                     *)
UnseenAlways(r) == TRUE

Unseen(r) == log[r] = None

(* A new command: the machine accepts it or rejects it.                    *)
Execute(r) ==
  /\ handling = Idle /\ r \in net /\ Unseen(r)
  /\ net' \in {net, net \ {r}}
  /\ \E v \in Verdicts :
       /\ handling' = [id |-> r, verdict |-> v, step |-> "record"]
       /\ fired' = IF v = "ok" THEN [fired EXCEPT ![r] = @ + 1] ELSE fired
  /\ UNCHANGED <<apiVars, row, late, outbox, popped, log, crashes, acks,
                 acking, sweeping>>

(* A mutant: only what the machine accepted is recorded.                   *)
RecordAccepted ==
  /\ handling.step = "record"
  /\ log' = IF handling.verdict = "ok" THEN [log EXCEPT ![handling.id] = "ok"]
            ELSE log
  /\ handling' = [handling EXCEPT !.step = "ack"]
  /\ UNCHANGED <<apiVars, row, late, outbox, popped, net, fired, crashes, acks,
                 acking, sweeping>>

Record ==
  /\ handling.step = "record"
  /\ log' = [log EXCEPT ![handling.id] = handling.verdict]
  /\ handling' = [handling EXCEPT !.step = "ack"]
  /\ UNCHANGED <<apiVars, row, late, outbox, popped, net, fired, crashes, acks,
                 acking, sweeping>>

(* A mutant: every handled command is acked as a success.                  *)
AckOfAlwaysOk(h) == [id |-> h.id, verdict |-> "ok"]

AckOf(h) == [id |-> h.id, verdict |-> h.verdict]

PublishAck ==
  /\ handling.step = "ack"
  /\ acks' = acks \cup {AckOf(handling)}
  /\ handling' = Idle
  /\ UNCHANGED <<apiVars, row, late, outbox, popped, net, log, fired, crashes,
                 acking, sweeping>>

(* The edge process stops and starts again.  Its log is the                 *)
(* InMemCommandLog that runtime.rs gives every executor.                   *)
Crash ==
  /\ crashes < MaxCrashes
  /\ crashes' = crashes + 1
  /\ log' = [r \in Requests |-> None]
  /\ handling' = Idle
  /\ UNCHANGED <<apiVars, row, late, outbox, popped, net, fired, acks, acking,
                 sweeping>>

-----------------------------------------------------------------------------
(* mark_command_ack in the bridge: a SELECT, and an UPDATE of the changed  *)
(* columns when the transaction commits.  An ack for a row that is not     *)
(* committed is dropped.                                                   *)

Acked(a) ==
  [id |-> a.id, status |-> row[a.id],
   new |-> IF a.verdict = "ok" THEN "acknowledged" ELSE "failed"]

AckTxn(a) == IF row[a.id] = None THEN NoAck ELSE Acked(a)

AckRead(a) ==
  /\ acking = NoAck /\ a \in acks
  /\ acks' \in {acks, acks \ {a}}
  /\ acking' = AckTxn(a)
  /\ UNCHANGED <<apiVars, row, late, outbox, popped, net, edgeVars, sweeping>>

AckWrite ==
  /\ acking # NoAck
  /\ row' = IF acking.new = acking.status THEN row
            ELSE [row EXCEPT ![acking.id] = acking.new]
  /\ acking' = NoAck
  /\ UNCHANGED <<apiVars, late, outbox, popped, net, edgeVars, acks, sweeping>>

(* timeout_at passes.                                                      *)
Expire(r) ==
  /\ row[r] # None /\ r \notin late
  /\ late' = late \cup {r}
  /\ UNCHANGED <<apiVars, row, outbox, popped, net, edgeVars, acks, acking,
                 sweeping>>

(* A mutant: the comparison with timeout_at is the wrong way round.        *)
StaleEarly == {r \in Requests : row[r] = "sent"} \ late

Stale == {r \in late : row[r] = "sent"}

(* expire_stale_commands: the SELECT, and the UPDATEs at the commit.       *)
SweepRead ==
  /\ sweeping = {} /\ Stale # {}
  /\ sweeping' = Stale
  /\ UNCHANGED <<apiVars, row, late, outbox, popped, net, edgeVars, acks, acking>>

SweepWrite ==
  /\ sweeping # {}
  /\ row' = [r \in Requests |-> IF r \in sweeping THEN "timeout" ELSE row[r]]
  /\ sweeping' = {}
  /\ UNCHANGED <<apiVars, late, outbox, popped, net, edgeVars, acks, acking>>

-----------------------------------------------------------------------------
Issue(r) == Lookup(r) \/ Insert(r) \/ Push(r) \/ PushFails(r) \/ Commit(r)
            \/ Rollback(r)

Next ==
  \/ \E r \in Requests : Issue(r) \/ Replay(r) \/ Execute(r) \/ Expire(r)
  \/ Pop \/ Publish \/ Lose
  \/ Record \/ PublishAck \/ Crash
  \/ \E a \in acks : AckRead(a)
  \/ AckWrite \/ SweepRead \/ SweepWrite

Spec == Init /\ [][Next]_vars

(* Time passes and the worker runs its cron job; nothing else is owed.     *)
Fairness ==
  /\ \A r \in Requests : WF_vars(Expire(r))
  /\ WF_vars(SweepRead) /\ WF_vars(SweepWrite)

FairSpec == Spec /\ Fairness

-----------------------------------------------------------------------------
(* Type invariant.  An ack is written only to a row that exists (the early *)
(* return of mark_command_ack).                                            *)
TypeOK ==
  /\ phase \in [Requests -> {"new", "looked", "inserted", "pushed", "done", "error"}]
  /\ row \in [Requests -> Statuses \cup {None}]
  /\ late \subseteq Requests /\ rollbacks \in Nat
  /\ outbox \in Seq(Requests) /\ popped \in Requests \cup {None}
  /\ net \subseteq Requests
  /\ log \in [Requests -> Verdicts \cup {None}]
  /\ handling \in {Idle} \cup
       [id : Requests, verdict : Verdicts, step : {"record", "ack"}]
  /\ fired \in [Requests -> Nat] /\ crashes \in 0..MaxCrashes
  /\ acks \subseteq Acks
  /\ acking \in {NoAck} \cup
       [id : Requests, status : Statuses, new : {"acknowledged", "failed"}]
  /\ sweeping \subseteq Requests

(* A row is `acknowledged' only if the gate's machine accepted the command *)
(* at least once, whatever was lost, repeated, replayed or timed out on    *)
(* the way.                                                                *)
AckedWasFired ==
  \A r \in Requests : row[r] = "acknowledged" => fired[r] > 0

(* The machine accepts one command at most once in each life of the edge   *)
(* process: a redelivery is answered from the log.                         *)
FiredOncePerLife == \A r \in Requests : fired[r] <= crashes + 1

(* A row is `failed' only if the machine never accepted the command,       *)
(* unless the edge process was restarted in between.                       *)
FailedNotFired ==
  \A r \in Requests : row[r] = "failed" /\ crashes = 0 => fired[r] = 0

(* Retries of a call reach the outbox as one command, except that each     *)
(* transaction rolled back after its push can leave one more behind.       *)
PushedOncePerKey ==
  Cardinality({r \in Requests : \/ phase[r] = "pushed" \/ row[r] # None
                                \/ r \in net \/ popped = r \/ fired[r] > 0
                                \/ \E i \in DOMAIN outbox : outbox[i] = r})
    <= 1 + rollbacks

(* What a client of the API may rely on.                                   *)
Row == INSTANCE CommandRow WITH
         Commands <- Requests, acted <- {r \in Requests : fired[r] > 0}

(* The rows behave as CommandRow promises the console: created once, never *)
(* `sent' or gone again once settled, `acknowledged' only for what the     *)
(* machine accepted, and no row stays `sent' for ever, whatever            *)
(* mark_command_ack, the sweep and the retries interleave.                 *)
RowImplemented == Row!RowFairSpec

(* docs/requirements/2026-09-28-edge-client-tauri.md:33: a duplicate       *)
(* commandId after an app restart "must re-ack with the stored result, not *)
(* re-fire the relay".                                                     *)
FiredOnce == \A r \in Requests : fired[r] <= 1

(* docs/backend.md:455: the worker marks `timeout' what is `sent' past its *)
(* timeout_at; so never what the edge has acknowledged.                    *)
AckKept ==
  [][\A r \in Requests : row[r] = "acknowledged" => row'[r] # "timeout"]_vars

=============================================================================
