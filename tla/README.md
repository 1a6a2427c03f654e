# A verification project for ParkVision

ParkVision opens and closes the barriers of car parks. A camera worker reads
number plates, an edge client at the gate (Rust, `src/edge-client/src-tauri`)
decides and drives the barrier, and a backend (Python, `src/backend`) keeps the
tenants, the vehicles, the access events and the payments of the drivers. Edge and
backend talk over MQTT and HTTP, and each has to go on when the other is away.
Operators work with a web console (React, `src/frontend`), drivers with an app
(`src/mobile`); both show state that others change meanwhile.

These TLA+ modules model the parts of the system in which the order of events decides
whether it is right: the state machine of a gate, the driver of its relays, the
reporting of faults, remote commands, the offline outbox, payments and the exit
that a payment allows, memberships, the activation of edge devices, and the session, the
live feed and the pages of the console. TLC checks them on small instances; TLAPS proves every
safety invariant and every action property of the passing runs for all values of the constants.

Contents: [1 The system](#1-the-system) ·
[2 The modules and the code](#2-the-modules-and-the-code) ·
[3 The runs](#3-the-runs) · [4 Fairness](#4-fairness) ·
[5 What is proved](#5-what-is-proved) ·
[6 Where the code and its documents disagree](#6-where-the-code-and-its-documents-disagree) ·
[7 What is not modelled](#7-what-is-not-modelled) · [8 Plan](#8-plan)

## 1 The system

### Parts, state and operations

| Part | State | Operations | What makes it hard |
|---|---|---|---|
| Gate state machine, `fsm.rs` | state, the state before a lock, two instants, four report flags | `request_open`, `request_close`, `lock`, `unlock`, `reboot`, `tick` | any order of commands and ticks; flags that outlive the state they belong to |
| Contact driver, `hal/contact.rs` | command queue of the actor, relays, last motion, snapshot of the inputs, link and latch flags | HAL calls; the actor's pulses, power cycle and poll | the queue lags behind the machine; every request to the device can fail, or take effect and be reported as failed |
| Tick task and incidents, `runtime.rs`, `incidents.rs` | events to handle, set of open incidents | tick, clear, report | the task awaits the MQTT channel while it should watch the arm |
| MQTT client of the edge, `mqtt.rs` | connected flag, request channel of 64, subscriptions | publish, poll, reconnect, re-subscribe | one task both fills and empties the channel |
| Remote commands, `command_service.py`, `mqtt_bridge.py`, `commands.rs` | command rows, Redis list, log of processed commands | issue, publish, execute, ack, sweep | retries, rollback after the push, lost and repeated messages, restarts, a sweep that races an ack |
| Outbox, `store.rs`, `pipeline.rs`, `runtime.rs` | SQLite table, counter of dropped events | enqueue with eviction, drain, ack | a crash between statements; eviction of rows that a flush holds |
| Payments and wallet, `payment_service.py`, `wallet_service.py` | payment rows, wallet and ledger; orders at the provider | create, list, cancel, get, reconcile, IPN, refunds | unlocked read, wait for the provider, write |
| Access events, `event_service.py` | events, grants of paid exits, occupancy | decide, record | the decision is taken before the lock |
| Access decision on the edge, `access.rs` | (pure) | decide over the cached whitelist and rules | agreement with the backend's decision |
| Whitelist sync, `sync.rs` | cursor, cached tables | incremental and full sync | an outage the task does not notice |
| Presence, `parking_service.py`, `mqtt_bridge.py` | open presences, frames to the consoles | detect, relocate, exit, expire | frames lost, or applied to a list loaded earlier |
| Memberships, `membership_service.py` | memberships, whitelist row of the plate | request, approve, reject, activate, suspend, cancel, expire | several memberships share a whitelist row that no handler locks |
| Devices, `gates.py`, `edge.py`, `activation_service.py`, `activation.rs` | devices, activation codes, keys; configuration of the client | register, issue, redeem, revoke, retire, delete, deprovision | one-time codes redeemed at once; retired devices that still hold a key |
| Console session, `client.ts`, `PlatformContext.tsx`, `LoginPage.tsx`, `MfaFlowModal.tsx` | tokens, signed-in user, dialog step, impersonation | sign in, refresh, enrol, act for a tenant, sign out | a 401 in several requests at once; answers to a dialog that was closed |
| Console feed, `PlatformContext.tsx` | socket and retry timer, collections of the tenant | load, connect, retry, apply a frame | effects of a tenant that is no longer the active one |
| Barrier map, `BarrierMapVisualization.tsx`, `barrierMapData.ts` | toasts, pending commands, polls, anomalies | command, resolve, mitigate, dismiss | polls that overlap, incidents that are reloaded |
| Pages of the console (rules, users, vehicles, parking map, devices, memberships) | what was loaded, the open dialog, timers, requests under way | every button of the pages and dialogs | requests and reloads answered in any order; timers that outlive a dialog |
| Driver app, `usePayments.ts` and its screens | payment being watched, interval, busy flag | pay, watch, cancel, leave | one interval for several watches |
| Camera worker and ingest | event queue, worker process | enqueue, retry, supervise | repeated delivery, restart |

### Interactions

* The *camera pipeline* asks the access decision and calls `request_open`; the
  *command executor* calls every method of the machine; the *tick task* calls
  `tick` every 50 ms. All three take one mutex around each call.
* The machine calls `BarrierHal`. The contact driver answers at once and queues
  pulses for its *actor*, the only task that talks to the relay device; the machine
  reads back what the actor has polled, or a travel timer.
* Incidents, telemetry, heartbeats, acks and access events share one request
  channel of the MQTT client; its event-loop task empties it while connected.
* A *command* goes from the API through Redis, the bridge and the broker to the
  executor. Its ack returns through the bridge; a cron job times out the silent ones.
* *Access events* go to the broker directly or, while it is away, to the outbox,
  which the flush task empties. The bridge records them; for an exit that the
  vehicle list denies, the recording looks for a paid payment of the session.
* The *console* changes a collection by a request and then loads the tenant again; live
  frames (gates, incidents, events, vehicle locations) arrive over a WebSocket from the bridge
  and are applied to what is shown. It follows a command by polling its row.
* An *activation code* goes from the console through the installer to the set-up screen of
  the edge client, which exchanges it for a key that HTTP and MQTT accept.
* *Payments* are moved by drivers (API), the provider (IPN), a cron job (reconcile)
  and operators (refund), each in its own READ COMMITTED transaction.

### What correctness means here

A gate never drives an arm in a direction that its state does not show; a travel
always ends; every fault is told to somebody. A command acts once, and its row
tells the truth. An event is not lost without a trace. Money is credited as it was
received, and a paid exit is one exit. A plate is let in while a membership of it is active. A
console shows what the server holds, announces an outcome that really happened, and never
waits for ever. The hazards behind each of these, with the
line where they bite, are listed in `PROJECT.json`.

## 2 The modules and the code

```
GateFsm ─┬─ GateWatch ────── GateProofs         GateCommand ── CommandProofs
         ├─ GateIncidents ┬─ FaultReports       EdgeOutbox ─── OutboxProofs
         │                └─ IncidentProofs     Payments ── PaidExit ─┬─ PaidExitMC
         └─ ContactGate ──── ContactProofs                            └─ PaymentProofs
ConsoleSession ── ConsoleFeed ─┬─ ConsoleMC
                               └─ ConsoleProofs
CommandRow ── BarrierMap ─┐
ConsoleRules ─────────────┤                     Memberships ─┐
ConsoleUsers ─────────────┼─ PagesMC            DriverPay ───┼─ FieldMC
ConsoleVehicles ──────────┤                     EdgeDevices ─┘
ParkingLive ──────────────┘
SurfaceProofs extends the five modules of PagesMC, Memberships and EdgeDevices
```

A line is `EXTENDS`; GateWatch, GateIncidents, ContactGate, PaidExit and ConsoleFeed compose the
module they extend with another part. **CommandRow** is an abstract specification: BarrierMap
extends it as its environment, and GateCommand instantiates it as `Row` and is shown to
implement it. **TenantReload** is instantiated by the five pages that change a collection. `PROJECT.json` maps every definition to its lines.

**GateFsm** is `GateFsm` of `fsm.rs`. Its variables are the fields of the struct;
`calls` and `events` are what the last call did to the HAL and what it returned. A
call is one action, because it runs under the mutex. `tick` is the disjunction of its
exits, in the order of the code: latch trip, overcurrent, arrival, stuck, the two
ways of being open, and the quiet rest. The reading `r` is any sensor reading at all,
so the results hold for every driver. An instant is kept as the time since it, counted up
to `AgeCap`, which lies beyond every timeout: no comparison in the code can tell. A
unit of time may pass any number of times between two ticks: ticks can be late.

**GateWatch** adds three observers (the motion last ordered, an unremedied latch
fault, the time since the loop was last occupied). They constrain nothing.

**GateIncidents** is the tick task of `runtime.rs` with `IncidentReporter` and the event loop
of `mqtt.rs`. The events of a tick go into `pending`; each `Report` step is one
`clear`/`report` await, which needs a slot of the channel. `Drain`, `LinkLost`, `ConnAck`
and `Resubscribe` are the event loop, with the client library (rumqttc, external) as the
code uses it: when the connection breaks it may or may not move queued requests to its own
list. `OtherPublish` stands for telemetry, heartbeats and events on the same channel.
Readings are those of a contact gate, which measures no current. **FaultReports** adds
one observer, whether the machine has left Fault since the last report.

**ContactGate** is the machine over `ContactBarrierHal` and its actor. `HalCalled` is
the queueing and `mark`; `PulseOn`/`PulseOff` the two halves of `run_pulse` (the retries of
OFF are one choice: one of them succeeds or none does); `CutPower`/`RestorePower` the power
cycle; `PollInputs` the poll outside the back-off; `Succeeded`/`Failed` are `record`. A
request that is reported as failed may have taken effect; `unsure` holds the relays it may have
energised. `Sensors` is `sensors()`, limit switches first and then the timer.

**GateCommand** follows the calls with one idempotency key. `Lookup`, `Insert`,
`Push`, `Commit`, `Rollback` are `issue_command` and the end of its request; the unique
index makes an insert wait. `Pop`/`Publish` are `outbox_publisher`,
`Replay`/`Execute`/`Record`/`PublishAck` are `CommandExecutor::handle`, `AckRead`/`AckWrite`
and `SweepRead`/`SweepWrite` are read and commit of `mark_command_ack` and
`expire_stale_commands`. A message in `net` or `acks` may be lost, and taking it
may leave it there: QoS 1 repeats. Whether the machine accepts a command is a free choice
here; GateFsm says when it does.

**EdgeOutbox** takes `enqueue_event` statement by statement, since each is its own SQLite
transaction; the mutex of the connection keeps the flush out (`ConnFree`), a crash does not
care. The flush task publishes one row at a time and deletes it afterwards; a publish that the client
refuses leaves the event (`PublishFails`) or the rest of the batch (`FlushPublishFails`) in the table. Events are numbered
as they are produced, which is the order of their row ids.

**Payments** has one action for a handler that locks its row (IPN, wallet refund) and
two for one that reads without a lock, waits and then writes: `Begin…` stores in `txn` what was read,
`Finish…` commits. `txn[w].stale` are the rows that the handler's lazy sweep read as expired,
which it also writes; `txn[w].saw` are the rows it read as `created`. The job takes the oldest
`JobLimit` rows (`Batches`). A refund that waits for the provider holds its row in `refunding`. `Abort` is every
failure before the commit. The provider (external) settles orders, repeats or loses
notifications, may not answer a query, and refunds an order once. A query of an open or a paid order
may be answered `failed`: `gateways.py:163-167` reads every result code but two so. Every amount is one unit: no
property depends on the size, and the wallet's floor is reached with one.

**CommandRow** is what the backend promises of an accepted command: its row is created once,
is settled (and perhaps settled otherwise later), is never `sent` again, is `acknowledged` only
after the machine acted, and does not stay `sent`. The mapping from GateCommand is the row
itself and the set of the commands that were fired.

**PaidExit** adds `record_access_event` for an exit: `Decide` is the unlocked look of
`decide_access`, `Record` the second look under the lock with the stamp and the commit.
**PaidExitMC** adds the symmetry sets.

**ConsoleSession** has one `call` per flow of the console (first `me()`, login, MFA, data,
impersonation, logout): sent, served with the cookies of that moment, answered, and for a 401
waiting for the one refresh of `client.ts`. `Serve` is the backend (`auth_service.py`) seen
from there: access token, refresh token, MFA secret. What an answer does is one operator per
flow, named for its handler. **ConsoleFeed** adds the two effects of `PlatformContext`:
`FeedEffects` runs cleanup and body when the signed-in state or the tenant has changed;
`socks` holds the sockets of the effect in force and of one that is being closed.

**TenantReload** is the shape of every change in the console: `Begin` (the request), `Served`,
`Fails` or `AnswerLost`, then `loadTenantData`, served and applied. **ConsoleRules**,
**ConsoleUsers**, **ConsoleVehicles**, **ParkingLive** and **EdgeDevices** give it their rows, add the
handlers of the backend as the results of an operation, and have one action per button, dialog
and timer. Filters, search and paging appear as the choice of which rows are on the screen.
ConsoleUsers has a second owner who acts on the server directly. ParkingLive has the presences
and their frames beside the two requests the map is loaded from.

**BarrierMap** derives an item per gate as `buildBarrierLocations` does and from it everything
the map shows and offers; `Effects` are the two effects that raise toasts. `cmd[c]` is a command
that the console follows: its ticks, the polls that are out and what was announced.

**DriverPay** is `usePayments` twice (app and wallet dialog) over an API whose requests may be
lost; **Memberships** has `Begin`/`Finish` steps for handlers that read without a lock. `rv` is the plate's row
in `registered_vehicles`, which the tenant may have registered or blacklisted before, edits
(`SaveVehicle`) and deletes (`DeleteVehicle`), and which the service provisions, takes over and suspends; `rv.by` is
the one who wrote it last. `Granting` is `_activate_membership_row` going through: a blacklisted plate refuses an
operator, while a payment is kept and its membership stays pending. `conflicted` records that a handler
has committed over a change it had not seen (`Fresh`);
**EdgeDevices** (where a redemption may be refused for the client's address, which spends nothing) follows codes and keys to the set-up screen, the operator and lock screens and
the wiping of the configuration (`Factory`).

**ConsoleMC**, **PagesMC** and **FieldMC** put them under TLC. A behaviour has a *scope*, the
part that moves; the conditions named `In…` bound what overlaps within it. Each part has a
specification of its own (`FeedSpec`, `RulesSpec`, `UsersSpec`, `VehiclesSpec`, `ParkingSpec`,
`MembersSpec`, `DevicesSpec`, and `Spec` of BarrierMap) without scope or bound. It is what the theorems
are about; TLC checks restrictions of it.

Definitions whose comment begins with "A mutant" are the plausible mistakes that show each
property can fail; no specification uses them.

## 3 The runs

`tlc -config <cfg> <module>` repeats a run.

| Run | Config, module | Bounds | States | What it shows |
|---|---|---|---|---|
| gate | `GateWatch.cfg`, GateWatch | timeouts 1, auto-close 2, clocks to 3 | 28,466 | the order last given to the barrier agrees with the state (`DriveFollowsState`); a fault that stops a travel is reported (`TravelFaultReported`); a travel ends (`TravelEnds`) |
| incidents | `GateIncidents.cfg`, GateIncidents | channel of 1, timeouts 0 | 331,572 | the loss of the relay link is an open incident exactly while it lasts (`LinkReportCurrent`); with a reachable broker the task always ticks again (`TicksResume`) |
| contact | `ContactGate.cfg`, ContactGate | all contacts wired, queue of 2, one failed request | 750,948 | until a request fails the last contact ordered is the one the state calls for (`BoardFollowsMachine`); without readable limit switches an open gate is still seen to close (`OpenEnds`) |
| command | `GateCommand.cfg`, GateCommand | a call and a retry, one restart | 222,292 | `acknowledged` means accepted (`AckedWasFired`), `failed` means not (`FailedNotFired`, without a restart), one acceptance per process life (`FiredOncePerLife`), one command per key but for rollbacks (`PushedOncePerKey`), and the promise of CommandRow is kept, liveness included (`RowImplemented`) |
| outbox | `EdgeOutbox.cfg`, EdgeOutbox | cap 2, batch 2, channel 1, 4 events, 2 crashes or errors | 153,288 | rows leave the table published or evicted (`Accounted`); a crash or an SQL error costs one row above the cap and one uncounted loss at most (`LimitKept`); the flush keeps the order (`FlushInOrder`); the table empties (`OutboxEmpties`) |
| payments | `Payments.cfg`, Payments | a top-up, a session payment, one API call beside the job, the IPN and the refunds | 108,281 | what is paid, refunded or credited was ordered and paid (`SettledAsOrdered`); credits are bounded by the readers (`CreditsBounded`); a terminal row is overwritten only by a transaction that had read it as `created` (`OverwrittenByReader`); a paid order whose row nobody ends otherwise becomes paid although the notification is lost (`PaidOrderSettles`) |
| paid_exit | `PaidExitMC.cfg`, PaidExitMC | one gate and one exit, two payments, two overlapping API calls and the job, which takes one row | 1,358,278 | nobody leaves on a payment that was never made (`ExitsPaidFor`); one payable payment per session (`OneInFlight`) |
| console | `ConsoleMC.cfg`, ConsoleMC | two requests at once, two tenants, one load; scopes signin, mfa, acting, feed | 159,552 | one refresh rotates the tokens, however many requests met a 401 (`OneRefresh`); a request that may be repeated ends (`RequestEnds`); the MFA dialog shows codes that the server issued (`CodesShownIssued`); one socket, of the active tenant (`OneSocket`), which comes back (`SocketReturns`) |
| pages | `PagesMC.cfg`, PagesMC | two commands, one gate and incident, one or two requests, two rules, two owners and one new user, two vehicles, two zones and levels, one car; fifteen scopes | 364,157 | a stuck gate is shown and can be recovered (`StuckShown`); an incident is toasted once (`ToastedOnce`); "acknowledged" is said of commands the gate accepted (`AckShownActed`) and every command ends (`CommandEnds`); a form is sent once (`SubmissionUnique`); each row of an import is counted (`ImportAccounted`), and an import ends (`ImportEnds`); the history shown is of the vehicle shown (`HistoryOfVehicle`); frames do not drive count and list of a zone apart (`DriftShrinks`) |
| field | `FieldMC.cfg`, FieldMC | two memberships of a plate, a row that is absent, the tenant's or blacklisted and one edit of it, two payments and presses, two polls of a hook at once, two devices, codes and clients; eleven scopes | 751,260 | one membership holds the plate, and a row the service wrote last lets the car in exactly while one does, overlapping handlers included, until one commits over a change it has not seen (`WhitelistFollows`); with the same proviso a blacklisted plate gets no active membership (`BlacklistHolds`); a code is exchanged once (`CodeSpentOnce`); the pay buttons of a hook whose polls do not all fail are always enabled again (`PayingEnds`) |

Two more runs, `payments_credit` and `paid_exit_race`, are expected to fail; see section 6.
Type invariants stand in every module of the edge and the backend; those of GateWatch, GateCommand,
EdgeOutbox and Payments are theorems of their own (section 5), what the other proofs need of theirs is part of
their inductive invariants, and each was checked beside the properties of its run.

### Why the bounds are enough

* *Timeouts of 0 to 2 units.* The machine compares an age with one timeout at a time.
  Ages below, at and above each timeout occur, and a late tick jumps over one.
  `AgeCap` is one past the largest, so it adds no behaviour and removes none.
* *A channel of one slot* is full after one request; a task waiting for it, overtaking, and a batch that
  does not fit all occur. With 64 slots the same happens after more steps.
* *The actor's queue of two*. The real one is unbounded. Two entries give a pulse in
  progress with one behind it and the two contacts of a reboot. A call that would overflow is not taken;
  with three entries (the companion configurations) only more lag appears.
  `BoardFollowsMachine` looks at the last entry only.
* *One failed request* puts every device request once on its failing branch, and the
  properties that allow for failures speak of the state after the first.
* *A call and one retry* are what the unique index has to tell apart; one restart gives
  a command before, during and after it. Both numbers are free in the proofs.
* *Four events, cap two*: two evictions, one of them while a batch of two is held; two
  cuts let an eviction catch up with a row left by an earlier one. `LimitKept`
  counts the cuts, so it is tight.
* *Two session payments and two callers* let two `create_payment` overlap, and one payment be cancelled
  or expired while another is created. `MaxExits` cuts a behaviour off after its first exit;
  two gates that race for one grant are the run `paid_exit_race`. The proofs drop the bounds for both invariants.
* *`JobLimit` 1 and 2 instead of 100*: in `paid_exit` the job leaves a due row for its next start, in
  `payments` it takes all that are due. (More than 100 old rows whose orders stay open would keep the
  job from newer ones; `PaidOrderSettles` is checked below that number.)
* *Scopes.* The pages of the console, and the three parts of FieldMC, share no variable: a
  product of them has no behaviour that a part does not have. Within a part a scope leaves
  out overlaps that touch different state (the rule wizard and the simulator; the wallet dialog
  and a membership's card). No `In…` condition removes the answer to a request that is out, so
  the liveness properties are not helped by them. The companion properties of section 6 widen
  them where an overlap matters (scope `codes`, two operations, two loads). Scope `overlap` of FieldMC
  has the handlers of all parties and the tenant's edits against each other, without the page;
  scope `slow` two polls of a hook at once.
* *Two requests at once* meet one expired token, which is what a shared refresh is for; a
  refresh serves any number in the same way.
* *One or two operations under way* let a reload overtake another and an answer reach another
  dialog. `MaxTries` and `MaxPollTries` are 2 instead of 10 and 20: the last try and one before
  it occur. `MaxTicks` (2) polls of a command may be out at once, so answers overtake each other, in
  scope `polls`; scope `commands` has one poll at a time and two commands.
* *Two memberships, two codes, two clients*: one to supersede or to race the other.
* *Symmetry* in PaidExitMC permutes gates and payments; no definition tells them apart, and
  only invariants are checked with it.

`CHECK_DEADLOCK FALSE` stands where the model may end: every call answered, all events
produced, all payments made, nothing pressed any more.

## 4 Fairness

| Module | Assumed | Because |
|---|---|---|
| GateWatch | weak fairness of the clock and of ticks | the tick task is a 50 ms interval; nothing is assumed of commands or sensors |
| GateIncidents | weak fairness of ticks, clock and `Drain`, strong of `Report` and `Resubscribe` | tokio polls ready tasks, and the bounded channel of the MQTT client serves waiting senders first come, first served, so a sender is not overtaken for ever; the broker owes nothing |
| ContactGate | weak fairness of ticks, clock and actor | three independent tasks; no request need succeed |
| GateCommand | weak fairness of `Expire`, `SweepRead`, `SweepWrite` | time passes and the cron job runs each minute; broker, bridge and edge owe nothing |
| EdgeOutbox | weak fairness of the statements and `Send`, strong of the flush and of waiting senders | SQLite does not fail for ever, nor does the client refuse publishes for ever; `FlushAckFails` and `FlushPublishFails` may repeat but not exclude `FlushAck` and `FlushPublish` for ever |
| Payments | weak fairness of ageing, the job's start and end, and of the end of a refund; strong of the job hearing a verdict | the cron job runs every five minutes, the HTTP client gives up after 15 s, queries do not all fail; drivers, operators and notifications owe nothing |
| ConsoleMC | weak fairness of rendering, of the server and of the refresh; strong of applying an answer once rendered; weak of the retry timer | the browser runs its tasks, and `fetch` ends in an answer or an error; the user owes nothing, tokens may expire at any time |
| PagesMC | weak fairness of the timers, of the ticks of a poll and of the end of each request | `setInterval` and `setTimeout` fire, `fetch` ends; the worker owes nothing: `ImportEnds` holds though it never does its job |
| FieldMC | weak fairness of the interval of a watch, of its time running out and of the end of a poll | the interval fires, and a poll ends in an answer or an error, whichever the network chooses; the driver and the provider owe nothing. `KioskSpec` (for `RevokedLeaves` only) adds weak fairness of booting, connecting and syncing |

Four liveness properties carry a premise the environment decides: `TicksResume` (the event
loop keeps being polled, `link = "up"`), `OpenEnds` (the inputs stay unreadable; limit
switches that lie could show an open gate for ever), `PaidOrderSettles` (nobody cancels, expires or fails the
row) and `PayingEnds` (polls of the hook are answered again and again). What happens without the first, the third and
the fourth is the subject of disagreements below.

## 5 What is proved

`tlapm <module>` repeats the proofs. Each inductive invariant was an invariant of a TLC run
before it was proved. The bounds of section 3 play no part: sets of actors are arbitrary (finite where
they are counted), capacities are any positive number, and the counters that the models
bound are bounded by any natural number.

| Module | Theorem | States | Inductive invariant |
|---|---|---|---|
| GateProofs | `GateTypeCorrect`, `GateDriveSafe`, `GateFaultReported` | `TypeOK`, `DriveFollowsState`, `TravelFaultReported` | `GateInv` |
| CommandProofs | `CommandTypeCorrect`, `AckMeansFired`, `FiringsBounded` | `TypeOK`, `AckedWasFired`, `FiredOncePerLife` | `CommandInv` |
| | `RowRefined` | GateCommand implements CommandRow | `CommandInv`, `RowOwned` |
| | `FailureMeansNotFired` | `FailedNotFired` | `CommandInv`, `VerdictKept` |
| | `OneCommandPerKey` | `PushedOncePerKey` | `RowOwned`, `KeyInv` |
| OutboxProofs | `OutboxTypeCorrect`, `EventsAccounted`, `CapKept`, `FlushOrdered` | `TypeOK`, `Accounted`, `LimitKept`, `FlushInOrder` | `OutboxInv` |
| IncidentProofs | `LinkLossReported` | `LinkReportCurrent` | `LinkInv` |
| ContactProofs | `BoardIsTold` | `BoardFollowsMachine` | `BoardInv` |
| PaymentProofs | `PaymentTypeCorrect`, `SettlementSound` | `TypeOK`, `SettledAsOrdered` | `PaymentInv` |
| | `OnePayable`, `TerminalRows` | `OneInFlight`, `OverwrittenByReader` | `PaymentInv`, `SessionInv` |
| | `CreditsLimited` | `CreditsBounded` | `PaymentInv`, `CreditInv` |
| | `ExitsArePaid` | `ExitsPaidFor`, of PaidExit | `ExitInv` |
| ConsoleProofs | `RefreshShared`, `CodesAreIssued`, `SocketOfActive` | `OneRefresh`, `CodesShownIssued`, `OneSocket` | `RefreshInv`, `CodesInv`, `FeedInv` |
| SurfaceProofs | `CodesUsedOnce` | `CodeSpentOnce`, of EdgeDevices | `CodeInv` |
| | `PlateFollowsMembership`, `BlacklistKept` | `WhitelistFollows`, `BlacklistHolds`, of Memberships | `MemInv` |
| | `OneSubmission` | `SubmissionUnique`, of ConsoleRules | `SubmitInv` |
| | `RowsCounted` | `ImportAccounted`, of ConsoleUsers | `BulkInv` |
| | `HistoryIsOfVehicle` | `HistoryOfVehicle`, of ConsoleVehicles | `HistoryInv` |
| | `AcknowledgedActed`, `StuckIsShown`, `AlertsToldOnce` | `AckShownActed`, `StuckShown`, `ToastedOnce`, of BarrierMap | `AckInv`, `StuckInv`, `ToastInv` |
| | `FramesKeepPace` | `DriftShrinks`, of ParkingLive | `LotInv` |

The *assumptions* are those the modules declare: timings and capacities are natural
numbers in the order that the code's settings imply (`TuningAssumption`, `WiringAssumption`,
`QueueCapAssumption`, `OutboxAssumption`, `CommandAssumption`, `SessionAssumption`), `None` is not the
name of a thing (`NoneAssumption`), the workers and top-ups of `PaymentsAssumption`,
the gates and incidents of `MapAssumption` and the vehicles of `ParkingAssumption` are
finite, and the home tenant is a tenant (`FeedAssumption`).

### Why each invariant is needed

**GateProofs.** For every tuning and every driver. `TravelFaultReported` is not inductive: what it
needs is that `fault_reported` is clear during a travel, and since a lock may intervene, also
while locked from one; that is `ReportArmed`. `DriveFollowsState` needs the conjunct for
`open`, because an unlock returns there after a cut. One lemma per action; the tick has one per exit.

**CommandProofs.** The ack is applied from what was read before, so that its
success must already stand for an acceptance: `CommandInv` says so of every success on its way (in
the log, in the executor, in an ack, in an open transaction), and that a command that is not recorded
in this life was accepted at most once per earlier life, since acceptance and record are
two steps. The refinement has the safety part of `RowImplemented`; a sweep needs a case of its own
there, because it settles a set of rows in one step. `VerdictKept` is the
counterpart for rejections: before the first restart the log remembers every verdict, so what
travels in an ack or waits in a transaction is what the log says, and a command
rejected there never fired. It fails after a restart, and the property says so. `KeyInv` counts the requests whose
command is or was on its way: one transaction holds the key, none once a row is
committed, and one more can follow for each that was rolled back after its push.

**OutboxProofs.** `OrderInv` relates the table, the batch in the hands of the flush and what was evicted: the rows
older than one in the batch wait in it too or were handed over, although an enqueue may
add or evict rows between two publishes. `CapInv` is two inequalities over the
statement that comes next: what the table has above its cap, and what was deleted without being counted, is paid
for by the cuts so far. `LimitKept` speaks of the end of a call only and is not inductive.

**IncidentProofs.** A link edge is found at the start of a tick, so its incident is the first that
the task handles, and no other event of the tick is about the link (`LinkFirst`). Either the edge
is still to be handled, or what is open agrees with what the machine saw. The lemmas list what the
exits of the tick return.

**ContactProofs.** `ChannelInv` ties the actor to the head of its channel, and says that a power
cycle is never the last order, since the machine calls for homing behind it. `StepShape` lists
the calls on the HAL a step of the machine can make, with the states it leaves.

**PaymentProofs.** For any number of top-ups (finitely many), session payments and concurrent callers.
`TypeOK` contains that the balance is never negative. `PaymentInv` adds that a payment without a row has no
order, that a creation works on a row of its own, that what a transaction is to overwrite it has read as `created` (`ReadCreated`), that other transactions work on existing
rows, and that a pending top-up refund is alone and covered by the balance. `SessionInv` adds that
what is in flight while a creation runs is what its sweep will expire, that there is one such
creation, and that a row locked by a refund stays paid. `CreditInv` counts the open readers of a row:
nothing is credited while the row is in flight, and once it has ended nobody reads it as `created`
any more, so each further credit uses up a reader. `ExitInv` needs that money once received is
not forgotten while a decided exit waits for its lock (`PaidStays`).

**ConsoleProofs.** `RefreshInv` ties the number of refreshes under way to the promise that the requests
share. `CodesInv` follows the codes back through the answer under way, because a dialog that was
closed and opened again shows the answer of the earlier one. `FeedInv` says that every effect instance but
the one in force is closed, without a timer and with a socket that is closing at most.

**SurfaceProofs.** *Codes:* a code that may still be used, or that an open re-issue has locked, is
unspent, and two open re-issues lock different codes. *Memberships:* handlers may overlap, so nothing can be said of
what an open one has read; `Fresh` says of the one that commits that what it writes over is as it read
it. While none has committed otherwise, one membership holds the row at most (`OneHolder`), and a row
the service wrote last is active exactly while one does (`HolderInv`): an activation revokes the
holders it read, which are all of them (`GrantCommit`), every other commit can only take holders away
(`CommitHolder`), and no step but a granting commit makes a membership active (`NoneBecomesActive`),
from which `BlacklistHolds` follows, since a fresh commit has seen the tag. *Rules:* a submission is under
way exactly while its one timer runs. *Import:* rows done, failed and left add up to the file, and what was
made lies between the successes and all that is over. *History:* each answer under way is about a vehicle
on the screen, or will be ignored. *Barrier map:* "acknowledged" in a row, in an unanswered poll or in a message stands for a gate that
acted; health and status of an item agree on a fault; an alert that the map has had
is in `seen`, and no step but an effect adds copies of a toast (the lemmas map the
places of a filtered, cut or shortened list into those of the list before). *Parking map:* counts are natural numbers and a
vehicle is listed once, in what is shown and in every answer under way.

### What the proofs changed in the models

A CASE whose guards overlap has no determined value in TLA+, while TLC takes the first arm that holds. The
definitions that read the code's `if`/`else if` chains in this way (verdicts of
Memberships, health and buttons of BarrierMap, answers in ConsoleSession and ConsoleVehicles) could not be
reasoned about and are IF chains now. `filter` in BarrierMap is defined by the places of
what it keeps. `MapAssumption` and `ParkingAssumption` name the finiteness that counting needs. The pages
got specifications of their own, without the scopes of the runs.

### Only model-checked

The *liveness* properties, which need fairness and ENABLED: `TravelEnds`, `TicksResume`, `OpenEnds`,
`OutboxEmpties`, `PaidOrderSettles`, `RequestEnds`, `SocketReturns`, `CommandEnds`, `ImportEnds`,
`PayingEnds` and the liveness part of `RowImplemented`.

## 6 Where the code and its documents disagree

Each row is a property that states what a document, a comment or a test case says; TLC refutes
it for what the code does. The first two are runs of the project.

| Config (module) | Property | Code | What is said | What happens |
|---|---|---|---|---|
| `PaymentsCredit` (Payments) | `CreditedOnce` | `payment_service.py:511` | `docs/requirements/2026-10-12-phase4-payments-ops.md:45` "topup paid → credited once" | a refresh that read `created` credits again after the IPN has |
| `PaidExitRace` (PaidExit) | `ExitOncePerPayment` | `event_service.py:305` | `event_service.py:186-187` "allowed once per paid session payment" | two gates decide before either stamps; both exits are recorded as allowed |

For the remaining ones of the edge and the backend, check the property in the configuration
named, in place of the properties that stand there:

| Config (module) | Property | Code | What is said | What happens |
|---|---|---|---|---|
| `GateWatch` (GateWatch) | `LatchFaultInhibits` | `fsm.rs:182` | `fsm.rs:246-247` "inhibit gate commands in Fault until an operator performs remediation" | lock and unlock lead from a latch fault to Closed, and the gate opens again |
| `GateWatch` (GateWatch) | `AutoCloseAfterLoopClears` | `fsm.rs:302` | `fsm.rs:26` "pulse CLOSE `delay` after the loop clears" | `loop_clear_since` of an earlier passage closes the gate at once |
| `GateIncidents` (GateIncidents) | `ResubscribedAfterRestart` | `mqtt.rs:134` | `docs/TEST_CASES.md:451` "client reconnects; resubscribes to command topic" | the event loop awaits a slot of the channel that only it empties; when the channel is full it never polls again |
| `GateIncidents` (GateIncidents) | `OpeningEndsOffline` | `runtime.rs:320`, `mqtt.rs:110` | `docs/edge-client.md:249`: past the stuck timeout, stop and fault | offline, the tick task waits for a slot, and the watchdog with it |
| `FaultReports` (FaultReports) | `NewFaultPublished` | `runtime.rs:324` | `incidents.rs:3-4` "clears when the FSM leaves Fault" | a reboot leaves Fault without an event; the next fault is dropped as a repeat |
| `FaultReports` (FaultReports) | `NewLatchFaultPublished` | `runtime.rs:320` | the same | nothing clears the latch kind; only the first of a process is published |
| `FaultReports` (FaultReports) | `EveryLinkUpPublished` | `runtime.rs:315` | `fsm.rs:226` "one incident per transition" | nothing clears `barrier_link_up` |
| `ContactGateLatch` (ContactGate) | `LatchedRelayFlagged` | `contact.rs:217` | `contact.rs:215-216` "Only a successful complete pulse proves the relay accepted an OFF command" | the pulse of another output clears the one flag |
| `ContactGateStop` (ContactGate) | `NoMotionAfterCut` | `contact.rs:153` | `hal/mod.rs:89` "cut motor power immediately" | STOP waits behind older pulses |
| `ContactGateRetry` (ContactGate) | `OrderReachesBoard` | `contact.rs:249` | `fsm.rs:227,240` "retries on its own", "commands are being retried" | a pulse whose ON fails is gone |
| `GateCommandRestart` (GateCommand) | `FiredOnce` | `runtime.rs:280` | `docs/requirements/2026-09-28-edge-client-tauri.md:33` "must re-ack with the stored result, not re-fire the relay" | the log is in memory; a redelivery after a restart fires again |
| `GateCommandSweep` (GateCommand) | `AckKept` | `command_service.py:126` | `docs/backend.md:455`: `timeout` for what is `sent` too long | the sweep overwrites an ack committed after its SELECT |
| `EdgeOutboxLost` (EdgeOutbox) | `NoneLost` | `runtime.rs:499` | `docs/TEST_CASES.md:448` "none lost" | the row is deleted when the client has queued it; a restart empties that queue |
| `PaymentsCredit` (Payments) | `TerminalKept` | `payment_service.py:550` | `payment_service.py:26` "Terminal rows are never mutated again" | a cancellation overwrites a row paid since it was read |
| `PaymentsSettlement` (Payments) | `OneSettlement` | `payment_service.py:511` | `docs/requirements/2026-10-12-phase4-payments-ops.md:46` "at most one payable payment and one settlement" | a late refresh revives a cancelled payment of a session that was paid again |
| `Payments` (Payments), `ParkRows = {}` | `PaidNoticed` | `payment_service.py:91` | `jobs.py:360` "to recover lost IPN callbacks" | a lazy sweep writes `expired` on a row whose order is paid; the job leaves such rows alone |
| `PaymentsCredit` (Payments) | `FailedAsOrdered` | `gateways.py:163-167` | `jobs.py:363-364` "Failed or unknown query results leave the payment unchanged for a later sweep" | every result code but two is `failed`, so a query that the provider could not serve ends the row of an open or paid order |
| `PaymentsCredit` (Payments) | `RefusedRowKept` | `payment_service.py:437` | `docs/TEST_CASES.md:320` "payment row `failed` persisted" | the 409 rolls the row back |

For the console, the memberships, the driver app and the devices, replace the properties in the
configuration of the run by the one named, and `Scopes` by the scope:

| Run, scope | Property | Code | What is said | What happens |
|---|---|---|---|---|
| console, `mfa` | `EnabledVerified` | `auth_service.py:725` | `MfaFlowModal.tsx:84` "MFA only becomes enabled after the first OTP verifies" | a new set-up overwrites the secret of an account whose MFA stays enabled |
| console, `acting` | `BannerShown` | `PlatformContext.tsx:1454` | `App.tsx:204` "Impersonation banner — shown while a platform admin browses a tenant's portal" | a reload forgets it, the cookies do not |
| console, `acting` | `LogoutSticks` | `PlatformContext.tsx:473` | `MfaFlowModal.tsx:205` "drop to a signed-out state locally" | an answer that was under way signs in again |
| console, `feed`, `MaxLoads = 2` | `TenantShown` | `PlatformContext.tsx:735` | — (the data shown are the active tenant's) | a load of the former tenant is applied last |
| pages, `alerts` | `AnomalyToastedOnce` | `BarrierMapVisualization.tsx:232` | `:230` "Toast once per newly-detected ML anomaly" | the id contains the time; each evaluation is new |
| pages, `commands` | `AwaitingDisables` | `BarrierMapVisualization.tsx:929` | `:114` "disables the button while pending" | the timer of an earlier command clears the entry |
| pages, `commands` | `OutcomeSurfaced` | `PlatformContext.tsx:1775` | `:1754` "then surface the outcome" | a failed poll ends the polling silently |
| pages, `rules` | `DenyEnforced` | `PlatformContext.tsx:1980` | `CreateEditRuleModal.tsx:1004` "Barrier remains closed" | the type stored is `deny`, the decision only knows `deny_list` |
| pages, `wizard` | `DraftInactive` | `PlatformContext.tsx:2000` | `:546` "without active gate enforcement" | every rule is created with `active: true` |
| pages, `rules` | `EchoesStored` | `PlatformContext.tsx:2039` | `:2041` "echo the stored rule alongside the toggle" | the type sent is the upper-case code that is shown, and the gates are missing |
| pages, `rules` | `ReorderReindexes` | `PlatformContext.tsx:2089` | `RulePriorityReorderModal.tsx:163` "Priorities will automatically re-index" | the requests lack what the server requires |
| pages, `users`, `MaxUserOps = 2` | `OwnerRemains` | `users.py:97` | "A tenant must always keep at least one active owner" | two owners demote each other; both counted before either wrote |
| pages, `users` | `RoleKnown` | `ChangeRoleDialog.tsx` | "Confirm Role Change" | the role sent is none the server knows |
| pages, `fleet` | `CountsReal` | `PlatformContext.tsx:1923` | "Poll until the worker finishes to get real counts" | after the last poll the counts are made up |
| pages, `vehicles` | `AssignKeeps` | `AssignMemberModal.tsx` | the dialog opens with the vehicle's member | its state is made once, before any vehicle is chosen, and keeps the last choice |
| pages, `lot` | `SeenNoChange` | `PlatformContext.tsx:998` | "stale still counts as occupied; seen → no change" | a `seen` frame with another zone moves the count |
| pages, `zones` | `CoverageSynced` | `ZoneEditorSheet.tsx:109` | "each selected monitor camera should cover this zone" | the full list of a camera is sent, from a map loaded earlier |
| field, `slow` | `WatchedToTheEnd` | `usePayments.ts:60` | the hook polls "until the payment reaches a terminal state" | a late poll of an earlier watch clears the newer interval |
| field, `slow` | `PollingTimesOut` | `usePayments.ts:59` | `usePayments.ts:67` "keep polling until timeout" | the time-out is looked at after a poll that succeeded; while polls fail the hook stays busy |
| field, `overlap` | `WhitelistFollowsAlways` | `membership_service.py:245` | a revoked membership suspends the whitelist entry | a cancellation that read `pending` overwrites an activation, and the plate stays on the whitelist |
| field, `overlap` | `BlacklistHoldsAlways` | `membership_service.py:272` | `test_memberships_api.py:427` "the blacklist tag takes precedence" | an activation that read the row before the tenant blacklisted it makes it a member's row again |
| field, `codes` | `CodeOfDialog` | `DeviceActionDialogs.tsx:184` | the dialog's title names the device | the answer for another device arrives late |
| field, `kiosk` | `RetiredShutOut` | `gates.py:541` | the dialogs retire or delete a device | its key stays active, and `mqtt_auth` does not look at the status |
| field, `kiosk`, `KioskSpec` | `RevokedLeaves` | `runtime.rs:411` | the dialog: "the client deprovisions itself" | it learns of it only by a sync, which runs while MQTT is connected |

The passing runs say what does hold in each place: `CreditsBounded` and `OverwrittenByReader`
beside `CreditedOnce` and `TerminalKept`, `FiredOncePerLife` beside `FiredOnce`, `ExitsPaidFor`
beside `ExitOncePerPayment`, `ToastedOnce` beside `AnomalyToastedOnce`, `WhitelistFollows` and `BlacklistHolds` beside
`WhitelistFollowsAlways` and `BlacklistHoldsAlways`, `CodeSpentOnce` beside `CodeOfDialog`, `PaidOrderSettles` beside
`PaidNoticed`, `SettledAsOrdered` beside `FailedAsOrdered`, `PayingEnds` beside `PollingTimesOut` and `WatchedToTheEnd`, `Accounted` beside `NoneLost`, `BoardFollowsMachine` beside `NoMotionAfterCut`.

## 7 What is not modelled

* *Wiring other than the preset one.* ContactGate has the switches for toggle boards and missing
  STOP, power or limit contacts; only the full wiring is a run (the companion
  configurations vary it). The relay devices themselves are I/O behind a trait; the simulated barrier is
  one of the drivers that GateFsm's free readings cover.
* *MQTT sessions.* TLS, credentials and keep-alive; packet ids and the library's own list of
  unconfirmed publishes appear only as "may be sent again".
* *Amounts and pricing.* A payment's amount is one unit. A membership payment is
  deduplicated like a session's, under the lock of its own row; what it activates is in
  Memberships, where the gateway is one of the parties. An edit that gives a vehicle's row another plate is left out there.
* *What a second refund request does* when the answer of the first was lost
  (`payment_service.py:710`): the provider's contract, which the repository does not state.
* *Database locks as a graph.* A deadlock in PostgreSQL ends in an abort, which the models have.
* *Access decision, whitelist sync, the occupancy counter, camera ingest and its queue:* planned, below.
* *The rest of the console:* dashboards, sites, gates, cameras, audit logs, platform administration
  and the landing page show what was loaded or change a collection in the way of TenantReload.
  Of the modelled pages, drawing, texts, formatting and the fields that no operation looks at.
* *The driver app's* map, vehicles and profile screens: views of the API.
* *Formatting, pure reads, numerical detection, vendored code:* no protocol state, or outside TLC's reach.

## 8 Plan

The order was: the gate machine and its proofs; what stands around it on the edge (driver,
incidents, commands, outbox); money (payments, paid exits); the abstract command row and its
refinement; the console (session and feed, then its pages); memberships, the driver app and the
activation of devices. What comes next, most important first:

1. **WhitelistSync** (`sync.rs`, `runtime.rs:392-463`, the backend's deltas): incremental sync by
   cursor against full reconciliation; an outage shorter than the interval is not seen
   (`runtime.rs:411`). Property: once synced, a removed vehicle is not admitted.
2. **AccessDecision**: `access.rs` and `decide_access` as operators over one small whitelist and rule
   set, compared input by input; then composed with the sync and with ConsoleRules.
3. **Occupancy** (the counter of `event_service.py`): repeated and late events, floor and cap, and
   the console's own counting of events.
4. **Camera queue** (`anpr-worker/edge/camera_event_queue.py`): retries and restart.
5. **Abstract specifications**: a ledger that Payments implements up to the repeated credit; a
   barrier that is ordered and stopped, which ContactGate implements while its device answers.
6. **Proofs**: type correctness of the modules whose types are only model-checked (GateIncidents,
   ContactGate, Memberships, EdgeDevices); that each passing page property holds in the composition of
   its run as well; the abstract specifications of 5, once they are stated.
