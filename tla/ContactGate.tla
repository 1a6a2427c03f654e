----------------------------- MODULE ContactGate -----------------------------
(***************************************************************************)
(* One gate on a commercial barrier board driven through dry contacts: the *)
(* state machine (GateFsm) over ContactBarrierHal and its actor task       *)
(* (hal/contact.rs).                                                       *)
(*                                                                         *)
(* A HAL call returns at once; it queues pulses for the actor, which is    *)
(* the only task that talks to the relay device, and marks the motion it   *)
(* ordered.  The machine reads back a synthesised angle: the limit         *)
(* switches when they are wired and polled, a travel timer otherwise.      *)
(* Every request to the device may fail, and a request that is reported as *)
(* failed may have taken effect all the same.                              *)
(***************************************************************************)
EXTENDS GateFsm

CONSTANTS
  Toggle,     \* ContactMode::Toggle: one STEP contact opens and closes
  HasStop,    \* outputs.stop is wired
  HasPower,   \* outputs.power is wired
  HasLimits,  \* the inputs, limit switches among them, are wired
  Travel,     \* BarrierProfile.travel_sec
  Hold,       \* BarrierProfile.board_hold_sec
  MaxQueue,   \* bound of the actor's unbounded command channel
  MaxFails    \* bound on the requests to the device that fail

ASSUME WiringAssumption ==
  /\ {Toggle, HasStop, HasPower, HasLimits} \subseteq BOOLEAN
  /\ Travel \in Nat /\ Hold \in Nat /\ MaxQueue \in Nat \ {0} /\ MaxFails \in Nat
  /\ Travel < StuckTimeout    \* tuning_for: travel x 1.5 + 1 s
  /\ Travel + Hold < AgeCap

VARIABLES
  cmds,       \* the actor's channel: outputs to pulse, "power" to cycle
  actor,      \* the output the actor holds energised, "idle", or "power"
  relays,     \* the outputs that are energised, power aside
  unsure,     \* those of them whose ON was reported as failed
  powered,    \* the power contact is closed
  lastCmd,    \* ContactState.last_cmd: the motion last marked
  cmdAgo,     \* time since it was marked
  inputs,     \* ContactState.inputs: [angle, loop], or NoInputs
  linkOk,     \* ContactState.link_ok
  latchFault, \* ContactState.relay_latch_fault
  backoff,    \* a device error less than RETRY_BACKOFF ago
  given,      \* observer: the last contact the board felt
  failed      \* requests to the device that have failed

halVars == <<cmds, actor, relays, unsure, powered, lastCmd, cmdAgo, inputs, linkOk,
             latchFault, backoff, given, failed>>
contactVars == <<fsmVars, halVars>>

Outputs == {"open", "close", "stop"}
NoInputs == [angle |-> NotSet, loop |-> FALSE]
(* The loop is read only where the edge closes the gate.                   *)
Snapshots == [angle : {0, 45, 90},
              loop : IF AutoClose = NotSet THEN {FALSE} ELSE BOOLEAN]

ContactInit ==
  /\ Init
  /\ cmds = <<>> /\ actor = "idle" /\ relays = {} /\ unsure = {} /\ powered = TRUE
  /\ lastCmd = "none" /\ cmdAgo = 0 /\ inputs = NoInputs
  /\ linkOk = TRUE /\ latchFault = FALSE /\ backoff = FALSE
  /\ given = "none" /\ failed = 0

-----------------------------------------------------------------------------
(* The BarrierHal calls of a machine step, as a list of contacts.          *)

CloseOutput == IF Toggle THEN "open" ELSE "close"

Contacts(call) ==
  CASE call = "energize_open"     -> <<"open">>
    [] call = "energize_close"    -> <<CloseOutput>>
    [] call = "home_calibrate"    -> <<CloseOutput>>
    [] call = "cut_motor"         -> IF HasStop THEN <<"stop">> ELSE <<>>
    [] call = "relay_power_cycle" -> IF HasPower THEN <<"power">> ELSE <<>>

AllContacts(cs) ==
  IF Len(cs) = 0 THEN <<>>
  ELSE IF Len(cs) = 1 THEN Contacts(cs[1]) ELSE Contacts(cs[1]) \o Contacts(cs[2])

(* mark(motion).                                                           *)
Marked(cs) ==
  IF cs = <<"energize_open">> THEN "opening"
  ELSE IF cs \in {<<>>, <<"cut_motor">>} THEN "none" ELSE "closing"

(* A mutant: the newest command is served first.                           *)
QueuedFirst(cs) == AllContacts(cs) \o cmds

(* cmd_tx.send: the channel is a queue.                                    *)
Queued(cs) == cmds \o AllContacts(cs)

HalCalled ==
  /\ Len(Queued(calls')) <= MaxQueue
  /\ cmds' = Queued(calls')
  /\ lastCmd' = IF Marked(calls') = "none" THEN lastCmd ELSE Marked(calls')
  /\ cmdAgo' = IF Marked(calls') = "none" THEN cmdAgo ELSE 0
  /\ UNCHANGED <<actor, relays, unsure, powered, inputs, linkOk, latchFault,
                 backoff, given, failed>>

(* A mutant: the board's own closing is not timed.                         *)
TimerAngleNoHold ==
  CASE lastCmd = "none"    -> 0
    [] lastCmd = "opening" -> IF cmdAgo < Travel THEN 45 ELSE 90
    [] lastCmd = "closing" -> IF cmdAgo < Travel THEN 45 ELSE 0

TimerAngle ==
  CASE lastCmd = "none"    -> 0
    [] lastCmd = "opening" -> IF cmdAgo < Travel THEN 45
                              ELSE IF AutoClose = NotSet /\ cmdAgo >= Travel + Hold
                                   THEN 0 ELSE 90
    [] lastCmd = "closing" -> IF cmdAgo < Travel THEN 45 ELSE 0

(* sensors().                                                              *)
Sensors ==
  [angle |-> IF inputs # NoInputs THEN inputs.angle ELSE TimerAngle,
   over |-> FALSE, loop |-> inputs.loop, link |-> linkOk, latch |-> latchFault]

Commanded ==
  /\ RequestOpen \/ RequestClose \/ Lock \/ Unlock(Sensors) \/ Reboot
  /\ HalCalled

Ticked == Tick(Sensors) /\ HalCalled

TimePasses ==
  /\ Pass /\ cmdAgo' = Later(cmdAgo)
  /\ UNCHANGED <<cmds, actor, relays, unsure, powered, lastCmd, inputs, linkOk,
                 latchFault, backoff, given, failed>>

-----------------------------------------------------------------------------
(* The actor.                                                              *)

(* record(): the outcome of a request.  Only a complete pulse clears the   *)
(* latch flag, and only a pulse that could not be released sets it.        *)
Succeeded(complete) ==
  /\ linkOk' = TRUE
  /\ latchFault' = (latchFault /\ ~complete)
  /\ UNCHANGED <<backoff, failed>>

Failed(latched) ==
  /\ failed < MaxFails /\ failed' = failed + 1
  /\ linkOk' = FALSE /\ backoff' = TRUE
  /\ latchFault' = (latchFault \/ latched)

unread == <<lastCmd, cmdAgo, inputs>>

(* run_pulse: ON.  A pulse whose ON fails is over.                         *)
PulseOn ==
  /\ actor = "idle" /\ cmds # <<>> /\ Head(cmds) \in Outputs
  /\ \/ /\ actor' = Head(cmds)
        /\ relays' = relays \cup {Head(cmds)} /\ unsure' = unsure \ {Head(cmds)}
        /\ given' = Head(cmds)
        /\ UNCHANGED <<cmds, linkOk, latchFault, backoff, failed>>
     \/ /\ cmds' = Tail(cmds) /\ Failed(FALSE) /\ UNCHANGED actor
        /\ \/ UNCHANGED <<relays, unsure, given>>
           \/ /\ relays' = relays \cup {Head(cmds)}
              /\ unsure' = unsure \cup ({Head(cmds)} \ relays)
              /\ given' = Head(cmds)
  /\ UNCHANGED <<fsmVars, powered, unread>>

(* run_pulse: OFF, after the hold.  One of the OFF_RETRIES attempts        *)
(* succeeds, or none does.                                                 *)
PulseOff ==
  /\ actor \in Outputs
  /\ \/ relays' = relays \ {actor} /\ Succeeded(TRUE)
     \/ relays' \in {relays, relays \ {actor}} /\ Failed(TRUE)
  /\ actor' = "idle" /\ cmds' = Tail(cmds)
  /\ UNCHANGED <<fsmVars, unsure, powered, given, unread>>

(* PowerCycle: OFF, two seconds, ON; an error ends it where it is.         *)
CutPower ==
  /\ actor = "idle" /\ cmds # <<>> /\ Head(cmds) = "power"
  /\ \/ /\ actor' = "power" /\ powered' = FALSE
        /\ UNCHANGED <<cmds, linkOk, latchFault, backoff, failed>>
     \/ /\ cmds' = Tail(cmds) /\ Failed(FALSE) /\ UNCHANGED actor
        /\ powered' \in {powered, FALSE}
  /\ UNCHANGED <<fsmVars, relays, unsure, given, unread>>

RestorePower ==
  /\ actor = "power"
  /\ \/ powered' = TRUE /\ Succeeded(FALSE)
     \/ powered' \in {powered, TRUE} /\ Failed(FALSE)
  /\ actor' = "idle" /\ cmds' = Tail(cmds)
  /\ UNCHANGED <<fsmVars, relays, unsure, given, unread>>

(* The poll of the inputs, between two commands and outside the back-off.  *)
(* An empty snapshot keeps the last one, a device without inputs has none. *)
PollInputs ==
  /\ actor = "idle" /\ HasLimits /\ ~backoff
  /\ \/ inputs' \in Snapshots \cup {inputs, NoInputs} /\ Succeeded(FALSE)
     \/ inputs' = inputs /\ Failed(FALSE)
  /\ UNCHANGED <<fsmVars, cmds, actor, relays, unsure, powered, lastCmd, cmdAgo,
                 given>>

BackoffEnds ==
  /\ backoff /\ backoff' = FALSE
  /\ UNCHANGED <<fsmVars, cmds, actor, relays, unsure, powered, lastCmd, cmdAgo,
                 inputs, linkOk, latchFault, given, failed>>

Actor == PulseOn \/ PulseOff \/ CutPower \/ RestorePower

ContactNext == Commanded \/ Ticked \/ TimePasses \/ Actor \/ PollInputs \/ BackoffEnds

ContactSpec == ContactInit /\ [][ContactNext]_contactVars

(* The tick task, the clock and the actor run; no command need ever come,  *)
(* and no request need ever succeed.                                       *)
FairContactSpec ==
  /\ ContactSpec
  /\ WF_contactVars(Ticked) /\ WF_contactVars(TimePasses) /\ WF_contactVars(Actor)

-----------------------------------------------------------------------------
(* Type invariant.  Only outputs that the profile wires are queued for the *)
(* actor (close_output, spawn).                                            *)
ContactTypeOK ==
  /\ TypeOK
  /\ cmds \in Seq(Outputs \cup {"power"}) /\ Len(cmds) <= MaxQueue
  /\ actor \in Outputs \cup {"idle", "power"}
  /\ relays \subseteq Outputs /\ unsure \subseteq relays
  /\ lastCmd \in {"none", "opening", "closing"} /\ cmdAgo \in 0..AgeCap
  /\ inputs \in Snapshots \cup {NoInputs}
  /\ given \in Outputs \cup {"none"}
  /\ failed \in 0..MaxFails
  /\ {powered, linkOk, latchFault, backoff} \subseteq BOOLEAN

(* The contact the board will have felt last once the actor has caught up. *)
LastContact == IF cmds = <<>> THEN given ELSE cmds[Len(cmds)]

(* While the device answers, the last contact ordered is the one the       *)
(* machine's state calls for, whatever was queued when: the board of a     *)
(* travelling gate is told to travel that way, and that of a locked or     *)
(* faulted gate with a STOP contact is told to stop.                       *)
BoardFollowsMachine ==
  failed = 0 =>
    /\ state = "opening" => LastContact = "open"
    /\ state = "closing" => LastContact = CloseOutput
    /\ state \in {"locked", "fault"} /\ HasStop => LastContact = "stop"

(* contact.rs:215-216: "Only a successful complete pulse proves the relay  *)
(* accepted an OFF command": between two pulses a relay that was energised *)
(* and not released is flagged as latched.  (A relay whose ON was reported *)
(* as failed counts as never energised: run_pulse does not release it.)    *)
LatchedRelayFlagged == actor = "idle" /\ relays \ unsure # {} => latchFault

(* An open gate whose board closes by itself is seen to close when its     *)
(* limit switches tell nothing (not wired, or a device that stopped        *)
(* listing them): the travel timer does not leave the machine Open.        *)
OpenEnds == <>[](inputs = NoInputs) => (state = "open" ~> state # "open")

(* hal/mod.rs:89, of cut_motor: "Emergency stop - cut motor power          *)
(* immediately".  So no motion contact is closed once the machine has cut. *)
NoMotionAfterCut ==
  [][(state \in {"locked", "fault"}) =>
       relays' \cap {"open", "close"} \subseteq relays]_contactVars

(* fsm.rs:227 and 240, of a lost relay link: the HAL "retries on its own", *)
(* "commands are being retried".  So when the link is back and the actor   *)
(* is idle, the board has felt the last motion ordered.                    *)
OrderReachesBoard ==
  cmds = <<>> /\ actor = "idle" /\ linkOk /\ lastCmd = "opening" /\ state = "opening"
    => given = "open"

=============================================================================
