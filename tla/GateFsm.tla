------------------------------- MODULE GateFsm -------------------------------
(***************************************************************************)
(* The barrier state machine of one gate (edge-client, fsm.rs).            *)
(*                                                                         *)
(* Every call of GateFsm runs under one mutex, so a call is one action.    *)
(* The barrier hardware is behind the trait BarrierHal: its sensors are    *)
(* the argument r of Tick and of Unlock, any reading at all, and the calls *)
(* the machine makes on it are recorded in `calls'.  What is proved here   *)
(* therefore holds for every driver, simulated or real.                    *)
(*                                                                         *)
(* Time is counted in units of the 50 ms tick.  Instants are kept as the   *)
(* time since them; the clock stops counting at AgeCap, which is beyond    *)
(* every timeout, so that no comparison in the code can tell the           *)
(* difference.                                                             *)
(***************************************************************************)
EXTENDS Integers, Sequences

CONSTANTS
  StuckTimeout,   \* FsmTuning.stuck_timeout
  AutoClose,      \* FsmTuning.auto_close: a delay, or NotSet when the board closes
  MaxOpenWarn,    \* FsmTuning.max_open_warn_secs
  AgeCap          \* the bound of the two clocks below

NotSet == -1

ASSUME TuningAssumption ==
  /\ StuckTimeout \in Nat /\ MaxOpenWarn \in Nat /\ AgeCap \in Nat
  /\ AutoClose \in Nat \cup {NotSet}
  /\ StuckTimeout < AgeCap /\ MaxOpenWarn < AgeCap /\ AutoClose < AgeCap

VARIABLES
  state,             \* GateState
  lockedFrom,        \* locked_from: the state when the gate was locked
  enteredAgo,        \* time since entered_at
  clearAgo,          \* time since loop_clear_since, NotSet for None
  faultReported,     \* fault_reported
  linkWasOk,         \* link_was_ok
  latchWasFaulted,   \* latch_was_faulted
  openTooLongWarned, \* open_too_long_warned
  calls,             \* the calls on BarrierHal made by the last step, in order
  events             \* the FsmEvents returned by the last step, in order

fsmVars == <<state, lockedFrom, enteredAgo, clearAgo, faultReported,
             linkWasOk, latchWasFaulted, openTooLongWarned, calls, events>>

GateStates == {"closed", "opening", "open", "closing", "locked", "fault"}
Moving == {"opening", "closing"}

(* What a driver can report: HalSensors.  The arm is down, in between or   *)
(* up (90 degrees and more); `over' is motor_current_a > overcurrent_a.    *)
Readings == [angle : {0, 45, 90}, over : BOOLEAN, loop : BOOLEAN,
             link : BOOLEAN, latch : BOOLEAN]

HalCalls == {"energize_open", "energize_close", "cut_motor",
             "relay_power_cycle", "home_calibrate"}
Incidents == {"barrier_link_up", "barrier_link_down", "barrier_relay_latch_fault",
              "fault", "gate_open_too_long"}
Incident(kind) == [type |-> "incident", what |-> kind]
StateChanged(s) == [type |-> "state", what |-> s]
FsmEvents == [type : {"incident"}, what : Incidents] \cup
             [type : {"state"}, what : GateStates]

(* The types of the fields of GateFsm, of its calls on BarrierHal and of   *)
(* the events it returns.                                                  *)
TypeOK ==
  /\ state \in GateStates
  /\ lockedFrom \in GateStates \ {"locked"}
  /\ enteredAgo \in 0..AgeCap
  /\ clearAgo \in {NotSet} \cup 0..AgeCap
  /\ faultReported \in BOOLEAN
  /\ linkWasOk \in BOOLEAN
  /\ latchWasFaulted \in BOOLEAN
  /\ openTooLongWarned \in BOOLEAN
  /\ calls \in Seq(HalCalls)
  /\ events \in Seq(FsmEvents)

Init ==
  /\ state = "closed" /\ lockedFrom = "closed"
  /\ enteredAgo = 0 /\ clearAgo = NotSet
  /\ faultReported = FALSE /\ linkWasOk = TRUE
  /\ latchWasFaulted = FALSE /\ openTooLongWarned = FALSE
  /\ calls = <<>> /\ events = <<>>

-----------------------------------------------------------------------------
(* Commands and access decisions: request_open, request_close, lock,       *)
(* unlock, reboot.  They change the state without returning an event.      *)

Rejects == state \in {"locked", "fault"}

(* A mutant: a new travel does not re-arm the report of its fault.         *)
RequestOpenUnarmed ==
  /\ ~Rejects
  /\ state \notin {"open", "opening"}
  /\ state' = "opening" /\ enteredAgo' = 0
  /\ openTooLongWarned' = FALSE
  /\ calls' = <<"energize_open">> /\ events' = <<>>
  /\ UNCHANGED <<lockedFrom, clearAgo, faultReported, linkWasOk, latchWasFaulted>>

RequestOpen ==
  /\ ~Rejects
  /\ state \notin {"open", "opening"}
  /\ state' = "opening" /\ enteredAgo' = 0
  /\ openTooLongWarned' = FALSE /\ faultReported' = FALSE
  /\ calls' = <<"energize_open">> /\ events' = <<>>
  /\ UNCHANGED <<lockedFrom, clearAgo, linkWasOk, latchWasFaulted>>

RequestClose ==
  /\ ~Rejects
  /\ state \notin {"closed", "closing"}
  /\ state' = "closing" /\ enteredAgo' = 0
  /\ calls' = <<"energize_close">> /\ events' = <<>>
  /\ UNCHANGED <<lockedFrom, clearAgo, faultReported, linkWasOk,
                 latchWasFaulted, openTooLongWarned>>

Lockable == state # "locked"

Lock ==
  /\ Lockable
  /\ lockedFrom' = state
  /\ state' = "locked" /\ enteredAgo' = 0
  /\ calls' = <<"cut_motor">> /\ events' = <<>>
  /\ UNCHANGED <<clearAgo, faultReported, linkWasOk, latchWasFaulted,
                 openTooLongWarned>>

(* A mutant: back to the state the gate was locked in, transient or not.   *)
UnlockedToLockedFrom(r) == lockedFrom

(* The arm's angle decides only when the gate was locked open or opening.  *)
UnlockedTo(r) ==
  IF lockedFrom \in {"open", "opening"} /\ r.angle >= 90 THEN "open" ELSE "closed"

Unlock(r) ==
  /\ state = "locked"
  /\ state' = UnlockedTo(r)
  /\ enteredAgo' = 0 /\ openTooLongWarned' = FALSE
  /\ calls' = <<>> /\ events' = <<>>
  /\ UNCHANGED <<lockedFrom, clearAgo, faultReported, linkWasOk, latchWasFaulted>>

Reboot ==
  /\ Rejects
  /\ state' = "closed" /\ enteredAgo' = 0
  /\ faultReported' = FALSE /\ latchWasFaulted' = FALSE
  /\ calls' = <<"relay_power_cycle", "home_calibrate">> /\ events' = <<>>
  /\ UNCHANGED <<lockedFrom, clearAgo, linkWasOk, openTooLongWarned>>

-----------------------------------------------------------------------------
(* tick(now, dt), with the reading r taken at its start.                   *)

LinkEvents(r) ==
  IF r.link = linkWasOk THEN <<>>
  ELSE <<Incident(IF r.link THEN "barrier_link_up" ELSE "barrier_link_down")>>

(* self.transition(next, ..); its event follows the link event.            *)
MoveTo(next) ==
  /\ state' = next
  /\ IF state = next THEN UNCHANGED <<enteredAgo, openTooLongWarned>>
     ELSE enteredAgo' = 0 /\ openTooLongWarned' = FALSE

MoveEvents(r, next) ==
  IF state = next THEN LinkEvents(r) ELSE Append(LinkEvents(r), StateChanged(next))

(* cut_motor, transition(Fault) and, unless one was already reported, the  *)
(* incident.                                                               *)
EnterFault(r, kind) ==
  /\ MoveTo("fault")
  /\ events' = IF faultReported THEN MoveEvents(r, "fault")
               ELSE Append(MoveEvents(r, "fault"), Incident(kind))
  /\ faultReported' = TRUE
  /\ calls' = <<"cut_motor">>
  /\ UNCHANGED <<lockedFrom, clearAgo>>

LatchTrips(r) == r.latch /\ ~latchWasFaulted
CurrentTrips(r) == state \in Moving /\ r.over

(* The arm reached the end of its travel.                                  *)
Arrived(r) == \/ state = "opening" /\ r.angle >= 90
              \/ state = "closing" /\ r.angle = 0

TickLatch(r) ==
  /\ LatchTrips(r)
  /\ latchWasFaulted' = TRUE
  /\ EnterFault(r, "barrier_relay_latch_fault")

TickOvercurrent(r) ==
  /\ CurrentTrips(r)
  /\ EnterFault(r, "fault")
  /\ UNCHANGED latchWasFaulted

TickArrived(r) ==
  LET next == IF state = "opening" THEN "open" ELSE "closed"
  IN  /\ Arrived(r)
      /\ MoveTo(next) /\ events' = MoveEvents(r, next)
      /\ calls' = <<>>
      /\ UNCHANGED <<lockedFrom, clearAgo, faultReported, latchWasFaulted>>

(* A mutant: the watchdog of one direction is missing.                     *)
OverdueClosing == state = "closing" /\ enteredAgo > StuckTimeout

Overdue == enteredAgo > StuckTimeout

TickStuck(r) ==
  /\ state \in Moving /\ ~Arrived(r) /\ Overdue
  /\ EnterFault(r, "fault")
  /\ UNCHANGED latchWasFaulted

(* Open, and the edge closes: loop_clear_since.get_or_insert(now) and the  *)
(* CLOSE pulse once it is AutoClose old.                                   *)
TickOpenEdge(r) ==
  /\ state = "open" /\ AutoClose # NotSet
  /\ LET since == IF clearAgo = NotSet THEN 0 ELSE clearAgo
     IN  IF r.loop \/ since < AutoClose
         THEN /\ clearAgo' = IF r.loop THEN NotSet ELSE since
              /\ events' = LinkEvents(r) /\ calls' = <<>>
              /\ UNCHANGED <<state, enteredAgo, openTooLongWarned>>
         ELSE /\ clearAgo' = NotSet
              /\ calls' = <<"energize_close">>
              /\ MoveTo("closing") /\ events' = MoveEvents(r, "closing")
  /\ UNCHANGED <<lockedFrom, faultReported, latchWasFaulted>>

(* Open, and the board closes: the machine only observes, and warns once.  *)
TickOpenBoard(r) ==
  /\ state = "open" /\ AutoClose = NotSet
  /\ IF r.angle = 0
     THEN MoveTo("closed") /\ events' = MoveEvents(r, "closed")
     ELSE LET warn == ~openTooLongWarned /\ enteredAgo > MaxOpenWarn
          IN  /\ openTooLongWarned' = (openTooLongWarned \/ warn)
              /\ events' = IF warn
                           THEN Append(LinkEvents(r), Incident("gate_open_too_long"))
                           ELSE LinkEvents(r)
              /\ UNCHANGED <<state, enteredAgo>>
  /\ calls' = <<>>
  /\ UNCHANGED <<lockedFrom, clearAgo, faultReported, latchWasFaulted>>

TickQuiet(r) ==
  /\ \/ state \in {"closed", "locked", "fault"}
     \/ state \in Moving /\ ~Arrived(r) /\ ~Overdue
  /\ events' = LinkEvents(r) /\ calls' = <<>>
  /\ UNCHANGED <<state, lockedFrom, enteredAgo, clearAgo, faultReported,
                 latchWasFaulted, openTooLongWarned>>

Tick(r) ==
  /\ linkWasOk' = r.link
  /\ \/ TickLatch(r)
     \/ ~LatchTrips(r) /\ TickOvercurrent(r)
     \/ /\ ~LatchTrips(r) /\ ~CurrentTrips(r)
        /\ \/ TickArrived(r)
           \/ TickStuck(r)
           \/ TickOpenEdge(r)
           \/ TickOpenBoard(r)
           \/ TickQuiet(r)

(* A unit of time passes.  Ticks may come late: nothing bounds the number  *)
(* of units between two of them.                                           *)
Later(t) == IF t = NotSet \/ t = AgeCap THEN t ELSE t + 1

Pass ==
  /\ enteredAgo' = Later(enteredAgo) /\ clearAgo' = Later(clearAgo)
  /\ calls' = <<>> /\ events' = <<>>
  /\ UNCHANGED <<state, lockedFrom, faultReported, linkWasOk,
                 latchWasFaulted, openTooLongWarned>>

Next ==
  \/ RequestOpen \/ RequestClose \/ Lock \/ Reboot \/ Pass
  \/ \E r \in Readings : Unlock(r) \/ Tick(r)

Spec == Init /\ [][Next]_fsmVars

=============================================================================
