------------------------------ MODULE GateWatch ------------------------------
(***************************************************************************)
(* GateFsm under any driver at all, with observers of what it orders and   *)
(* of what it has seen.  The observers constrain nothing; they let the     *)
(* properties speak about the past.                                        *)
(***************************************************************************)
EXTENDS GateFsm

VARIABLES
  drive,     \* the motion last ordered of the barrier; "none" after a cut
  inhibited, \* a relay latch fault was entered and no reboot followed it
  loopAgo    \* time since a tick last read a vehicle on the loop, NotSet: never

observers == <<drive, inhibited, loopAgo>>
vars == <<fsmVars, observers>>

(* The motion a driver is left with after the calls of a step.             *)
Ordered(cs) ==
  CASE cs = <<>>                 -> drive
    [] cs = <<"energize_open">>  -> "open"
    [] cs = <<"energize_close">> -> "close"
    [] cs = <<"cut_motor">>      -> "none"
    [] OTHER                     -> "home"

WatchInit == Init /\ drive = "none" /\ inhibited = FALSE /\ loopAgo = NotSet

Watched(A) == A /\ drive' = Ordered(calls')

WOpen == Watched(RequestOpen) /\ UNCHANGED <<inhibited, loopAgo>>
WClose == Watched(RequestClose) /\ UNCHANGED <<inhibited, loopAgo>>
WLock == Watched(Lock) /\ UNCHANGED <<inhibited, loopAgo>>
WUnlock == \E r \in Readings : Watched(Unlock(r)) /\ UNCHANGED <<inhibited, loopAgo>>
WReboot == Watched(Reboot) /\ inhibited' = FALSE /\ UNCHANGED loopAgo
WTick(r) ==
  /\ Watched(Tick(r))
  /\ inhibited' = (inhibited \/ LatchTrips(r))
  /\ loopAgo' = IF r.loop THEN 0 ELSE loopAgo
WPass == Watched(Pass) /\ loopAgo' = Later(loopAgo) /\ UNCHANGED inhibited
SomeTick == \E r \in Readings : WTick(r)

WatchNext == WOpen \/ WClose \/ WLock \/ WUnlock \/ WReboot \/ SomeTick \/ WPass

WatchSpec == WatchInit /\ [][WatchNext]_vars

(* The tick task runs every 50 ms and the clock never stops; nobody is     *)
(* obliged to send a command.                                              *)
FairWatchSpec == WatchSpec /\ WF_vars(WPass) /\ WF_vars(SomeTick)

-----------------------------------------------------------------------------
(* Type invariant.  The state a lock remembers is never Locked itself, so  *)
(* that an unlock always has somewhere to go (lock's early return).        *)
WatchTypeOK ==
  /\ TypeOK
  /\ drive \in {"none", "open", "close", "home"}
  /\ inhibited \in BOOLEAN
  /\ loopAgo \in {NotSet} \cup 0..AgeCap

(* The last order given to the barrier agrees with the state the machine   *)
(* reports, whatever calls and ticks interleaved: a locked or faulted gate *)
(* has been cut and not driven since, a travelling one is driven the way   *)
(* it travels, and a gate that reads closed was last driven up only where  *)
(* the board closes by itself (lock, request_*, reboot and tick together). *)
DriveFollowsState ==
  /\ state \in {"locked", "fault"} => drive = "none"
  /\ state = "opening" => drive = "open"
  /\ state = "closing" => drive = "close"
  /\ state = "open" => drive \in {"open", "none"}
  /\ state = "closed" /\ drive = "open" => AutoClose = NotSet

FaultReturned ==
  \E i \in DOMAIN events' :
     events'[i] \in {Incident("fault"), Incident("barrier_relay_latch_fault")}

TravelFault == state \in Moving /\ state' = "fault" => FaultReturned

(* Every fault that stops a travelling arm (overcurrent, stuck, relay      *)
(* latch) returns its incident to the caller: the report-once flag never   *)
(* survives from an earlier fault into a new travel, through any sequence  *)
(* of locks, unlocks and reboots.                                          *)
TravelFaultReported == [][TravelFault]_vars

(* Why TravelFaultReported holds: from the request that starts a travel    *)
(* until a fault, through a lock in between, fault_reported is clear.      *)
ReportArmed ==
  LET before == IF state = "locked" THEN lockedFrom ELSE state
  IN  before \in {"opening", "open", "closing"} => ~faultReported

(* The inductive invariant.                                                *)
GateInv == WatchTypeOK /\ DriveFollowsState /\ ReportArmed

(* The stuck watchdog: an arm does not travel for ever; it arrives, is     *)
(* turned round, is locked or ends in Fault.                               *)
TravelEnds == \A dir \in {"opening", "closing"} : state = dir ~> state # dir

(* fsm.rs:246-247, of a relay latch fault: "inhibit gate commands in Fault *)
(* until an operator performs remediation".  Reboot is the remediation.    *)
LatchFaultInhibits == inhibited => Rejects

(* fsm.rs:26, of auto_close: "pulse CLOSE `delay` after the loop clears".  *)
AutoCloseAfterLoopClears ==
  [][state = "open" /\ calls' = <<"energize_close">> /\ events' # <<>> =>
       loopAgo = NotSet \/ loopAgo >= AutoClose]_vars

=============================================================================
