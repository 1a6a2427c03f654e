----------------------------- MODULE GateProofs -----------------------------
(***************************************************************************)
(* Proofs about the gate machine, for every tuning and every driver.       *)
(***************************************************************************)
EXTENDS GateWatch, TLAPS

(* The clock of an instant stays within its bound.                         *)
LEMMA LaterType ==
  ASSUME NEW t \in {NotSet} \cup 0..AgeCap
  PROVE  /\ Later(t) \in {NotSet} \cup 0..AgeCap
         /\ t \in 0..AgeCap => Later(t) \in 0..AgeCap
  BY TuningAssumption DEF TuningAssumption, Later, NotSet

(* The events a tick starts and moves with are events.                     *)
LEMMA EventTypes ==
  ASSUME NEW r \in Readings, NEW s \in GateStates
  PROVE  /\ LinkEvents(r) \in Seq(FsmEvents)
         /\ MoveEvents(r, s) \in Seq(FsmEvents)
         /\ \A k \in Incidents : /\ Append(LinkEvents(r), Incident(k)) \in Seq(FsmEvents)
                                 /\ Append(MoveEvents(r, s), Incident(k)) \in Seq(FsmEvents)
  <1>1. \A k \in Incidents : Incident(k) \in FsmEvents
    BY DEF Incident, FsmEvents
  <1>2. StateChanged(s) \in FsmEvents
    BY DEF StateChanged, FsmEvents
  <1>3. LinkEvents(r) \in Seq(FsmEvents)
    BY <1>1 DEF LinkEvents, Incidents
  <1>4. MoveEvents(r, s) \in Seq(FsmEvents)
    BY <1>2, <1>3 DEF MoveEvents
  <1> QED BY <1>1, <1>3, <1>4

(* transition() keeps the two fields it may reset in their types.          *)
LEMMA MoveToType ==
  ASSUME TypeOK, NEW s, MoveTo(s)
  PROVE  enteredAgo' \in 0..AgeCap /\ openTooLongWarned' \in BOOLEAN
  <1>1. 0 \in 0..AgeCap
    BY TuningAssumption DEF TuningAssumption
  <1>2. CASE state = s
    BY <1>2 DEF MoveTo, TypeOK
  <1>3. CASE state # s
    BY <1>1, <1>3 DEF MoveTo
  <1> QED BY <1>2, <1>3

(* A fault step of a tick: what EnterFault establishes.                    *)
LEMMA EnterFaultStep ==
  ASSUME GateInv, NEW r \in Readings,
         NEW k \in {"fault", "barrier_relay_latch_fault"}, EnterFault(r, k)
  PROVE  /\ state' = "fault" /\ calls' = <<"cut_motor">> /\ faultReported' = TRUE
         /\ events' \in Seq(FsmEvents) /\ calls' \in Seq(HalCalls)
         /\ enteredAgo' \in 0..AgeCap /\ openTooLongWarned' \in BOOLEAN
         /\ lockedFrom' = lockedFrom /\ clearAgo' = clearAgo
         /\ ~faultReported => events' = Append(MoveEvents(r, "fault"), Incident(k))
  <1>1. "fault" \in GateStates /\ k \in Incidents
    BY DEF GateStates, Incidents
  <1>2. MoveEvents(r, "fault") \in Seq(FsmEvents) /\
        Append(MoveEvents(r, "fault"), Incident(k)) \in Seq(FsmEvents)
    BY <1>1, EventTypes
  <1>3. enteredAgo' \in 0..AgeCap /\ openTooLongWarned' \in BOOLEAN
    BY MoveToType DEF EnterFault, GateInv, WatchTypeOK
  <1> QED BY <1>2, <1>3 DEF EnterFault, MoveTo, HalCalls

(* The motion left by each of the lists of calls the machine makes.        *)
LEMMA OrderedValue ==
  /\ Ordered(<<>>) = drive
  /\ Ordered(<<"energize_open">>) = "open"
  /\ Ordered(<<"energize_close">>) = "close"
  /\ Ordered(<<"cut_motor">>) = "none"
  /\ Ordered(<<"relay_power_cycle", "home_calibrate">>) = "home"
  <1>1. /\ Len(<<>>) = 0 /\ Len(<<"energize_open">>) = 1
        /\ Len(<<"energize_close">>) = 1 /\ Len(<<"cut_motor">>) = 1
        /\ Len(<<"relay_power_cycle", "home_calibrate">>) = 2
    OBVIOUS
  <1>2. /\ <<"energize_open">>[1] = "energize_open"
        /\ <<"energize_close">>[1] = "energize_close"
        /\ <<"cut_motor">>[1] = "cut_motor"
    OBVIOUS
  <1> QED BY <1>1, <1>2 DEF Ordered

(* Commands preserve the invariant.                                        *)
LEMMA OpenKeeps == GateInv /\ WOpen => GateInv'
  <1> SUFFICES ASSUME GateInv, WOpen PROVE GateInv'
    OBVIOUS
  <1> USE DEF WOpen, Watched, RequestOpen, GateInv, WatchTypeOK, TypeOK
  <1>1. drive' = "open" BY OrderedValue
  <1>2. TypeOK'
    <2>1. 0 \in 0..AgeCap BY TuningAssumption DEF TuningAssumption
    <2>2. /\ faultReported' \in BOOLEAN /\ openTooLongWarned' \in BOOLEAN
          /\ linkWasOk' \in BOOLEAN /\ latchWasFaulted' \in BOOLEAN
      OBVIOUS
    <2>3. state' \in GateStates /\ lockedFrom' = lockedFrom BY DEF GateStates
    <2>4. calls' \in Seq(HalCalls) /\ events' \in Seq(FsmEvents) BY DEF HalCalls
    <2> QED BY <2>1, <2>2, <2>3, <2>4
  <1>3. WatchTypeOK' BY <1>1, <1>2
  <1>4. DriveFollowsState' BY <1>1 DEF DriveFollowsState
  <1>5. ReportArmed' BY DEF ReportArmed
  <1> QED BY <1>3, <1>4, <1>5

(* request_close preserves the invariant.                                  *)
LEMMA CloseKeeps == GateInv /\ WClose => GateInv'
  <1> SUFFICES ASSUME GateInv, WClose PROVE GateInv'
    OBVIOUS
  <1> USE DEF WClose, Watched, RequestClose, GateInv, WatchTypeOK, TypeOK
  <1>1. drive' = "close" BY OrderedValue
  <1>2. TypeOK'
    BY TuningAssumption DEF TuningAssumption, GateStates, HalCalls
  <1>3. WatchTypeOK' BY <1>1, <1>2
  <1>4. DriveFollowsState' BY <1>1 DEF DriveFollowsState
  <1>5. ReportArmed' BY DEF ReportArmed, Rejects, GateStates
  <1> QED BY <1>3, <1>4, <1>5

(* lock preserves it: the state it remembers is never Locked itself.       *)
LEMMA LockKeeps == GateInv /\ WLock => GateInv'
  <1> SUFFICES ASSUME GateInv, WLock PROVE GateInv'
    OBVIOUS
  <1> USE DEF WLock, Watched, Lock, Lockable, GateInv, WatchTypeOK, TypeOK
  <1>1. drive' = "none" BY OrderedValue
  <1>2. TypeOK'
    BY TuningAssumption DEF TuningAssumption, GateStates, HalCalls
  <1>3. WatchTypeOK' BY <1>1, <1>2
  <1>4. DriveFollowsState' BY <1>1 DEF DriveFollowsState
  <1>5. ReportArmed' BY DEF ReportArmed
  <1> QED BY <1>3, <1>4, <1>5

(* An unlock finds the arm cut, and lands in a resting state.              *)
LEMMA UnlockKeeps == GateInv /\ WUnlock => GateInv'
  <1> SUFFICES ASSUME GateInv, NEW r \in Readings, Watched(Unlock(r)),
                      UNCHANGED <<inhibited, loopAgo>>
               PROVE  GateInv'
    BY DEF WUnlock
  <1> USE DEF Watched, Unlock, UnlockedTo, GateInv, WatchTypeOK, TypeOK
  <1>1. drive' = "none" BY OrderedValue DEF DriveFollowsState
  <1>2. TypeOK'
    <2>1. 0 \in 0..AgeCap BY TuningAssumption DEF TuningAssumption
    <2>2. /\ faultReported' \in BOOLEAN /\ openTooLongWarned' \in BOOLEAN
          /\ linkWasOk' \in BOOLEAN /\ latchWasFaulted' \in BOOLEAN
      OBVIOUS
    <2>3. state' \in GateStates /\ lockedFrom' = lockedFrom BY DEF GateStates
    <2>4. calls' \in Seq(HalCalls) /\ events' \in Seq(FsmEvents) BY DEF HalCalls
    <2> QED BY <2>1, <2>2, <2>3, <2>4
  <1>3. WatchTypeOK' BY <1>1, <1>2
  <1>4. DriveFollowsState' BY <1>1 DEF DriveFollowsState
  <1>5. ReportArmed' BY DEF ReportArmed
  <1> QED BY <1>3, <1>4, <1>5

(* reboot preserves it: the arm is driven home.                            *)
LEMMA RebootKeeps == GateInv /\ WReboot => GateInv'
  <1> SUFFICES ASSUME GateInv, WReboot PROVE GateInv'
    OBVIOUS
  <1> USE DEF WReboot, Watched, Reboot, GateInv, WatchTypeOK, TypeOK
  <1>1. drive' = "home" BY OrderedValue
  <1>2. TypeOK'
    <2>1. 0 \in 0..AgeCap BY TuningAssumption DEF TuningAssumption
    <2>2. /\ faultReported' \in BOOLEAN /\ openTooLongWarned' \in BOOLEAN
          /\ linkWasOk' \in BOOLEAN /\ latchWasFaulted' \in BOOLEAN
      OBVIOUS
    <2>3. state' \in GateStates /\ lockedFrom' = lockedFrom BY DEF GateStates
    <2>4. calls' \in Seq(HalCalls) /\ events' \in Seq(FsmEvents) BY DEF HalCalls
    <2> QED BY <2>1, <2>2, <2>3, <2>4
  <1>3. WatchTypeOK' BY <1>1, <1>2
  <1>4. DriveFollowsState' BY <1>1 DEF DriveFollowsState
  <1>5. ReportArmed' BY DEF ReportArmed
  <1> QED BY <1>3, <1>4, <1>5

(* The clock.                                                              *)
LEMMA PassKeeps == GateInv /\ WPass => GateInv'
  <1> SUFFICES ASSUME GateInv, WPass PROVE GateInv'
    OBVIOUS
  <1> USE DEF WPass, Watched, Pass, GateInv, WatchTypeOK, TypeOK
  <1>1. drive' = drive BY OrderedValue
  <1>2. enteredAgo' \in 0..AgeCap BY LaterType
  <1>3. clearAgo' \in {NotSet} \cup 0..AgeCap BY LaterType
  <1>4. loopAgo' \in {NotSet} \cup 0..AgeCap BY LaterType
  <1>5. TypeOK' BY <1>2, <1>3 DEF HalCalls
  <1>6. WatchTypeOK' BY <1>1, <1>4, <1>5
  <1>7. DriveFollowsState' BY <1>1 DEF DriveFollowsState
  <1>8. ReportArmed' BY DEF ReportArmed
  <1> QED BY <1>6, <1>7, <1>8

(* A tick: what it does to the observers, whatever branch it takes.        *)
LEMMA TickObservers ==
  ASSUME GateInv, NEW r \in Readings, WTick(r)
  PROVE  /\ inhibited' \in BOOLEAN
         /\ loopAgo' \in {NotSet} \cup 0..AgeCap
         /\ linkWasOk' \in BOOLEAN
  <1>1. 0 \in 0..AgeCap BY TuningAssumption DEF TuningAssumption
  <1>2. r.latch \in BOOLEAN /\ r.link \in BOOLEAN BY DEF Readings
  <1>3. inhibited' \in BOOLEAN
    BY <1>2 DEF WTick, LatchTrips, GateInv, WatchTypeOK, TypeOK
  <1>4. linkWasOk' \in BOOLEAN BY <1>2 DEF WTick, Watched, Tick
  <1>5. loopAgo' \in {NotSet} \cup 0..AgeCap
    BY <1>1 DEF WTick, GateInv, WatchTypeOK
  <1> QED BY <1>3, <1>4, <1>5

(* A tick that enters Fault leaves the barrier cut.                        *)
LEMMA FaultTickKeeps ==
  ASSUME GateInv, NEW r \in Readings, WTick(r),
         NEW k \in {"fault", "barrier_relay_latch_fault"}, EnterFault(r, k),
         latchWasFaulted' \in BOOLEAN
  PROVE  GateInv'
  <1> USE DEF GateInv
  <1>1. drive' = "none"
    BY EnterFaultStep, OrderedValue DEF WTick, Watched
  <1>2. TypeOK'
    BY EnterFaultStep, TickObservers DEF WatchTypeOK, TypeOK, GateStates
  <1>3. WatchTypeOK' BY <1>1, <1>2, TickObservers DEF WatchTypeOK
  <1>4. DriveFollowsState' BY <1>1, EnterFaultStep DEF DriveFollowsState
  <1>5. ReportArmed' BY EnterFaultStep DEF ReportArmed
  <1> QED BY <1>3, <1>4, <1>5

(* The arm arrives.                                                        *)
LEMMA ArrivedTickKeeps ==
  ASSUME GateInv, NEW r \in Readings, WTick(r), TickArrived(r)
  PROVE  GateInv'
  <1> USE DEF GateInv
  <1>1. PICK next \in {"open", "closed"} :
           /\ next = "open" => state = "opening"
           /\ next = "closed" => state = "closing"
           /\ MoveTo(next) /\ events' = MoveEvents(r, next)
    BY DEF TickArrived, Arrived
  <1>2. state' = next BY <1>1 DEF MoveTo
  <1>3. calls' = <<>> /\ UNCHANGED <<lockedFrom, clearAgo, faultReported, latchWasFaulted>>
    BY DEF TickArrived
  <1>4. drive' = drive BY <1>3, OrderedValue DEF WTick, Watched
  <1>5. TypeOK'
    <2>1. enteredAgo' \in 0..AgeCap /\ openTooLongWarned' \in BOOLEAN
      BY <1>1, MoveToType DEF WatchTypeOK
    <2>2. next \in GateStates BY DEF GateStates
    <2>3. events' \in Seq(FsmEvents) BY <1>1, <2>2, EventTypes
    <2> QED BY <1>2, <1>3, <2>1, <2>2, <2>3, TickObservers DEF WatchTypeOK, TypeOK
  <1>6. WatchTypeOK' BY <1>4, <1>5, TickObservers DEF WatchTypeOK
  <1>7. DriveFollowsState' BY <1>1, <1>2, <1>4 DEF DriveFollowsState
  <1>8. ReportArmed' BY <1>1, <1>2, <1>3 DEF ReportArmed
  <1> QED BY <1>6, <1>7, <1>8

(* An open gate that the edge closes: it waits, or orders the close.       *)
LEMMA OpenEdgeTickKeeps ==
  ASSUME GateInv, NEW r \in Readings, WTick(r), TickOpenEdge(r)
  PROVE  GateInv'
  <1> USE DEF GateInv
  <1>1. state = "open" /\ UNCHANGED <<lockedFrom, faultReported, latchWasFaulted>>
    BY DEF TickOpenEdge
  <1>2. 0 \in 0..AgeCap BY TuningAssumption DEF TuningAssumption
  <1>3. clearAgo' \in {NotSet} \cup 0..AgeCap
    BY <1>2 DEF TickOpenEdge, WatchTypeOK, TypeOK
  <1>4. "closing" \in GateStates BY DEF GateStates
  <1>5. CASE /\ events' = LinkEvents(r) /\ calls' = <<>>
             /\ UNCHANGED <<state, enteredAgo, openTooLongWarned>>
    <2>1. drive' = drive BY <1>5, OrderedValue DEF WTick, Watched
    <2>2. events' \in Seq(FsmEvents) BY <1>4, <1>5, EventTypes
    <2>3. TypeOK' BY <1>1, <1>3, <1>5, <2>2, TickObservers DEF WatchTypeOK, TypeOK
    <2>4. WatchTypeOK' BY <2>1, <2>3, TickObservers DEF WatchTypeOK
    <2>5. DriveFollowsState' BY <1>5, <2>1 DEF DriveFollowsState
    <2>6. ReportArmed' BY <1>1, <1>5 DEF ReportArmed
    <2> QED BY <2>4, <2>5, <2>6
  <1>6. CASE /\ calls' = <<"energize_close">> /\ MoveTo("closing")
             /\ events' = MoveEvents(r, "closing")
    <2>1. drive' = "close" BY <1>6, OrderedValue DEF WTick, Watched
    <2>2. state' = "closing" BY <1>6 DEF MoveTo
    <2>3. enteredAgo' \in 0..AgeCap /\ openTooLongWarned' \in BOOLEAN
      BY <1>6, MoveToType DEF WatchTypeOK
    <2>4. events' \in Seq(FsmEvents) BY <1>4, <1>6, EventTypes
    <2>5. calls' \in Seq(HalCalls) BY <1>6 DEF HalCalls
    <2>6. TypeOK'
      BY <1>1, <1>3, <1>4, <2>2, <2>3, <2>4, <2>5, TickObservers DEF WatchTypeOK, TypeOK
    <2>7. WatchTypeOK' BY <2>1, <2>6, TickObservers DEF WatchTypeOK
    <2>8. DriveFollowsState' BY <2>1, <2>2 DEF DriveFollowsState
    <2>9. ReportArmed' BY <1>1, <2>2 DEF ReportArmed
    <2> QED BY <2>7, <2>8, <2>9
  <1> QED BY <1>5, <1>6 DEF TickOpenEdge

(* An open gate that its board closes: it is seen closed, or warned about. *)
LEMMA OpenBoardTickKeeps ==
  ASSUME GateInv, NEW r \in Readings, WTick(r), TickOpenBoard(r)
  PROVE  GateInv'
  <1> USE DEF GateInv
  <1>1. /\ state = "open" /\ AutoClose = NotSet /\ calls' = <<>>
        /\ UNCHANGED <<lockedFrom, clearAgo, faultReported, latchWasFaulted>>
    BY DEF TickOpenBoard
  <1>2. drive' = drive BY <1>1, OrderedValue DEF WTick, Watched
  <1>3. "closed" \in GateStates /\ "gate_open_too_long" \in Incidents
    BY DEF GateStates, Incidents
  <1>4. /\ state' \in {"open", "closed"}
        /\ enteredAgo' \in 0..AgeCap /\ openTooLongWarned' \in BOOLEAN
        /\ events' \in Seq(FsmEvents)
    <2>1. CASE r.angle = 0
      <3>1. MoveTo("closed") /\ events' = MoveEvents(r, "closed")
        BY <2>1 DEF TickOpenBoard
      <3>2. state' = "closed" BY <3>1 DEF MoveTo
      <3> QED BY <1>3, <3>1, <3>2, MoveToType, EventTypes DEF WatchTypeOK
    <2>2. CASE r.angle # 0
      <3>1. UNCHANGED <<state, enteredAgo>> BY <2>2 DEF TickOpenBoard
      <3>2. openTooLongWarned' \in BOOLEAN
        BY <2>2 DEF TickOpenBoard, WatchTypeOK, TypeOK
      <3>3. \/ events' = LinkEvents(r)
            \/ events' = Append(LinkEvents(r), Incident("gate_open_too_long"))
        BY <2>2 DEF TickOpenBoard
      <3>4. events' \in Seq(FsmEvents) BY <1>3, <3>3, EventTypes
      <3> QED BY <1>1, <3>1, <3>2, <3>4 DEF WatchTypeOK, TypeOK
    <2> QED BY <2>1, <2>2
  <1>5. TypeOK'
    BY <1>1, <1>4, TickObservers DEF WatchTypeOK, TypeOK, GateStates
  <1>6. WatchTypeOK' BY <1>2, <1>5, TickObservers DEF WatchTypeOK
  <1>7. DriveFollowsState' BY <1>1, <1>2, <1>4 DEF DriveFollowsState
  <1>8. ReportArmed' BY <1>1, <1>4 DEF ReportArmed
  <1> QED BY <1>6, <1>7, <1>8

(* A tick that only reports a link edge, or nothing.                       *)
LEMMA QuietTickKeeps ==
  ASSUME GateInv, NEW r \in Readings, WTick(r), TickQuiet(r)
  PROVE  GateInv'
  <1> USE DEF GateInv, TickQuiet
  <1>1. drive' = drive BY OrderedValue DEF WTick, Watched
  <1>2. "closed" \in GateStates BY DEF GateStates
  <1>3. events' \in Seq(FsmEvents) BY <1>2, EventTypes
  <1>4. TypeOK' BY <1>3, TickObservers DEF WatchTypeOK, TypeOK
  <1>5. WatchTypeOK' BY <1>1, <1>4, TickObservers DEF WatchTypeOK
  <1>6. DriveFollowsState' BY <1>1 DEF DriveFollowsState
  <1>7. ReportArmed' BY DEF ReportArmed
  <1> QED BY <1>5, <1>6, <1>7

(* Every branch of a tick preserves the invariant.                         *)
LEMMA TickKeeps ==
  ASSUME GateInv, NEW r \in Readings, WTick(r)
  PROVE  GateInv'
  <1>1. CASE TickLatch(r)
    BY <1>1, FaultTickKeeps DEF TickLatch
  <1>2. CASE TickOvercurrent(r)
    BY <1>2, FaultTickKeeps DEF TickOvercurrent, GateInv, WatchTypeOK, TypeOK
  <1>3. CASE TickStuck(r)
    BY <1>3, FaultTickKeeps DEF TickStuck, GateInv, WatchTypeOK, TypeOK
  <1>4. CASE TickArrived(r) BY <1>4, ArrivedTickKeeps
  <1>5. CASE TickOpenEdge(r) BY <1>5, OpenEdgeTickKeeps
  <1>6. CASE TickOpenBoard(r) BY <1>6, OpenBoardTickKeeps
  <1>7. CASE TickQuiet(r) BY <1>7, QuietTickKeeps
  <1> QED
    BY <1>1, <1>2, <1>3, <1>4, <1>5, <1>6, <1>7 DEF WTick, Watched, Tick

(* The gate starts in the invariant.                                       *)
LEMMA GateInit == WatchInit => GateInv
  <1> SUFFICES ASSUME WatchInit PROVE GateInv
    OBVIOUS
  <1> USE DEF WatchInit, Init
  <1>1. TypeOK
    <2>1. 0 \in 0..AgeCap BY TuningAssumption DEF TuningAssumption
    <2>2. /\ faultReported \in BOOLEAN /\ openTooLongWarned \in BOOLEAN
          /\ linkWasOk \in BOOLEAN /\ latchWasFaulted \in BOOLEAN
      OBVIOUS
    <2>3. calls \in Seq(HalCalls) /\ events \in Seq(FsmEvents) OBVIOUS
    <2>4. state \in GateStates /\ lockedFrom \in GateStates \ {"locked"}
      BY DEF GateStates
    <2> QED BY <2>1, <2>2, <2>3, <2>4 DEF TypeOK
  <1>2. WatchTypeOK BY <1>1 DEF WatchTypeOK
  <1> QED BY <1>2 DEF GateInv, DriveFollowsState, ReportArmed

(* Every step of the gate keeps the invariant.                             *)
LEMMA GateStep == GateInv /\ [WatchNext]_vars => GateInv'
  <1> SUFFICES ASSUME GateInv, [WatchNext]_vars PROVE GateInv'
    OBVIOUS
  <1>1. CASE SomeTick BY <1>1, TickKeeps DEF SomeTick
  <1>2. CASE UNCHANGED vars
    BY <1>2 DEF vars, fsmVars, observers, GateInv, WatchTypeOK, TypeOK,
                DriveFollowsState, ReportArmed
  <1> QED
    BY <1>1, <1>2, OpenKeeps, CloseKeeps, LockKeeps, UnlockKeeps, RebootKeeps,
       PassKeeps DEF WatchNext

(* For every tuning and every driver, the fields of GateFsm keep their     *)
(* types and the calls and events are the ones the interfaces name.        *)
THEOREM GateTypeCorrect == WatchSpec => []WatchTypeOK
  <1>1. GateInv => WatchTypeOK BY DEF GateInv
  <1> QED BY <1>1, GateInit, GateStep, PTL DEF WatchSpec

(* For every tuning and every driver, the last order given to the barrier  *)
(* agrees with the state the machine reports: in particular a locked or    *)
(* faulted gate is cut and stays cut.                                      *)
THEOREM GateDriveSafe == WatchSpec => []DriveFollowsState
  <1>1. GateInv => DriveFollowsState BY DEF GateInv
  <1> QED BY <1>1, GateInit, GateStep, PTL DEF WatchSpec

(* The report-once flag is clear during a travel.                          *)
THEOREM GateReportArmed == WatchSpec => []ReportArmed
  <1>1. GateInv => ReportArmed BY DEF GateInv
  <1> QED BY <1>1, GateInit, GateStep, PTL DEF WatchSpec

(* For every tuning and every driver, a fault that stops a travelling arm  *)
(* returns an incident.                                                    *)
THEOREM GateFaultReported == WatchSpec => TravelFaultReported
  <1>1. ASSUME GateInv, [WatchNext]_vars, state \in Moving, state' = "fault"
        PROVE  FaultReturned
    <2>1. PICK r \in Readings : WTick(r)
      BY <1>1 DEF WatchNext, vars, fsmVars, Moving, SomeTick, Watched, WOpen, WClose,
                  WLock, WUnlock, WReboot, WPass, RequestOpen, RequestClose, Lock,
                  Unlock, UnlockedTo, Reboot, Pass
    <2>2. ~faultReported BY <1>1 DEF GateInv, ReportArmed, Moving
    <2>3. PICK k \in {"fault", "barrier_relay_latch_fault"} : EnterFault(r, k)
      BY <1>1, <2>1 DEF WTick, Watched, Tick, TickLatch, TickOvercurrent, TickStuck,
                        TickArrived, TickOpenEdge, TickOpenBoard, TickQuiet, MoveTo, Moving
    <2>4. events' = Append(MoveEvents(r, "fault"), Incident(k))
      BY <1>1, <2>2, <2>3, EnterFaultStep
    <2>5. MoveEvents(r, "fault") \in Seq(FsmEvents)
      BY EventTypes DEF GateStates
    <2> DEFINE last == Len(MoveEvents(r, "fault")) + 1
    <2>6. last \in DOMAIN events' /\ events'[last] = Incident(k)
      BY <2>4, <2>5
    <2> QED BY <2>6 DEF FaultReturned
  <1>2. GateInv /\ [WatchNext]_vars =>
          [TravelFault]_vars
    BY <1>1 DEF TravelFault
  <1> QED BY <1>2, GateInit, GateStep, PTL DEF WatchSpec, TravelFaultReported

=============================================================================
