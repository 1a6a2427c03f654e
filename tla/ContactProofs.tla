---------------------------- MODULE ContactProofs ----------------------------
(***************************************************************************)
(* For every wiring of the board, every tuning and every length of the     *)
(* command channel: while the relay device answers, the last contact       *)
(* ordered from the board is the one that the state of the gate machine    *)
(* calls for.                                                              *)
(***************************************************************************)
EXTENDS ContactGate, SequenceTheorems, TLAPS

Orders == Outputs \cup {"power"}

(* A power cycle is never the last order, and what the actor works on is   *)
(* the head of its channel.                                                *)
ChannelInv ==
  /\ failed \in Nat
  /\ cmds \in Seq(Orders)
  /\ cmds # <<>> => cmds[Len(cmds)] # "power"
  /\ actor \in Outputs => cmds # <<>> /\ Head(cmds) = actor /\ given = actor
  /\ actor = "power" => cmds # <<>> /\ Head(cmds) = "power"

BoardInv == ChannelInv /\ BoardFollowsMachine

(* The lists of calls that a step of the machine makes on the HAL, each    *)
(* with the states in which it leaves the machine.                         *)
StepShape ==
  \/ calls' = <<>> /\ (state' = state \/ state' \in {"open", "closed"})
  \/ calls' = <<"energize_open">> /\ state' = "opening"
  \/ calls' = <<"energize_close">> /\ state' = "closing"
  \/ calls' = <<"cut_motor">> /\ state' \in {"locked", "fault"}
  \/ calls' = <<"relay_power_cycle", "home_calibrate">> /\ state' = "closed"

-----------------------------------------------------------------------------
(* Commands and access decisions.                                          *)
LEMMA CommandShape ==
  RequestOpen \/ RequestClose \/ Lock \/ Unlock(Sensors) \/ Reboot => StepShape
<1>1. UnlockedTo(Sensors) \in {"open", "closed"}
  BY DEF UnlockedTo
<1>2. RequestOpen => StepShape
  BY DEF RequestOpen, StepShape
<1>3. RequestClose => StepShape
  BY DEF RequestClose, StepShape
<1>4. Lock => StepShape
  BY DEF Lock, StepShape
<1>5. Unlock(Sensors) => StepShape
  BY <1>1 DEF Unlock, StepShape
<1>6. Reboot => StepShape
  BY DEF Reboot, StepShape
<1>7. QED
  BY <1>2, <1>3, <1>4, <1>5, <1>6

(* The periodic tick, whatever the sensors read.                           *)
LEMMA TickShape ==
  ASSUME NEW r, Tick(r)
  PROVE  StepShape
<1>1. \A s : MoveTo(s) => state' = s
  BY DEF MoveTo
<1>2. \A k : EnterFault(r, k) => StepShape
  BY <1>1 DEF EnterFault, StepShape
<1>3. CASE TickLatch(r)
  BY <1>2, <1>3 DEF TickLatch
<1>4. CASE TickOvercurrent(r)
  BY <1>2, <1>4 DEF TickOvercurrent
<1>5. CASE TickArrived(r)
  <2>1. calls' = <<>> /\ state' \in {"open", "closed"}
    BY <1>1, <1>5 DEF TickArrived
  <2>2. QED
    BY <2>1 DEF StepShape
<1>6. CASE TickStuck(r)
  BY <1>2, <1>6 DEF TickStuck
<1>7. CASE TickOpenEdge(r)
  <2>1. \/ calls' = <<>> /\ state' = state
        \/ calls' = <<"energize_close">> /\ state' = "closing"
    BY <1>1, <1>7 DEF TickOpenEdge
  <2>2. QED
    BY <2>1 DEF StepShape
<1>8. CASE TickOpenBoard(r)
  <2>1. calls' = <<>> /\ (state' = state \/ state' = "closed")
    BY <1>1, <1>8 DEF TickOpenBoard
  <2>2. QED
    BY <2>1 DEF StepShape
<1>9. CASE TickQuiet(r)
  BY <1>9 DEF TickQuiet, StepShape
<1>10. QED
  BY <1>3, <1>4, <1>5, <1>6, <1>7, <1>8, <1>9 DEF Tick

(* The contacts that each of these lists pulses (contact.rs).              *)
LEMMA ContactsOfCalls ==
  /\ AllContacts(<<>>) = <<>>
  /\ AllContacts(<<"energize_open">>) = <<"open">>
  /\ AllContacts(<<"energize_close">>) = <<CloseOutput>>
  /\ AllContacts(<<"cut_motor">>) = IF HasStop THEN <<"stop">> ELSE <<>>
  /\ AllContacts(<<"relay_power_cycle", "home_calibrate">>)
       = (IF HasPower THEN <<"power">> ELSE <<>>) \o <<CloseOutput>>
<1>1. /\ Contacts("energize_open") = <<"open">>
      /\ Contacts("energize_close") = <<CloseOutput>>
      /\ Contacts("home_calibrate") = <<CloseOutput>>
      /\ Contacts("cut_motor") = IF HasStop THEN <<"stop">> ELSE <<>>
      /\ Contacts("relay_power_cycle") = IF HasPower THEN <<"power">> ELSE <<>>
  BY DEF Contacts
<1>2. /\ Len(<<>>) = 0 /\ Len(<<"energize_open">>) = 1
      /\ Len(<<"energize_close">>) = 1 /\ Len(<<"cut_motor">>) = 1
      /\ Len(<<"relay_power_cycle", "home_calibrate">>) = 2
  OBVIOUS
<1>3. /\ <<"energize_open">>[1] = "energize_open"
      /\ <<"energize_close">>[1] = "energize_close"
      /\ <<"cut_motor">>[1] = "cut_motor"
      /\ <<"relay_power_cycle", "home_calibrate">>[1] = "relay_power_cycle"
      /\ <<"relay_power_cycle", "home_calibrate">>[2] = "home_calibrate"
  OBVIOUS
<1>4. AllContacts(<<"relay_power_cycle", "home_calibrate">>)
        = Contacts("relay_power_cycle") \o Contacts("home_calibrate")
  BY <1>2, <1>3 DEF AllContacts
<1>5. QED
  BY <1>1, <1>2, <1>3, <1>4 DEF AllContacts

-----------------------------------------------------------------------------
(* The channel: what is appended decides what is last, and the head of a   *)
(* channel that holds something stays where it is.                         *)
LEMMA AppendedLast ==
  ASSUME NEW s \in Seq(Orders), NEW t \in Seq(Orders)
  PROVE  /\ s \o t \in Seq(Orders)
         /\ s \o <<>> = s
         /\ t # <<>> => s \o t # <<>> /\ (s \o t)[Len(s \o t)] = t[Len(t)]
         /\ s # <<>> => s \o t # <<>> /\ Head(s \o t) = Head(s)
<1> HIDE DEF Orders
<1>1. s \o t \in Seq(Orders) /\ Len(s \o t) = Len(s) + Len(t)
  OBVIOUS
<1>2. s \o <<>> = s
  OBVIOUS
<1>3. ASSUME t # <<>> PROVE s \o t # <<>> /\ (s \o t)[Len(s \o t)] = t[Len(t)]
  BY <1>1, <1>3
<1>4. ASSUME s # <<>> PROVE s \o t # <<>> /\ Head(s \o t) = Head(s)
  BY <1>1, <1>4
<1>5. QED
  BY <1>1, <1>2, <1>3, <1>4

(* The tail of a channel ends as the channel does, unless it is empty.     *)
LEMMA TailLast ==
  ASSUME NEW s \in Seq(Orders), s # <<>>
  PROVE  /\ Tail(s) \in Seq(Orders)
         /\ Tail(s) # <<>> => Tail(s)[Len(Tail(s))] = s[Len(s)]
         /\ Tail(s) = <<>> => s[Len(s)] = Head(s)
<1> HIDE DEF Orders
<1>1. Tail(s) \in Seq(Orders) /\ Len(Tail(s)) = Len(s) - 1
  OBVIOUS
<1>2. Tail(s) # <<>> => Tail(s)[Len(Tail(s))] = s[Len(s)]
  BY <1>1
<1>3. ASSUME Tail(s) = <<>> PROVE s[Len(s)] = Head(s)
  <2>1. Len(<<>>) = 0 /\ Len(s) \in Nat
    OBVIOUS
  <2>2. Len(s) = 1
    <3>1. Len(Tail(s)) = 0
      BY <1>3, <2>1
    <3>2. Len(s) - 1 = 0
      BY <1>1, <3>1
    <3>3. QED
      BY <2>1, <3>2
  <2>3. Head(s) = s[1]
    OBVIOUS
  <2>4. QED
    BY <2>2, <2>3
<1>4. QED
  BY <1>1, <1>2, <1>3

-----------------------------------------------------------------------------
(* A step of the machine and the contacts it queues keep the invariant.    *)
LEMMA HalKeeps == BoardInv /\ StepShape /\ HalCalled => BoardInv'
<1> SUFFICES ASSUME BoardInv, StepShape, HalCalled PROVE BoardInv'
  OBVIOUS
<1> DEFINE new == AllContacts(calls')
<1>1. /\ cmds' = cmds \o new /\ cmds \in Seq(Orders)
      /\ actor' = actor /\ given' = given /\ failed' = failed
  BY DEF HalCalled, Queued, BoardInv, ChannelInv
<1>2. CloseOutput \in {"open", "close"} /\ CloseOutput \in Orders
  BY DEF CloseOutput, Orders, Outputs
<1>3. /\ new \in Seq(Orders)
      /\ new # <<>> => new[Len(new)] # "power"
      /\ \/ new = <<>> /\ (\/ state' = state \/ state' \in {"open", "closed"}
                           \/ state' \in {"locked", "fault"} /\ ~HasStop)
         \/ new # <<>> /\ state' = "opening" /\ new[Len(new)] = "open"
         \/ new # <<>> /\ state' = "closing" /\ new[Len(new)] = CloseOutput
         \/ new # <<>> /\ state' \in {"locked", "fault"} /\ new[Len(new)] = "stop"
         \/ new # <<>> /\ state' = "closed"
  <2>1. CASE calls' = <<>> /\ (state' = state \/ state' \in {"open", "closed"})
    <3>1. new = <<>> /\ <<>> \in Seq(Orders)
      BY <2>1, ContactsOfCalls
    <3>2. QED
      BY <2>1, <3>1
  <2>2. CASE calls' = <<"energize_open">> /\ state' = "opening"
    <3>1. new = <<"open">> /\ "open" \in Orders
      BY <2>2, ContactsOfCalls DEF Orders, Outputs
    <3>2. QED
      BY <2>2, <3>1
  <2>3. CASE calls' = <<"energize_close">> /\ state' = "closing"
    <3>1. new = <<CloseOutput>>
      BY <2>3, ContactsOfCalls
    <3>2. QED
      BY <1>2, <2>3, <3>1
  <2>4. CASE calls' = <<"cut_motor">> /\ state' \in {"locked", "fault"}
    <3>1. new = (IF HasStop THEN <<"stop">> ELSE <<>>) /\ "stop" \in Orders
      BY <2>4, ContactsOfCalls DEF Orders, Outputs
    <3>2. CASE HasStop
      <4>1. new = <<"stop">>
        BY <3>1, <3>2
      <4>2. new # <<>> /\ new[Len(new)] = "stop" /\ new \in Seq(Orders)
        BY <3>1, <4>1
      <4>3. QED
        BY <2>4, <4>2
    <3>3. CASE ~HasStop
      <4>1. new = <<>> /\ <<>> \in Seq(Orders)
        BY <3>1, <3>3
      <4>2. QED
        BY <2>4, <3>3, <4>1
    <3>4. QED
      BY <3>2, <3>3
  <2>5. CASE calls' = <<"relay_power_cycle", "home_calibrate">> /\ state' = "closed"
    <3> DEFINE first == IF HasPower THEN <<"power">> ELSE <<>>
    <3>1. new = first \o <<CloseOutput>>
      BY <2>5, ContactsOfCalls
    <3>2. first \in Seq(Orders) /\ <<CloseOutput>> \in Seq(Orders)
      <4>1. "power" \in Orders
        BY DEF Orders
      <4>2. <<"power">> \in Seq(Orders) /\ <<>> \in Seq(Orders)
        BY <4>1
      <4>3. QED
        BY <1>2, <4>2
    <3>3. <<CloseOutput>> # <<>> /\ <<CloseOutput>>[Len(<<CloseOutput>>)] = CloseOutput
      OBVIOUS
    <3> HIDE DEF first
    <3>4. new \in Seq(Orders) /\ new # <<>> /\ new[Len(new)] = CloseOutput
      BY <3>1, <3>2, <3>3, AppendedLast
    <3>5. QED
      BY <1>2, <2>5, <3>4
  <2>6. QED
    BY <2>1, <2>2, <2>3, <2>4, <2>5 DEF StepShape
<1> HIDE DEF new
<1>4. /\ cmds' \in Seq(Orders)
      /\ new = <<>> => cmds' = cmds
      /\ new # <<>> => cmds' # <<>> /\ cmds'[Len(cmds')] = new[Len(new)]
      /\ cmds # <<>> => cmds' # <<>> /\ Head(cmds') = Head(cmds)
  BY <1>1, <1>3, AppendedLast
<1>5. ChannelInv'
  BY <1>1, <1>3, <1>4 DEF BoardInv, ChannelInv
<1>6. LastContact' = IF new = <<>> THEN LastContact ELSE new[Len(new)]
  BY <1>1, <1>4 DEF LastContact
<1>7. BoardFollowsMachine'
  BY <1>1, <1>3, <1>6 DEF BoardFollowsMachine, BoardInv
<1>8. QED
  BY <1>5, <1>7 DEF BoardInv

(* A request to the device that fails ends the claim.                      *)
LEMMA FailureEnds ==
  ASSUME BoardInv, NEW l, Failed(l)
  PROVE  failed' \in Nat /\ BoardFollowsMachine'
<1>1. failed' \in Nat /\ failed' # 0
  BY DEF Failed, BoardInv, ChannelInv
<1>2. QED
  BY <1>1 DEF BoardFollowsMachine

(* The pulse of a contact keeps it.                                        *)
LEMMA PulseKeeps == BoardInv /\ (PulseOn \/ PulseOff) => BoardInv'
<1> SUFFICES ASSUME BoardInv, PulseOn \/ PulseOff PROVE BoardInv'
  OBVIOUS
<1> USE DEF BoardInv
<1>1. cmds \in Seq(Orders) /\ state' = state
  BY DEF ChannelInv, PulseOn, PulseOff, fsmVars
<1>2. CASE PulseOn
  <2>1. actor = "idle" /\ cmds # <<>>
    BY <1>2 DEF PulseOn
  <2>2. CASE /\ actor' = Head(cmds) /\ given' = Head(cmds)
             /\ UNCHANGED <<cmds, failed>>
    <3>1. ChannelInv'
      BY <1>2, <2>1, <2>2 DEF ChannelInv, PulseOn, Outputs
    <3>2. LastContact' = LastContact
      BY <2>1, <2>2 DEF LastContact
    <3>3. QED
      BY <1>1, <2>2, <3>1, <3>2 DEF BoardFollowsMachine
  <2>3. CASE cmds' = Tail(cmds) /\ Failed(FALSE) /\ UNCHANGED actor
    <3>1. failed' \in Nat /\ BoardFollowsMachine'
      BY <2>3, FailureEnds
    <3>2. ChannelInv'
      BY <1>1, <2>1, <2>3, <3>1, TailLast DEF ChannelInv, Outputs
    <3>3. QED
      BY <3>1, <3>2
  <2>4. QED
    BY <1>2, <2>2, <2>3 DEF PulseOn
<1>3. CASE PulseOff
  <2>1. /\ actor \in Outputs /\ cmds # <<>> /\ Head(cmds) = actor /\ given = actor
        /\ actor' = "idle" /\ cmds' = Tail(cmds) /\ given' = given
    BY <1>3 DEF PulseOff, ChannelInv
  <2>2. /\ cmds' \in Seq(Orders)
        /\ cmds' # <<>> => cmds'[Len(cmds')] = cmds[Len(cmds)]
        /\ cmds' = <<>> => cmds[Len(cmds)] = Head(cmds)
    BY <1>1, <2>1, TailLast
  <2>3. failed' \in Nat /\ BoardFollowsMachine'
    <3>1. CASE Succeeded(TRUE)
      <4>1. LastContact' = LastContact
        BY <2>1, <2>2 DEF LastContact
      <4>2. QED
        BY <1>1, <3>1, <4>1 DEF BoardFollowsMachine, Succeeded, ChannelInv
    <3>2. CASE Failed(TRUE)
      BY <3>2, FailureEnds
    <3>3. QED
      BY <1>3, <3>1, <3>2 DEF PulseOff
  <2>4. ChannelInv'
    BY <2>1, <2>2, <2>3 DEF ChannelInv, Outputs
  <2>5. QED
    BY <2>3, <2>4
<1>4. QED
  BY <1>2, <1>3

(* The power cycle keeps it: another order follows it in the channel.      *)
LEMMA PowerKeeps == BoardInv /\ (CutPower \/ RestorePower) => BoardInv'
<1> SUFFICES ASSUME BoardInv, CutPower \/ RestorePower PROVE BoardInv'
  OBVIOUS
<1> USE DEF BoardInv
<1>1. /\ cmds \in Seq(Orders) /\ cmds # <<>> /\ Head(cmds) = "power"
      /\ state' = state /\ given' = given
  BY DEF ChannelInv, CutPower, RestorePower, fsmVars
<1>2. /\ Tail(cmds) \in Seq(Orders)
      /\ Tail(cmds) # <<>> /\ Tail(cmds)[Len(Tail(cmds))] = cmds[Len(cmds)]
  BY <1>1, TailLast DEF ChannelInv
<1>3. CASE actor' = "power" /\ UNCHANGED <<cmds, failed>>
  <2>1. ChannelInv'
    BY <1>1, <1>3 DEF ChannelInv, Outputs
  <2>2. LastContact' = LastContact
    BY <1>1, <1>3 DEF LastContact
  <2>3. QED
    BY <1>1, <1>3, <2>1, <2>2 DEF BoardFollowsMachine
<1>4. CASE cmds' = Tail(cmds) /\ actor' = "idle" /\ (Failed(FALSE) \/ Succeeded(FALSE))
  <2>1. failed' \in Nat /\ BoardFollowsMachine'
    <3>1. CASE Succeeded(FALSE)
      <4>1. LastContact' = LastContact
        BY <1>1, <1>2, <1>4 DEF LastContact
      <4>2. QED
        BY <1>1, <3>1, <4>1 DEF BoardFollowsMachine, Succeeded, ChannelInv
    <3>2. CASE Failed(FALSE)
      BY <3>2, FailureEnds
    <3>3. QED
      BY <1>4, <3>1, <3>2
  <2>2. ChannelInv'
    BY <1>2, <1>4, <2>1 DEF ChannelInv, Outputs
  <2>3. QED
    BY <2>1, <2>2
<1>5. QED
  BY <1>3, <1>4 DEF CutPower, RestorePower

(* The clock, the poll of the inputs and the end of the back-off order     *)
(* nothing.                                                                *)
LEMMA OtherKeeps ==
  BoardInv /\ (TimePasses \/ PollInputs \/ BackoffEnds \/ UNCHANGED contactVars)
    => BoardInv'
<1> SUFFICES ASSUME BoardInv,
                    TimePasses \/ PollInputs \/ BackoffEnds \/ UNCHANGED contactVars
             PROVE  BoardInv'
  OBVIOUS
<1> USE DEF BoardInv
<1>1. state' = state /\ cmds' = cmds /\ actor' = actor /\ given' = given
  BY DEF TimePasses, Pass, PollInputs, BackoffEnds, contactVars, fsmVars, halVars
<1>2. failed' = failed \/ (\E l \in BOOLEAN : Failed(l))
  BY DEF TimePasses, PollInputs, BackoffEnds, contactVars, halVars, Succeeded
<1>3. failed' \in Nat /\ BoardFollowsMachine'
  <2>1. CASE failed' = failed
    BY <1>1, <2>1 DEF ChannelInv, BoardFollowsMachine, LastContact
  <2>2. CASE \E l \in BOOLEAN : Failed(l)
    BY <2>2, FailureEnds
  <2>3. QED
    BY <1>2, <2>1, <2>2
<1>4. QED
  BY <1>1, <1>3 DEF ChannelInv

(* While the relay device answers, the last contact that the HAL of        *)
(* contact.rs has ordered is the one the machine's state calls for,        *)
(* whatever was queued when (BoardFollowsMachine).                         *)
THEOREM BoardIsTold == ContactSpec => []BoardFollowsMachine
<1>1. ContactInit => BoardInv
  BY DEF ContactInit, Init, BoardInv, ChannelInv, BoardFollowsMachine, Outputs
<1>2. BoardInv /\ [ContactNext]_contactVars => BoardInv'
  <2>1. Commanded \/ Ticked => StepShape /\ HalCalled
    BY CommandShape, TickShape DEF Commanded, Ticked
  <2>2. QED
    BY <2>1, HalKeeps, PulseKeeps, PowerKeeps, OtherKeeps DEF ContactNext, Actor
<1>3. BoardInv => BoardFollowsMachine
  BY DEF BoardInv
<1>4. QED
  BY <1>1, <1>2, <1>3, PTL DEF ContactSpec

=============================================================================
