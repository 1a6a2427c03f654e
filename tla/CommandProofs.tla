---------------------------- MODULE CommandProofs ----------------------------
(***************************************************************************)
(* For any number of retries and of restarts of the edge: an acknowledged  *)
(* command was accepted by the gate's machine, and the machine accepts a   *)
(* command at most once in each life of the edge process.                  *)
(***************************************************************************)
EXTENDS GateCommand, FiniteSetTheorems, TLAPS

(* A success on its way back, from the executor to the row, stands for a   *)
(* command that the machine accepted.                                      *)
OkWasFired ==
  /\ \A r \in Requests : log[r] = "ok" => fired[r] > 0
  /\ handling.verdict = "ok" => fired[handling.id] > 0
  /\ \A a \in acks : a.verdict = "ok" => fired[a.id] > 0
  /\ acking.new = "acknowledged" => fired[acking.id] > 0

(* In this life: recorded, or accepted and about to be recorded.           *)
Processed(r) == log[r] # None \/ (handling.step = "record" /\ handling.id = r)

LifeCount ==
  \A r \in Requests :
    fired[r] <= crashes + 1 /\ (~Processed(r) => fired[r] <= crashes)

CommandInv == TypeOK /\ OkWasFired /\ AckedWasFired /\ LifeCount

-----------------------------------------------------------------------------
(* The steps of the API, the bridge's publisher and the clock leave alone  *)
(* everything the invariant's other parts speak of.                        *)
evidence == <<row, log, handling, fired, crashes, acks, acking>>

(* Every step keeps the types.                                             *)
LEMMA TypeStep == TypeOK /\ [Next]_vars => TypeOK'
<1> SUFFICES ASSUME TypeOK, [Next]_vars PROVE TypeOK'
  OBVIOUS
<1> USE CommandAssumption, NoneAssumption DEF TypeOK
<1>1. ASSUME NEW r \in Requests, Issue(r) PROVE TypeOK'
  <2>1. CASE Lookup(r)
    BY <2>1 DEF Lookup, edgeVars
  <2>2. CASE Insert(r)
    BY <2>2 DEF Insert, edgeVars
  <2>3. CASE Push(r)
    BY <2>3 DEF Push, edgeVars
  <2>4. CASE PushFails(r)
    BY <2>4 DEF PushFails, edgeVars
  <2>5. CASE Commit(r)
    BY <2>5 DEF Commit, Statuses, edgeVars
  <2>6. CASE Rollback(r)
    BY <2>6 DEF Rollback, edgeVars
  <2>7. QED
    BY <1>1, <2>1, <2>2, <2>3, <2>4, <2>5, <2>6 DEF Issue
<1>2. CASE Pop
  BY <1>2 DEF Pop, apiVars, edgeVars
<1>3. CASE Publish
  BY <1>3 DEF Publish, apiVars, edgeVars
<1>4. CASE Lose
  BY <1>4 DEF Lose, apiVars, edgeVars
<1>5. ASSUME NEW r \in Requests, Replay(r) PROVE TypeOK'
  BY <1>5 DEF Replay, apiVars
<1>6. ASSUME NEW r \in Requests, Execute(r) PROVE TypeOK'
  <2>1. PICK v \in Verdicts :
          /\ handling' = [id |-> r, verdict |-> v, step |-> "record"]
          /\ fired' = IF v = "ok" THEN [fired EXCEPT ![r] = @ + 1] ELSE fired
    BY <1>6 DEF Execute
  <2>2. fired' \in [Requests -> Nat]
    BY <2>1
  <2>3. QED
    BY <1>6, <2>1, <2>2 DEF Execute, apiVars
<1>7. CASE Record
  <2>1. handling \in [id : Requests, verdict : Verdicts, step : {"record", "ack"}]
    BY <1>7 DEF Record, Idle
  <2>2. QED
    BY <1>7, <2>1 DEF Record, apiVars
<1>8. CASE PublishAck
  <2>1. handling \in [id : Requests, verdict : Verdicts, step : {"record", "ack"}]
    BY <1>8 DEF PublishAck, Idle
  <2>2. QED
    BY <1>8, <2>1 DEF PublishAck, AckOf, Acks, apiVars
<1>9. CASE Crash
  BY <1>9 DEF Crash, apiVars
<1>10. ASSUME NEW a \in acks, AckRead(a) PROVE TypeOK'
  BY <1>10 DEF AckRead, AckTxn, Acked, Acks, Verdicts, apiVars, edgeVars
<1>11. CASE AckWrite
  BY <1>11 DEF AckWrite, NoAck, Statuses, apiVars, edgeVars
<1>12. ASSUME NEW r \in Requests, Expire(r) PROVE TypeOK'
  BY <1>12 DEF Expire, apiVars, edgeVars
<1>13. CASE SweepRead
  BY <1>13 DEF SweepRead, Stale, apiVars, edgeVars
<1>14. CASE SweepWrite
  BY <1>14 DEF SweepWrite, Statuses, apiVars, edgeVars
<1>15. CASE UNCHANGED vars
  BY <1>15 DEF vars
<1>16. QED
  BY <1>1, <1>2, <1>3, <1>4, <1>5, <1>6, <1>7, <1>8, <1>9, <1>10, <1>11,
     <1>12, <1>13, <1>14, <1>15 DEF Next

(* Every step keeps the evidence for a success and the count of firings.   *)
LEMMA FiredStep ==
  CommandInv /\ [Next]_vars => OkWasFired' /\ AckedWasFired' /\ LifeCount'
<1> SUFFICES ASSUME CommandInv, [Next]_vars
             PROVE  OkWasFired' /\ AckedWasFired' /\ LifeCount'
  OBVIOUS
<1> USE CommandAssumption, NoneAssumption DEF CommandInv
<1> DEFINE Goal == OkWasFired' /\ AckedWasFired' /\ LifeCount'
<1>1. ASSUME UNCHANGED evidence PROVE Goal
  BY <1>1 DEF evidence, OkWasFired, AckedWasFired, LifeCount, Processed
<1>2. ASSUME NEW r \in Requests, Commit(r) PROVE Goal
  BY <1>2 DEF Commit, OkWasFired, AckedWasFired, LifeCount, Processed,
              edgeVars, TypeOK
<1>3. ASSUME UNCHANGED <<row, log, handling, fired, crashes, acking>>,
             acks' \subseteq acks
      PROVE  Goal
  BY <1>3 DEF OkWasFired, AckedWasFired, LifeCount, Processed
<1>4. ASSUME NEW r \in Requests, Replay(r) PROVE Goal
  <2>1. OkWasFired'
    BY <1>4 DEF Replay, OkWasFired
  <2>2. AckedWasFired'
    BY <1>4 DEF Replay, AckedWasFired
  <2>3. LifeCount'
    BY <1>4 DEF Replay, LifeCount, Processed, Idle
  <2>4. QED
    BY <2>1, <2>2, <2>3
<1>5. ASSUME NEW r \in Requests, Execute(r) PROVE Goal
  <2>1. PICK v \in Verdicts :
          /\ handling' = [id |-> r, verdict |-> v, step |-> "record"]
          /\ fired' = IF v = "ok" THEN [fired EXCEPT ![r] = @ + 1] ELSE fired
    BY <1>5 DEF Execute
  <2>2. /\ fired \in [Requests -> Nat] /\ crashes \in Nat
        /\ \A q \in Requests : fired'[q] >= fired[q]
        /\ \A q \in Requests \ {r} : fired'[q] = fired[q]
        /\ fired'[r] <= fired[r] + 1
        /\ fired'[r] \in Nat
        /\ v = "ok" => fired'[r] > 0
    BY <2>1 DEF TypeOK
  <2>3. /\ log[r] = None /\ handling = Idle
        /\ UNCHANGED <<row, log, crashes, acks, acking>>
    BY <1>5 DEF Execute, Unseen
  <2>4. OkWasFired'
    <3>1. \A q \in Requests : fired[q] > 0 => fired'[q] > 0
      BY <2>1 DEF TypeOK
    <3>2. acking.new = "acknowledged" => acking.id \in Requests
      BY DEF TypeOK, NoAck, None
    <3>3. \A a \in acks : a.id \in Requests
      BY DEF TypeOK, Acks
    <3>4. QED
      BY <2>1, <2>2, <2>3, <3>1, <3>2, <3>3 DEF OkWasFired
  <2>5. AckedWasFired'
    BY <2>1, <2>3 DEF AckedWasFired, TypeOK
  <2>6. LifeCount'
    <3>1. ~Processed(r)
      BY <2>3 DEF Processed, Idle
    <3>2. fired[r] <= crashes
      BY <3>1 DEF LifeCount
    <3>3. Processed(r)' /\ fired'[r] <= crashes' + 1
      BY <2>1, <2>2, <2>3, <3>2 DEF Processed
    <3>4. ASSUME NEW q \in Requests \ {r}
          PROVE  fired'[q] <= crashes' + 1 /\ (~Processed(q)' => fired'[q] <= crashes')
      BY <2>1, <2>2, <2>3 DEF LifeCount, Processed, Idle
    <3>5. QED
      BY <3>3, <3>4 DEF LifeCount
  <2>7. QED
    BY <2>4, <2>5, <2>6
<1>6. CASE Record
  <2>1. handling \in [id : Requests, verdict : Verdicts, step : {"record", "ack"}]
    BY <1>6 DEF Record, Idle, TypeOK
  <2>2. OkWasFired' /\ AckedWasFired'
    BY <1>6, <2>1 DEF Record, OkWasFired, AckedWasFired, TypeOK
  <2>3. LifeCount'
    <3>1. log'[handling.id] # None
      BY <1>6, <2>1 DEF Record, TypeOK, Verdicts, None
    <3>2. \A q \in Requests : Processed(q) => Processed(q)'
      BY <1>6, <2>1, <3>1 DEF Record, Processed, TypeOK
    <3>3. QED
      BY <1>6, <3>2 DEF Record, LifeCount
  <2>4. QED
    BY <2>2, <2>3
<1>7. CASE PublishAck
  <2>1. OkWasFired'
    BY <1>7 DEF PublishAck, AckOf, OkWasFired, Idle
  <2>2. AckedWasFired' /\ LifeCount'
    BY <1>7 DEF PublishAck, AckedWasFired, LifeCount, Processed
  <2>3. QED
    BY <2>1, <2>2
<1>8. CASE Crash
  <2>1. OkWasFired'
    BY <1>8 DEF Crash, OkWasFired, Idle, None
  <2>2. AckedWasFired' /\ LifeCount'
    BY <1>8 DEF Crash, AckedWasFired, LifeCount, TypeOK
  <2>3. QED
    BY <2>1, <2>2
<1>9. ASSUME NEW a \in acks, AckRead(a) PROVE Goal
  <2>1. acks' \subseteq acks
    BY <1>9 DEF AckRead
  <2>2. OkWasFired'
    BY <1>9, <2>1 DEF AckRead, AckTxn, Acked, NoAck, None, OkWasFired, edgeVars
  <2>3. AckedWasFired' /\ LifeCount'
    BY <1>9 DEF AckRead, AckedWasFired, LifeCount, Processed, edgeVars
  <2>4. QED
    BY <2>2, <2>3
<1>10. CASE AckWrite
  <2>1. OkWasFired' /\ LifeCount'
    BY <1>10 DEF AckWrite, OkWasFired, LifeCount, Processed, NoAck, None, edgeVars
  <2>2. AckedWasFired'
    BY <1>10 DEF AckWrite, OkWasFired, AckedWasFired, edgeVars, TypeOK
  <2>3. QED
    BY <2>1, <2>2
<1>11. CASE SweepWrite
  BY <1>11 DEF SweepWrite, OkWasFired, AckedWasFired, LifeCount, Processed, edgeVars
<1>12. QED
  <2>1. ASSUME NEW r \in Requests, Issue(r) PROVE Goal
    BY <1>1, <1>2, <2>1 DEF Issue, Lookup, Insert, Push, PushFails, Rollback,
                            edgeVars, evidence
  <2>2. CASE Pop \/ Publish \/ SweepRead \/ UNCHANGED vars
    BY <1>1, <2>2 DEF Pop, Publish, SweepRead, apiVars, edgeVars, evidence, vars
  <2>3. CASE Lose
    BY <1>3, <2>3 DEF Lose, edgeVars
  <2>4. ASSUME NEW r \in Requests, Expire(r) PROVE Goal
    BY <1>1, <2>4 DEF Expire, edgeVars, evidence
  <2>5. QED
    BY <1>4, <1>5, <1>6, <1>7, <1>8, <1>9, <1>10, <1>11, <2>1, <2>2, <2>3,
       <2>4 DEF Next

(* The initial state satisfies the invariant.                              *)
LEMMA CommandInit == Init => CommandInv
<1> SUFFICES ASSUME Init PROVE CommandInv
  OBVIOUS
<1> USE CommandAssumption DEF Init
<1>1. TypeOK
  BY DEF TypeOK
<1>2. OkWasFired /\ AckedWasFired
  BY DEF OkWasFired, AckedWasFired, Idle, NoAck, None
<1>3. LifeCount
  BY DEF LifeCount
<1>4. QED
  BY <1>1, <1>2, <1>3 DEF CommandInv

(* The invariant holds of every behaviour.                                 *)
LEMMA CommandInvariant == Spec => []CommandInv
<1>1. CommandInv /\ [Next]_vars => CommandInv'
  BY TypeStep, FiredStep DEF CommandInv
<1>2. QED
  BY <1>1, CommandInit, PTL DEF Spec

-----------------------------------------------------------------------------
(* TypeOK holds in every reachable state of the command path, for every    *)
(* set of requests and any number of restarts.                             *)
THEOREM CommandTypeCorrect == Spec => []TypeOK
<1>1. CommandInv => TypeOK
  BY DEF CommandInv
<1>2. QED
  BY <1>1, CommandInvariant, PTL

(* mark_command_ack writes `acknowledged' only for a command the gate's    *)
(* machine accepted (AckedWasFired), whatever MQTT, the bridge and the     *)
(* restarts of the edge do.                                                *)
THEOREM AckMeansFired == Spec => []AckedWasFired
<1>1. CommandInv => AckedWasFired
  BY DEF CommandInv
<1>2. QED
  BY <1>1, CommandInvariant, PTL

(* CommandExecutor::handle lets the machine accept a command at most once  *)
(* in each life of the edge process (FiredOncePerLife).                    *)
THEOREM FiringsBounded == Spec => []FiredOncePerLife
<1>1. CommandInv => FiredOncePerLife
  BY DEF CommandInv, LifeCount, FiredOncePerLife
<1>2. QED
  BY <1>1, CommandInvariant, PTL

-----------------------------------------------------------------------------
(* A row belongs to a request that has committed it, and what is about to  *)
(* be written to a row is written to one that exists.                      *)
RowOwned ==
  /\ \A r \in Requests : row[r] # None => phase[r] = "done"
  /\ acking # NoAck => row[acking.id] # None
  /\ \A r \in sweeping : row[r] # None

(* Every step keeps the rows that exist, and their owners.                 *)
LEMMA OwnedStep == TypeOK /\ RowOwned /\ [Next]_vars => RowOwned'
<1> SUFFICES ASSUME TypeOK, RowOwned, [Next]_vars PROVE RowOwned'
  OBVIOUS
<1> USE NoneAssumption DEF RowOwned, TypeOK
<1>1. ASSUME NEW r \in Requests, Issue(r) PROVE RowOwned'
  <2>1. CASE Lookup(r)
    BY <2>1 DEF Lookup, edgeVars
  <2>2. CASE Insert(r)
    BY <2>2 DEF Insert, edgeVars
  <2>3. CASE Push(r)
    BY <2>3 DEF Push, edgeVars
  <2>4. CASE PushFails(r)
    BY <2>4 DEF PushFails, edgeVars
  <2>5. CASE Commit(r)
    <3>1. \A q \in Requests : row[q] # None => row'[q] # None
      BY <2>5 DEF Commit, None
    <3>2. acking # NoAck => acking.id \in Requests
      OBVIOUS
    <3>3. QED
      BY <2>5, <3>1, <3>2 DEF Commit, edgeVars
  <2>6. CASE Rollback(r)
    BY <2>6 DEF Rollback, edgeVars
  <2>7. QED
    BY <1>1, <2>1, <2>2, <2>3, <2>4, <2>5, <2>6 DEF Issue
<1>2. CASE Pop \/ Publish \/ Lose
  BY <1>2 DEF Pop, Publish, Lose, apiVars
<1>3. ASSUME NEW r \in Requests, Replay(r) \/ Execute(r) \/ Expire(r) PROVE RowOwned'
  BY <1>3 DEF Replay, Execute, Expire, apiVars
<1>4. CASE Record \/ PublishAck \/ Crash
  BY <1>4 DEF Record, PublishAck, Crash, apiVars
<1>5. ASSUME NEW a \in acks, AckRead(a) PROVE RowOwned'
  BY <1>5 DEF AckRead, AckTxn, Acked, apiVars
<1>6. CASE AckWrite
  <2>1. /\ acking.id \in Requests /\ acking.new # None
        /\ phase[acking.id] = "done"
    BY <1>6 DEF AckWrite, NoAck, None
  <2>2. QED
    BY <1>6, <2>1 DEF AckWrite, apiVars
<1>7. CASE SweepRead
  BY <1>7 DEF SweepRead, Stale, None, apiVars
<1>8. CASE SweepWrite
  BY <1>8 DEF SweepWrite, None, apiVars
<1>9. CASE UNCHANGED vars
  BY <1>9 DEF vars
<1>10. QED
  BY <1>1, <1>2, <1>3, <1>4, <1>5, <1>6, <1>7, <1>8, <1>9 DEF Next

(* Every step of the command path is a step of the abstract row, or leaves *)
(* the row and what the machine accepted as they are.                      *)
LEMMA RowStep ==
  CommandInv /\ RowOwned /\ [Next]_vars => [Row!RowNext]_(Row!rowVars)
<1> SUFFICES ASSUME CommandInv, RowOwned, [Next]_vars
             PROVE  [Row!RowNext]_(Row!rowVars)
  OBVIOUS
<1> DEFINE accepted == {r \in Requests : fired[r] > 0}
<1>0. TypeOK
  BY DEF CommandInv
<1>1. ASSUME UNCHANGED <<row, fired>> PROVE [Row!RowNext]_(Row!rowVars)
  BY <1>1 DEF Row!rowVars
<1>2. ASSUME NEW r \in Requests, Commit(r) PROVE Row!RowNext
  <2>1. row[r] = "none"
    BY <1>2, <1>0 DEF Commit, RowOwned, None, TypeOK
  <2>2. Row!Create(r)
    BY <1>2, <2>1 DEF Commit, edgeVars, Row!Create
  <2>3. QED
    BY <2>2 DEF Row!RowNext
<1>3. ASSUME NEW r \in Requests, Execute(r) PROVE [Row!RowNext]_(Row!rowVars)
  <2>1. PICK v \in Verdicts :
          fired' = IF v = "ok" THEN [fired EXCEPT ![r] = @ + 1] ELSE fired
    BY <1>3 DEF Execute
  <2>2. UNCHANGED row
    BY <1>3 DEF Execute
  <2>3. CASE v = "ok"
    <3>1. accepted' = accepted \cup {r}
      BY <2>1, <2>3, <1>0 DEF TypeOK
    <3>2. Row!Act(r)
      BY <2>2, <3>1 DEF Row!Act
    <3>3. QED
      BY <3>2 DEF Row!RowNext
  <2>4. CASE v # "ok"
    BY <1>1, <2>1, <2>2, <2>4
  <2>5. QED
    BY <2>3, <2>4
<1>4. CASE AckWrite
  <2>1. /\ acking.id \in Requests /\ row[acking.id] # "none"
        /\ acking.new \in {"acknowledged", "failed"}
    BY <1>4, <1>0 DEF AckWrite, RowOwned, NoAck, None, TypeOK
  <2>2. acking.new = "acknowledged" => acking.id \in accepted
    BY <2>1 DEF CommandInv, OkWasFired
  <2>3. UNCHANGED fired
    BY <1>4 DEF AckWrite, edgeVars
  <2>4. CASE acking.new = acking.status
    BY <1>1, <1>4, <2>3, <2>4 DEF AckWrite
  <2>5. CASE acking.new # acking.status
    <3>1. row' = [row EXCEPT ![acking.id] = acking.new]
      BY <1>4, <2>5 DEF AckWrite
    <3>2. Row!Settle(acking.id)
      BY <2>1, <2>2, <2>3, <3>1 DEF Row!Settle, Row!Settled
    <3>3. QED
      BY <2>1, <3>2 DEF Row!RowNext
  <2>6. QED
    BY <2>4, <2>5
<1>5. CASE SweepWrite
  <2>1. /\ sweeping \in SUBSET {c \in Requests : row[c] # "none"}
        /\ row' = [c \in Requests |-> IF c \in sweeping THEN "timeout" ELSE row[c]]
        /\ UNCHANGED fired
    BY <1>5, <1>0 DEF SweepWrite, RowOwned, None, TypeOK, edgeVars
  <2>2. Row!SettleAll
    BY <2>1 DEF Row!SettleAll
  <2>3. QED
    BY <2>2 DEF Row!RowNext
<1>6. QED
  <2>1. ASSUME NEW r \in Requests, Issue(r) PROVE [Row!RowNext]_(Row!rowVars)
    BY <1>1, <1>2, <2>1 DEF Issue, Lookup, Insert, Push, PushFails, Rollback, edgeVars
  <2>2. CASE Pop \/ Publish \/ Lose \/ SweepRead \/ UNCHANGED vars
    BY <1>1, <2>2 DEF Pop, Publish, Lose, SweepRead, edgeVars, vars
  <2>3. CASE Record \/ PublishAck \/ Crash
    BY <1>1, <2>3 DEF Record, PublishAck, Crash
  <2>4. ASSUME NEW r \in Requests, Replay(r) \/ Expire(r)
        PROVE  [Row!RowNext]_(Row!rowVars)
    BY <1>1, <2>4 DEF Replay, Expire, edgeVars
  <2>5. ASSUME NEW a \in acks, AckRead(a) PROVE [Row!RowNext]_(Row!rowVars)
    BY <1>1, <2>5 DEF AckRead, edgeVars
  <2>6. QED
    BY <1>3, <1>4, <1>5, <2>1, <2>2, <2>3, <2>4, <2>5 DEF Next

(* The command path from issue_command to mark_command_ack and the sweep   *)
(* implements the row that the console is given (the safety part of        *)
(* RowImplemented), for every set of requests and any number of restarts.  *)
THEOREM RowRefined == Spec => Row!RowSpec
<1>1. Init => Row!RowInit
  <2> SUFFICES ASSUME Init PROVE Row!RowInit
    OBVIOUS
  <2>1. row = [c \in Requests |-> "none"]
    BY DEF Init, None
  <2>2. {r \in Requests : fired[r] > 0} = {}
    BY DEF Init
  <2>3. QED
    BY <2>1, <2>2 DEF Row!RowInit
<1>2. Init => RowOwned
  BY NoneAssumption DEF Init, RowOwned, NoAck
<1>3. CommandInv => TypeOK
  BY DEF CommandInv
<1>4. QED
  BY <1>1, <1>2, <1>3, OwnedStep, RowStep, CommandInvariant, PTL
  DEF Spec, Row!RowSpec

-----------------------------------------------------------------------------
(* Before the first restart of the edge its log remembers every verdict:   *)
(* what was answered, is being answered or has been written to a row is    *)
(* what the log says, and a command it says was rejected never fired.      *)
VerdictKept ==
  crashes = 0 =>
    /\ handling.step = "record" => log[handling.id] = None
    /\ handling.step = "record" /\ handling.verdict = "err" => fired[handling.id] = 0
    /\ handling.step = "ack" => log[handling.id] = handling.verdict
    /\ \A a \in acks : log[a.id] = a.verdict
    /\ acking.new = "failed" => log[acking.id] = "err"
    /\ \A r \in Requests : /\ row[r] = "failed" => log[r] = "err"
                           /\ log[r] = "err" => fired[r] = 0

(* Every step keeps the log's word.                                        *)
LEMMA VerdictStep == CommandInv /\ VerdictKept /\ [Next]_vars => VerdictKept'
<1> SUFFICES ASSUME CommandInv, VerdictKept, [Next]_vars, crashes' = 0 PROVE VerdictKept'
  BY DEF VerdictKept
<1>0. TypeOK /\ LifeCount
  BY DEF CommandInv
<1> USE NoneAssumption DEF VerdictKept
<1>1. ASSUME UNCHANGED evidence PROVE VerdictKept'
  BY <1>1 DEF evidence
<1>2. ASSUME NEW r \in Requests, Commit(r) PROVE VerdictKept'
  BY <1>0, <1>2 DEF Commit, edgeVars, TypeOK
<1>3. CASE Lose
  BY <1>3 DEF Lose, edgeVars
<1>4. ASSUME NEW r \in Requests, Replay(r) PROVE VerdictKept'
  BY <1>4 DEF Replay
<1>5. ASSUME NEW r \in Requests, Execute(r) PROVE VerdictKept'
  <2>1. PICK v \in Verdicts :
          /\ handling' = [id |-> r, verdict |-> v, step |-> "record"]
          /\ fired' = IF v = "ok" THEN [fired EXCEPT ![r] = @ + 1] ELSE fired
    BY <1>5 DEF Execute
  <2>2. /\ handling = Idle /\ log[r] = None /\ crashes = 0
        /\ UNCHANGED <<row, log, crashes, acks, acking>>
    BY <1>5 DEF Execute, Unseen
  <2>3. fired[r] = 0
    <3>1. ~Processed(r)
      BY <2>2 DEF Processed, Idle
    <3>2. QED
      BY <1>0, <2>2, <3>1 DEF LifeCount, TypeOK
  <2>4. \A q \in Requests : log[q] = "err" => fired'[q] = fired[q]
    BY <1>0, <2>1, <2>2 DEF TypeOK, None
  <2>5. v = "err" => fired'[r] = 0
    BY <2>1, <2>3
  <2>6. QED
    BY <2>1, <2>2, <2>4, <2>5
<1>6. CASE Record
  <2>1. handling \in [id : Requests, verdict : Verdicts, step : {"record", "ack"}]
    BY <1>0, <1>6 DEF Record, Idle, TypeOK
  <2>2. /\ log' = [log EXCEPT ![handling.id] = handling.verdict]
        /\ handling' = [handling EXCEPT !.step = "ack"]
        /\ log[handling.id] = None /\ crashes = 0
        /\ handling.verdict = "err" => fired[handling.id] = 0
        /\ UNCHANGED <<row, fired, crashes, acks, acking>>
    BY <1>6 DEF Record
  <2>3. \A q \in Requests : log[q] # None => log'[q] = log[q]
    BY <1>0, <2>2 DEF TypeOK
  <2>4. log'[handling.id] = handling.verdict
    BY <1>0, <2>1, <2>2 DEF TypeOK
  <2>5. \A a \in acks : a.id \in Requests /\ a.verdict # None
    BY <1>0 DEF TypeOK, Acks, Verdicts, None
  <2>6. acking.new = "failed" => acking.id \in Requests
    BY <1>0 DEF TypeOK, NoAck, None
  <2>7. \A q \in Requests : log'[q] = "err" => fired[q] = 0
    BY <1>0, <2>1, <2>2 DEF TypeOK
  <2>8. QED
    BY <2>1, <2>2, <2>3, <2>4, <2>5, <2>6, <2>7 DEF None
<1>7. CASE PublishAck
  BY <1>7 DEF PublishAck, AckOf, Idle
<1>8. CASE Crash
  BY <1>0, <1>8 DEF Crash, TypeOK
<1>9. ASSUME NEW a \in acks, AckRead(a) PROVE VerdictKept'
  <2>1. acks' \subseteq acks
    BY <1>9 DEF AckRead
  <2>2. a.verdict \in Verdicts
    BY <1>0 DEF TypeOK, Acks
  <2>3. QED
    BY <1>9, <2>1, <2>2 DEF AckRead, AckTxn, Acked, NoAck, None, Verdicts, edgeVars
<1>10. CASE AckWrite
  BY <1>0, <1>10 DEF AckWrite, NoAck, None, edgeVars, TypeOK
<1>11. CASE SweepWrite
  BY <1>11 DEF SweepWrite, edgeVars
<1>12. QED
  <2>1. ASSUME NEW r \in Requests, Issue(r) PROVE VerdictKept'
    BY <1>1, <1>2, <2>1 DEF Issue, Lookup, Insert, Push, PushFails, Rollback,
                            edgeVars, evidence
  <2>2. CASE Pop \/ Publish \/ SweepRead \/ UNCHANGED vars
    BY <1>1, <2>2 DEF Pop, Publish, SweepRead, apiVars, edgeVars, evidence, vars
  <2>3. ASSUME NEW r \in Requests, Expire(r) PROVE VerdictKept'
    BY <1>1, <2>3 DEF Expire, edgeVars, evidence
  <2>4. QED
    BY <1>3, <1>4, <1>5, <1>6, <1>7, <1>8, <1>9, <1>10, <1>11, <2>1, <2>2, <2>3 DEF Next

(* mark_command_ack writes `failed' only for a command that the gate's     *)
(* machine never accepted, while the edge process is in its first life     *)
(* (FailedNotFired).                                                       *)
THEOREM FailureMeansNotFired == Spec => []FailedNotFired
<1>1. Init => VerdictKept
  BY DEF Init, VerdictKept, Idle, NoAck, None
<1>2. CommandInv /\ VerdictKept => FailedNotFired
  BY DEF VerdictKept, FailedNotFired
<1>3. QED
  BY <1>1, <1>2, CommandInvariant, VerdictStep, PTL DEF Spec

-----------------------------------------------------------------------------
(* The requests whose command is, or was, on its way to the gate.          *)
Out ==
  {r \in Requests : \/ phase[r] = "pushed" \/ row[r] # None
                    \/ r \in net \/ popped = r \/ fired[r] > 0
                    \/ \E i \in DOMAIN outbox : outbox[i] = r}

Holding(r) == phase[r] \in {"inserted", "pushed"}

Kept == Committed \/ \E r \in Requests : phase[r] = "pushed"

(* The unique index: one open transaction holds the key, and none once a   *)
(* row is committed.  So a push adds a command when the others are rolled  *)
(* back.                                                                   *)
KeyInv ==
  /\ \A r, q \in Requests : Holding(r) /\ Holding(q) => r = q
  /\ \A r \in Requests : Holding(r) => ~Committed
  /\ IsFiniteSet(Out)
  /\ Cardinality(Out) <= rollbacks + IF Kept THEN 1 ELSE 0

(* A set that does not grow keeps its bound.                               *)
LEMMA BoundKept ==
  ASSUME NEW S, NEW T, T \subseteq S, IsFiniteSet(S), NEW n \in Nat, Cardinality(S) <= n
  PROVE  IsFiniteSet(T) /\ Cardinality(T) <= n
<1>1. IsFiniteSet(T) /\ Cardinality(T) <= Cardinality(S)
  BY FS_Subset
<1>2. Cardinality(T) \in Nat /\ Cardinality(S) \in Nat
  BY <1>1, FS_CardinalityType
<1>3. QED
  BY <1>1, <1>2

(* Every step keeps the invariant of the key.                              *)
LEMMA KeyStep == TypeOK /\ RowOwned /\ KeyInv /\ [Next]_vars => KeyInv'
<1> SUFFICES ASSUME TypeOK, RowOwned, KeyInv, [Next]_vars PROVE KeyInv'
  OBVIOUS
<1> DEFINE bound == rollbacks + IF Kept THEN 1 ELSE 0
<1>0. bound \in Nat /\ rollbacks \in Nat
  BY DEF TypeOK
<1>1. ASSUME Out' \subseteq Out, UNCHANGED <<phase, rollbacks>>,
             \A r \in Requests : row'[r] = None <=> row[r] = None
      PROVE  KeyInv'
  <2>1. Committed' = Committed /\ Kept' = Kept
    BY <1>1 DEF Committed, Kept
  <2>2. IsFiniteSet(Out') /\ Cardinality(Out') <= bound
    BY <1>0, <1>1, BoundKept DEF KeyInv
  <2>3. QED
    BY <1>1, <2>1, <2>2 DEF KeyInv, Holding
<1>2. ASSUME NEW r \in Requests, phase[r] \notin {"inserted", "pushed"}, NEW p,
             phase' = [phase EXCEPT ![r] = p], p # "pushed",
             p = "inserted" => KeyFree(r) /\ ~Committed,
             UNCHANGED <<row, rollbacks, outbox, popped, net, fired>>
      PROVE  KeyInv'
  <2>1. phase \in [Requests -> {"new", "looked", "inserted", "pushed", "done", "error"}]
    BY DEF TypeOK
  <2>2. Out' = Out /\ Kept' = Kept /\ Committed' = Committed
    BY <1>2, <2>1 DEF Out, Kept, Committed
  <2>3. \A q \in Requests : Holding(q)' => Holding(q) \/ (q = r /\ p = "inserted")
    BY <1>2, <2>1 DEF Holding
  <2>4. p = "inserted" => \A q \in Requests : q # r => ~Holding(q)
    BY <1>2 DEF KeyFree, Holding
  <2>5. (\A q, s \in Requests : Holding(q)' /\ Holding(s)' => q = s)
        /\ (\A q \in Requests : Holding(q)' => ~Committed')
    BY <1>2, <2>2, <2>3, <2>4 DEF KeyInv
  <2>6. QED
    BY <1>2, <2>2, <2>5 DEF KeyInv
<1>3. ASSUME NEW r \in Requests, Push(r) PROVE KeyInv'
  <2>1. /\ phase[r] = "inserted" /\ phase' = [phase EXCEPT ![r] = "pushed"]
        /\ outbox' = Append(outbox, r)
        /\ UNCHANGED <<row, rollbacks, popped, net, fired>>
    BY <1>3 DEF Push, edgeVars
  <2>2. Holding(r) /\ ~Committed /\ \A q \in Requests : Holding(q) => q = r
    BY <2>1 DEF KeyInv, Holding
  <2>3. ~Kept
    BY <2>1, <2>2 DEF Kept, Holding
  <2>4. Out' \subseteq Out \cup {r}
    <3>1. \A q \in Requests : (\E i \in DOMAIN outbox' : outbox'[i] = q)
            => q = r \/ \E i \in DOMAIN outbox : outbox[i] = q
      BY <2>1 DEF TypeOK
    <3>2. \A q \in Requests : phase'[q] = "pushed" => q = r \/ phase[q] = "pushed"
      BY <2>1 DEF TypeOK
    <3>3. QED
      BY <2>1, <3>1, <3>2 DEF Out
  <2>5. IsFiniteSet(Out \cup {r}) /\ Cardinality(Out \cup {r}) <= rollbacks + 1
    <3>1. IsFiniteSet(Out) /\ Cardinality(Out) <= rollbacks
      BY <1>0, <2>3 DEF KeyInv
    <3>2. Cardinality(Out) \in Nat
      BY <3>1, FS_CardinalityType
    <3>3. IsFiniteSet(Out \cup {r})
          /\ Cardinality(Out \cup {r}) = IF r \in Out THEN Cardinality(Out) ELSE Cardinality(Out) + 1
      BY <3>1, FS_AddElement
    <3>4. QED
      BY <1>0, <3>1, <3>2, <3>3
  <2>6. IsFiniteSet(Out') /\ Cardinality(Out') <= rollbacks + 1
    BY <1>0, <2>4, <2>5, BoundKept
  <2>7. Kept'
    BY <2>1 DEF Kept, TypeOK
  <2>8. ~Committed' /\ \A q \in Requests : Holding(q)' => q = r
    BY <2>1, <2>2 DEF Committed, Holding, TypeOK
  <2>9. QED
    BY <2>1, <2>6, <2>7, <2>8 DEF KeyInv
<1>4. ASSUME NEW r \in Requests, PushFails(r) PROVE KeyInv'
  <2>1. /\ phase[r] = "inserted" /\ phase' = [phase EXCEPT ![r] = "error"]
        /\ UNCHANGED <<row, rollbacks, outbox, popped, net, fired>>
    BY <1>4 DEF PushFails, edgeVars
  <2>2. \A q \in Requests : phase'[q] = "pushed" <=> phase[q] = "pushed"
    BY <2>1 DEF TypeOK
  <2>3. Out' = Out /\ Kept' = Kept /\ Committed' = Committed
    BY <2>1, <2>2 DEF Out, Kept, Committed
  <2>4. \A q \in Requests : Holding(q)' => Holding(q)
    BY <2>1 DEF Holding, TypeOK
  <2>5. QED
    BY <2>1, <2>3, <2>4 DEF KeyInv
<1>5. ASSUME NEW r \in Requests, Commit(r) PROVE KeyInv'
  <2>1. /\ phase[r] = "pushed" /\ phase' = [phase EXCEPT ![r] = "done"]
        /\ row' = [row EXCEPT ![r] = "sent"]
        /\ UNCHANGED <<rollbacks, outbox, popped, net, fired>>
    BY <1>5 DEF Commit, edgeVars
  <2>2. Out' \subseteq Out
    BY <2>1 DEF Out, TypeOK
  <2>3. Kept /\ Kept'
    BY <2>1 DEF Kept, Committed, TypeOK, None
  <2>4. \A q \in Requests : ~Holding(q)'
    BY <2>1 DEF Holding, TypeOK, KeyInv
  <2>5. IsFiniteSet(Out') /\ Cardinality(Out') <= bound
    BY <1>0, <2>2, BoundKept DEF KeyInv
  <2>6. QED
    BY <2>1, <2>3, <2>4, <2>5 DEF KeyInv
<1>6. ASSUME NEW r \in Requests, Rollback(r) PROVE KeyInv'
  <2>1. /\ phase[r] = "pushed" /\ phase' = [phase EXCEPT ![r] = "error"]
        /\ rollbacks' = rollbacks + 1
        /\ UNCHANGED <<row, outbox, popped, net, fired>>
    BY <1>6 DEF Rollback, edgeVars
  <2>2. Out' \subseteq Out
    BY <2>1 DEF Out, TypeOK
  <2>3. Kept
    BY <2>1 DEF Kept
  <2>4. \A q \in Requests : ~Holding(q)'
    BY <2>1 DEF Holding, TypeOK, KeyInv
  <2>5. IsFiniteSet(Out') /\ Cardinality(Out') <= rollbacks + 1
    BY <1>0, <2>2, <2>3, BoundKept DEF KeyInv
  <2>6. Cardinality(Out') \in Nat
    BY <2>5, FS_CardinalityType
  <2>7. QED
    BY <1>0, <2>1, <2>4, <2>5, <2>6 DEF KeyInv
<1>7. ASSUME NEW r \in Requests, Issue(r) PROVE KeyInv'
  <2>1. CASE Lookup(r)
    BY <1>2, <2>1 DEF Lookup, edgeVars
  <2>2. CASE Insert(r)
    BY <1>2, <2>2 DEF Insert, edgeVars
  <2>3. QED
    BY <1>3, <1>4, <1>5, <1>6, <1>7, <2>1, <2>2 DEF Issue
<1>8. CASE Pop
  <2>1. outbox \in Seq(Requests) /\ outbox # <<>> /\ popped = None
        /\ popped' = Head(outbox) /\ outbox' = Tail(outbox)
        /\ UNCHANGED <<phase, rollbacks, row, net, fired>>
    BY <1>8 DEF Pop, TypeOK, apiVars, edgeVars
  <2>2. \A q \in Requests : (popped' = q \/ \E i \in DOMAIN outbox' : outbox'[i] = q)
          => \E i \in DOMAIN outbox : outbox[i] = q
    BY <2>1
  <2>3. Out' \subseteq Out
    BY <2>1, <2>2 DEF Out
  <2>4. QED
    BY <1>1, <2>1, <2>3
<1>9. CASE Publish
  <2>1. Out' \subseteq Out
    BY <1>9, NoneAssumption DEF Publish, Out, apiVars, edgeVars
  <2>2. QED
    BY <1>1, <1>9, <2>1 DEF Publish, apiVars
<1>10. CASE Lose
  <2>1. Out' \subseteq Out
    BY <1>10 DEF Lose, Out, apiVars, edgeVars
  <2>2. QED
    BY <1>1, <1>10, <2>1 DEF Lose, apiVars
<1>11. ASSUME NEW r \in Requests, Replay(r) PROVE KeyInv'
  <2>1. Out' \subseteq Out
    BY <1>11 DEF Replay, Out, apiVars
  <2>2. QED
    BY <1>1, <1>11, <2>1 DEF Replay, apiVars
<1>12. ASSUME NEW r \in Requests, Execute(r) PROVE KeyInv'
  <2>1. /\ r \in net /\ net' \subseteq net /\ UNCHANGED <<phase, rollbacks, row, outbox, popped>>
        /\ fired' \in {fired, [fired EXCEPT ![r] = @ + 1]}
    BY <1>12 DEF Execute, apiVars
  <2>2. \A q \in Requests : fired'[q] > 0 => fired[q] > 0 \/ q = r
    BY <2>1 DEF TypeOK
  <2>3. Out' \subseteq Out
    BY <2>1, <2>2 DEF Out
  <2>4. QED
    BY <1>1, <2>1, <2>3
<1>13. ASSUME UNCHANGED <<phase, rollbacks, outbox, popped, net, fired>>,
              \A r \in Requests : row'[r] = None <=> row[r] = None
       PROVE  KeyInv'
  <2>1. Out' \subseteq Out
    BY <1>13 DEF Out
  <2>2. QED
    BY <1>1, <1>13, <2>1
<1>14. CASE Record \/ PublishAck \/ Crash
  BY <1>13, <1>14 DEF Record, PublishAck, Crash, apiVars
<1>15. ASSUME NEW a \in acks, AckRead(a) PROVE KeyInv'
  BY <1>13, <1>15 DEF AckRead, apiVars, edgeVars
<1>16. CASE AckWrite
  <2>1. acking.id \in Requests /\ acking.new # None /\ row[acking.id] # None
    BY <1>16 DEF AckWrite, RowOwned, NoAck, None, TypeOK
  <2>2. \A r \in Requests : row'[r] = None <=> row[r] = None
    BY <1>16, <2>1 DEF AckWrite, TypeOK
  <2>3. QED
    BY <1>13, <1>16, <2>2 DEF AckWrite, apiVars, edgeVars
<1>17. ASSUME NEW r \in Requests, Expire(r) PROVE KeyInv'
  BY <1>13, <1>17 DEF Expire, apiVars, edgeVars
<1>18. CASE SweepRead
  BY <1>13, <1>18 DEF SweepRead, apiVars, edgeVars
<1>19. CASE SweepWrite
  <2>1. \A r \in Requests : row'[r] = None <=> row[r] = None
    BY <1>19 DEF SweepWrite, RowOwned, None
  <2>2. QED
    BY <1>13, <1>19, <2>1 DEF SweepWrite, apiVars, edgeVars
<1>20. CASE UNCHANGED vars
  BY <1>13, <1>20 DEF vars
<1>21. QED
  BY <1>7, <1>8, <1>9, <1>10, <1>11, <1>12, <1>14, <1>15, <1>16, <1>17, <1>18,
     <1>19, <1>20 DEF Next

(* issue_command and its retries with one idempotency key send the gate    *)
(* one command, and one more for each transaction that is rolled back      *)
(* after its push (PushedOncePerKey).                                      *)
THEOREM OneCommandPerKey == Spec => []PushedOncePerKey
<1>1. Init => RowOwned
  BY NoneAssumption DEF Init, RowOwned, NoAck
<1>2. Init => KeyInv
  <2> SUFFICES ASSUME Init PROVE KeyInv
    OBVIOUS
  <2>1. Out = {}
    BY NoneAssumption DEF Init, Out
  <2>2. ~Kept /\ \A r \in Requests : ~Holding(r)
    BY DEF Init, Kept, Committed, Holding
  <2>3. QED
    BY <2>1, <2>2, FS_EmptySet DEF KeyInv, Init
<1>3. CommandInv => TypeOK
  BY DEF CommandInv
<1>4. TypeOK /\ KeyInv => PushedOncePerKey
  <2> SUFFICES ASSUME TypeOK, KeyInv PROVE Cardinality(Out) <= 1 + rollbacks
    BY DEF PushedOncePerKey, Out
  <2>1. Cardinality(Out) \in Nat /\ rollbacks \in Nat
    BY FS_CardinalityType DEF KeyInv, TypeOK
  <2>2. QED
    BY <2>1 DEF KeyInv
<1>5. QED
  BY <1>1, <1>2, <1>3, <1>4, OwnedStep, KeyStep, CommandInvariant, PTL DEF Spec

=============================================================================
