---------------------------- MODULE SurfaceProofs ----------------------------
(***************************************************************************)
(* Theorems about the surface of the system: the pages of the console and  *)
(* what stands behind them, for every number of devices, codes, clients,   *)
(* memberships, gates, commands, zones and requests.                       *)
(*                                                                         *)
(* The modules extended here share no variables; each part below is about  *)
(* the specification of one of them.                                       *)
(***************************************************************************)
EXTENDS EdgeDevices, Memberships, BarrierMap, ConsoleRules, ConsoleUsers, ConsoleVehicles,
        ParkingLive, FiniteSetTheorems, SequenceTheorems, TLAPS

-----------------------------------------------------------------------------
(* Activation codes: the types the argument needs.                         *)

CodeStates == {"none", "open", "spent", "gone"}
IssueStates == {"sent", "open", "ok", "failed"}
MaybeDevice == DeviceIds \cup {"none"}

IssueRecords ==
  [n : 1..MaxIssues, id : MaybeDevice, at : IssueStates, supersedes : SUBSET Codes,
   code : Codes \cup {"none"}]

DialogKinds ==
  {"none", "create", "edit", "code", "revoke", "reboot", "decommission", "reactivate", "delete"}
DialogRecords == [kind : DialogKinds, id : MaybeDevice, loading : BOOLEAN]

CodeTypes ==
  /\ codes \in [Codes -> [device : MaybeDevice, at : CodeStates]]
  /\ spent \in [Codes -> Nat]
  /\ issues \subseteq IssueRecords
  /\ deviceDialog \in DialogRecords

(* A code that may still be used has not been used.                        *)
UnspentOpen == \A c \in Codes : codes[c].at \in {"none", "open"} => spent[c] = 0

(* Between the UPDATE of create_activation_code and its commit the codes   *)
(* it supersedes stay unused: their rows are locked, by one request each.  *)
LockedUnspent ==
  \A i \in issues : i.at = "open" =>
    \A c \in i.supersedes : spent[c] = 0 /\ codes[c].at # "none"

LockedOnce ==
  \A i, j \in issues : i.at = "open" /\ j.at = "open" /\ i # j =>
    i.supersedes \cap j.supersedes = {}

CodeInv == CodeTypes /\ UnspentOpen /\ LockedUnspent /\ LockedOnce /\ CodeSpentOnce

(* What opens, closes or unblocks a dialog of the page leaves the codes    *)
(* alone.                                                                  *)
LEMMA DialogOnly ==
  ASSUME CodeInv, UNCHANGED <<codes, spent, issues>>, deviceDialog' \in DialogRecords
  PROVE  CodeInv'
  BY DEF CodeInv, CodeTypes, UnspentOpen, LockedUnspent, LockedOnce, CodeSpentOnce

(* The deletion of a device drops its codes.                               *)
LEMMA CodesDropped ==
  ASSUME CodeInv, NEW op, Consequences(op), issues' = issues, deviceDialog' \in DialogRecords
  PROVE  CodeInv'
<1>1. \A c \in Codes : codes'[c] = codes[c] \/ codes'[c] = [device |-> "none", at |-> "gone"]
  BY DEF Consequences
<1>2. spent' = spent BY DEF Consequences
<1>3. codes' \in [Codes -> [device : MaybeDevice, at : CodeStates]]
  <2>1. [device |-> "none", at |-> "gone"] \in [device : MaybeDevice, at : CodeStates]
    BY DEF MaybeDevice, CodeStates
  <2> QED BY <2>1 DEF Consequences, CodeInv, CodeTypes
<1>4. CodeTypes' BY <1>2, <1>3 DEF CodeInv, CodeTypes
<1>5. UnspentOpen' BY <1>1, <1>2 DEF CodeInv, UnspentOpen
<1>6. LockedUnspent'
  <2> SUFFICES ASSUME NEW i \in issues, i.at = "open", NEW c \in i.supersedes
               PROVE  spent'[c] = 0 /\ codes'[c].at # "none"
    BY DEF LockedUnspent
  <2>1. c \in Codes BY DEF CodeInv, CodeTypes, IssueRecords
  <2>2. spent[c] = 0 /\ codes[c].at # "none" BY DEF CodeInv, LockedUnspent
  <2> QED BY <1>1, <1>2, <2>1, <2>2
<1>7. LockedOnce' /\ CodeSpentOnce' BY <1>2 DEF CodeInv, LockedOnce, CodeSpentOnce
<1> QED BY <1>4, <1>5, <1>6, <1>7 DEF CodeInv

(* A request that is not between its UPDATE and its commit holds no lock,  *)
(* whatever else happens to it.                                            *)
LEMMA IssueMoves ==
  ASSUME CodeInv, NEW i \in issues, NEW j \in IssueRecords, j.at # "open",
         issues' = (issues \ {i}) \cup {j}, UNCHANGED <<codes, spent, deviceDialog>>
  PROVE  CodeInv'
<1>1. CodeTypes' BY DEF CodeInv, CodeTypes
<1>2. \A k \in issues' : k.at = "open" => k \in issues OBVIOUS
<1> QED BY <1>1, <1>2 DEF CodeInv, UnspentOpen, LockedUnspent, LockedOnce, CodeSpentOnce

-----------------------------------------------------------------------------
(* The steps of create_activation_code.                                    *)

LEMMA CodesIssueBegin ==
  ASSUME CodeInv, NEW i \in issues, IssueBegin(i)
  PROVE  CodeInv'
<1> DEFINE j == [i EXCEPT !.at = IF D!Row(i.id) = {} THEN "failed" ELSE "open",
                          !.supersedes = OpenCodes(i.id)]
<1>1. i \in IssueRecords BY DEF CodeInv, CodeTypes
<1>2. OpenCodes(i.id) \subseteq Codes BY DEF OpenCodes
<1>3. /\ j \in IssueRecords /\ j.supersedes = OpenCodes(i.id)
      /\ j.at \in {"failed", "open"}
  BY <1>1, <1>2 DEF IssueRecords, IssueStates
<1>4. issues' = (issues \ {i}) \cup {j} /\ UNCHANGED <<codes, spent, deviceDialog>>
  BY DEF IssueBegin, serverKeys, dialogVars
<1> HIDE DEF j
<1>5. CodeTypes' BY <1>3, <1>4 DEF CodeInv, CodeTypes
<1>6. \A c \in j.supersedes : c \in Codes /\ codes[c].at = "open"
  BY <1>3 DEF OpenCodes
<1>7. LockedUnspent'
  BY <1>4, <1>6 DEF CodeInv, LockedUnspent, UnspentOpen
<1>8. \A k \in issues : k.at = "open" => j.supersedes \cap k.supersedes = {}
  BY <1>3 DEF IssueBegin, Locked
<1>9. LockedOnce' BY <1>4, <1>8 DEF CodeInv, LockedOnce
<1> QED BY <1>4, <1>5, <1>7, <1>9 DEF CodeInv, UnspentOpen, CodeSpentOnce

LEMMA CodesIssueCommit ==
  ASSUME CodeInv, NEW i \in issues, IssueCommit(i)
  PROVE  CodeInv'
<1>1. i \in IssueRecords /\ i.at = "open" /\ deviceDialog' = deviceDialog
  BY DEF CodeInv, CodeTypes, IssueCommit, dialogVars
<1>2. CASE D!Row(i.id) = {}
  <2> DEFINE j == [i EXCEPT !.at = "failed"]
  <2>1. j \in IssueRecords /\ j.at # "open" BY <1>1 DEF IssueRecords, IssueStates
  <2>2. issues' = (issues \ {i}) \cup {j} /\ UNCHANGED <<codes, spent, deviceDialog>>
    BY <1>1, <1>2 DEF IssueCommit
  <2> QED BY <2>1, <2>2, IssueMoves
<1>3. CASE D!Row(i.id) # {}
  <2>1. PICK new \in Codes :
          /\ codes[new].at = "none"
          /\ codes' = [c \in Codes |-> CASE c = new -> [device |-> i.id, at |-> "open"]
                                         [] c \in i.supersedes -> [codes[c] EXCEPT !.at = "spent"]
                                         [] OTHER -> codes[c]]
          /\ spent' = [c \in Codes |-> IF c \in i.supersedes THEN spent[c] + 1 ELSE spent[c]]
          /\ issues' = (issues \ {i}) \cup {[i EXCEPT !.at = "ok", !.code = new]}
    BY <1>3 DEF IssueCommit
  <2> DEFINE j == [i EXCEPT !.at = "ok", !.code = new]
  <2>2. j \in IssueRecords /\ j.at = "ok" BY <1>1 DEF IssueRecords, IssueStates
  <2>3. issues' = (issues \ {i}) \cup {j} BY <2>1
  <2> HIDE DEF j
  <2>4. \A c \in i.supersedes : c \in Codes /\ c # new /\ spent[c] = 0
    BY <1>1, <2>1 DEF IssueRecords, CodeInv, LockedUnspent
  <2>5. codes'[new] = [device |-> i.id, at |-> "open"] /\ spent'[new] = spent[new]
    BY <2>1, <2>4
  <2>6. \A c \in i.supersedes : codes'[c] = [device |-> codes[c].device, at |-> "spent"]
                                /\ spent'[c] = 1
    <3> TAKE c \in i.supersedes
    <3>1. codes[c] \in [device : MaybeDevice, at : CodeStates]
      BY <2>4 DEF CodeInv, CodeTypes
    <3>2. [codes[c] EXCEPT !.at = "spent"] = [device |-> codes[c].device, at |-> "spent"]
      BY <3>1
    <3>3. codes'[c] = [codes[c] EXCEPT !.at = "spent"] /\ spent'[c] = 1
      BY <2>1, <2>4
    <3> QED BY <3>2, <3>3
  <2>7. \A c \in Codes : c # new /\ c \notin i.supersedes =>
          codes'[c] = codes[c] /\ spent'[c] = spent[c]
    BY <2>1
  <2>8. \A c \in Codes : codes[c] \in [device : MaybeDevice, at : CodeStates] /\ spent[c] \in Nat
    BY DEF CodeInv, CodeTypes
  <2>9. \A c \in Codes : codes'[c] \in [device : MaybeDevice, at : CodeStates]
    <3> TAKE c \in Codes
    <3>1. CASE c = new BY <1>1, <2>5, <3>1 DEF IssueRecords, CodeStates
    <3>2. CASE c \in i.supersedes
      <4>1. codes'[c] = [device |-> codes[c].device, at |-> "spent"] BY <2>6, <3>2
      <4>2. codes[c].device \in MaybeDevice BY <2>8
      <4> QED BY <4>1, <4>2 DEF CodeStates
    <3>3. CASE c # new /\ c \notin i.supersedes BY <2>7, <2>8, <3>3
    <3> QED BY <3>1, <3>2, <3>3
  <2>10. \A c \in i.supersedes : codes'[c].at = "spent"
    <3> TAKE c \in i.supersedes
    <3>1. codes'[c] = [device |-> codes[c].device, at |-> "spent"] BY <2>6
    <3> QED BY ONLY <3>1
  <2>11. CodeTypes'
    <3>1. codes' \in [Codes -> [device : MaybeDevice, at : CodeStates]] BY <2>1, <2>9
    <3>2. spent' \in [Codes -> Nat] BY <2>1, <2>8
    <3> QED BY <1>1, <2>2, <2>3, <3>1, <3>2 DEF CodeInv, CodeTypes
  <2>12. UnspentOpen'
    BY <2>1, <2>5, <2>7, <2>10 DEF CodeInv, UnspentOpen
  <2>13. \A k \in issues' : k.at = "open" => k \in issues /\ k # i
    BY <2>2, <2>3
  <2>14. LockedUnspent'
    <3> SUFFICES ASSUME NEW k \in issues', k.at = "open", NEW c \in k.supersedes
                 PROVE  spent'[c] = 0 /\ codes'[c].at # "none"
      BY DEF LockedUnspent
    <3>1. k \in issues /\ k # i BY <2>13
    <3>2. c \in Codes /\ spent[c] = 0 /\ codes[c].at # "none"
      BY <3>1 DEF CodeInv, CodeTypes, IssueRecords, LockedUnspent
    <3>3. c \notin i.supersedes BY <1>1, <3>1 DEF CodeInv, LockedOnce
    <3> QED BY <2>1, <2>7, <3>2, <3>3
  <2>15. LockedOnce' BY <2>13 DEF CodeInv, LockedOnce
  <2>16. CodeSpentOnce'
    <3>1. \A c \in Codes : spent'[c] = 1 \/ spent'[c] = spent[c] BY <2>5, <2>6, <2>7
    <3> QED BY <3>1, <2>8 DEF CodeInv, CodeSpentOnce
  <2> QED BY <2>11, <2>12, <2>14, <2>15, <2>16 DEF CodeInv
<1> QED BY <1>2, <1>3

LEMMA CodesIssueLost ==
  ASSUME CodeInv, NEW i \in issues, IssueLost(i)
  PROVE  CodeInv'
<1> DEFINE j == [i EXCEPT !.at = "failed"]
<1>1. i \in IssueRecords BY DEF CodeInv, CodeTypes
<1>2. j \in IssueRecords /\ j.at # "open" BY <1>1 DEF IssueRecords, IssueStates
<1>3. issues' = (issues \ {i}) \cup {j} /\ UNCHANGED <<codes, spent, deviceDialog>>
  BY DEF IssueLost, serverKeys, dialogVars
<1> QED BY <1>2, <1>3, IssueMoves

LEMMA CodesIssueAnswered ==
  ASSUME CodeInv, NEW i \in issues, IssueAnswered(i)
  PROVE  CodeInv'
<1>1. deviceDialog' \in DialogRecords
  BY DEF CodeInv, CodeTypes, IssueAnswered, DialogRecords
<1>2. issues' \subseteq issues /\ UNCHANGED <<codes, spent>>
  BY DEF IssueAnswered, serverKeys
<1> QED
  BY <1>1, <1>2 DEF CodeInv, CodeTypes, UnspentOpen, LockedUnspent, LockedOnce, CodeSpentOnce

LEMMA CodesGenerate ==
  ASSUME CodeInv, generateDeviceActivationCode
  PROVE  CodeInv'
<1>1. PICK n \in 1..MaxIssues :
        issues' = issues \cup {[n |-> n, id |-> deviceDialog.id, at |-> "sent",
                                supersedes |-> {}, code |-> "none"]}
  BY DEF generateDeviceActivationCode
<1> DEFINE j == [n |-> n, id |-> deviceDialog.id, at |-> "sent", supersedes |-> {}, code |-> "none"]
<1>2. deviceDialog' \in DialogRecords /\ UNCHANGED <<codes, spent>>
  BY DEF CodeInv, CodeTypes, generateDeviceActivationCode, DialogRecords, serverKeys
<1>3. deviceDialog.id \in MaybeDevice BY DEF CodeInv, CodeTypes, DialogRecords
<1>4. j \in IssueRecords /\ j.at = "sent" BY <1>3 DEF IssueRecords, IssueStates
<1>5. issues' = issues \cup {j} BY <1>1
<1> HIDE DEF j
<1>6. \A k \in issues' : k.at = "open" => k \in issues BY <1>4, <1>5
<1>7. CodeTypes' BY <1>2, <1>4, <1>5 DEF CodeInv, CodeTypes
<1> QED BY <1>2, <1>6, <1>7 DEF CodeInv, UnspentOpen, LockedUnspent, LockedOnce, CodeSpentOnce

-----------------------------------------------------------------------------
(* The other requests and dialogs of the page.                             *)

LEMMA AnsweredDialog ==
  ASSUME CodeInv, NEW kind, NEW ok \in BOOLEAN, Answered(kind, ok)
  PROVE  deviceDialog' \in DialogRecords
BY DEF CodeInv, CodeTypes, Answered, NoDeviceDialog, DialogRecords, DialogKinds, MaybeDevice

LEMMA CodesDeviceRequests ==
  ASSUME CodeInv, DeviceRequests
  PROVE  CodeInv'
<1>1. PICK op \in deviceOps :
        \/ /\ \E new \in DeviceResults(op) :
                IF op.kind = "revoke" THEN D!AnswerLost(op, new) /\ Answered("revoke", TRUE)
                ELSE D!Served(op, new) /\ UNCHANGED dialogVars
           /\ Consequences(op) /\ UNCHANGED <<issues, kiosk>>
        \/ /\ \E new \in DeviceResults(op) : D!AnswerLost(op, new)
           /\ Consequences(op) /\ Answered(op.kind, FALSE) /\ UNCHANGED <<issues, kiosk>>
        \/ D!Fails(op) /\ Answered(op.kind, FALSE) /\ UNCHANGED <<serverKeys, issues, kiosk>>
        \/ D!LoadServed(op) /\ UNCHANGED <<serverKeys, issues, dialogVars, kiosk>>
        \/ D!LoadEnds(op) /\ Answered(op.kind, TRUE) /\ UNCHANGED <<serverKeys, issues, kiosk>>
  BY DEF DeviceRequests
<1>2. UNCHANGED dialogVars \/ (\E kind : \E ok \in BOOLEAN : Answered(kind, ok))
  BY <1>1
<1>3. UNCHANGED dialogVars => deviceDialog' \in DialogRecords
  BY DEF dialogVars, CodeInv, CodeTypes
<1>4. deviceDialog' \in DialogRecords
  BY <1>2, <1>3, AnsweredDialog
<1>5. CASE Consequences(op) /\ issues' = issues BY <1>4, <1>5, CodesDropped
<1>6. CASE UNCHANGED <<serverKeys, issues>> BY <1>4, <1>6, DialogOnly DEF serverKeys
<1> QED BY <1>1, <1>5, <1>6

LEMMA CodesDialogs ==
  ASSUME CodeInv,
         \/ CloseDeviceDialog \/ RebootTimer
         \/ \E kind \in DialogKinds \ {"none"}, d \in MaybeDevice : OpenDeviceDialog(kind, d)
         \/ RegisterDeviceModal \/ EditDeviceModal \/ RebootDeviceDialog
         \/ DecommissionDeviceDialog \/ ReactivateDeviceDialog \/ RevokeTokenDialog
         \/ DeleteDeviceDialog
  PROVE  CodeInv'
<1>1. deviceDialog \in DialogRecords BY DEF CodeInv, CodeTypes
<1>2. NoDeviceDialog \in DialogRecords BY DEF NoDeviceDialog, DialogRecords, DialogKinds, MaybeDevice
<1>3. CASE CloseDeviceDialog
  BY <1>2, <1>3, DialogOnly DEF CloseDeviceDialog, serverKeys
<1>4. CASE RebootTimer
  BY <1>1, <1>2, <1>4, DialogOnly DEF RebootTimer, serverKeys
<1>5. ASSUME NEW kind \in DialogKinds \ {"none"}, NEW d \in MaybeDevice,
             OpenDeviceDialog(kind, d)
      PROVE  CodeInv'
  <2>1. deviceDialog' \in DialogRecords
    <3> DEFINE isBusy == kind \in {"create", "edit"} /\ \E op \in deviceOps : op.kind = kind
    <3>1. deviceDialog' = [kind |-> kind, id |-> d, loading |-> isBusy]
      BY <1>5 DEF OpenDeviceDialog
    <3>2. isBusy \in BOOLEAN OBVIOUS
    <3> HIDE DEF isBusy
    <3> QED BY <3>1, <3>2 DEF DialogRecords
  <2> QED BY <1>5, <2>1, DialogOnly DEF OpenDeviceDialog, serverKeys
<1> DEFINE Confirmed == /\ deviceDialog' = [deviceDialog EXCEPT !.loading = TRUE]
                        /\ UNCHANGED <<serverKeys, issues>>
<1>6. ASSUME Confirmed PROVE CodeInv'
  <2>1. deviceDialog' \in DialogRecords BY <1>1, <1>6 DEF DialogRecords
  <2> QED BY <1>6, <2>1, DialogOnly DEF serverKeys
<1>7. RegisterDeviceModal \/ EditDeviceModal \/ RebootDeviceDialog \/ DecommissionDeviceDialog
        => Confirmed
  BY DEF RegisterDeviceModal, EditDeviceModal, RebootDeviceDialog, DecommissionDeviceDialog,
         DialogConfirmed
<1>8. ReactivateDeviceDialog \/ RevokeTokenDialog \/ DeleteDeviceDialog => Confirmed
  BY DEF ReactivateDeviceDialog, RevokeTokenDialog, DeleteDeviceDialog, DialogConfirmed
<1> HIDE DEF Confirmed
<1> QED BY <1>3, <1>4, <1>5, <1>6, <1>7, <1>8

-----------------------------------------------------------------------------
(* The edge clients.                                                       *)

(* consume_activation_code uses up a code that is open and whose row no    *)
(* other request has locked.                                               *)
LEMMA CodesRedeemCommit ==
  ASSUME CodeInv, NEW e \in Kiosks, RedeemCommit(e)
  PROVE  CodeInv'
<1> DEFINE c == kiosk[e].redeem.code
           ok == consume_activation_code(c)
<1>1. /\ c \notin Locked /\ UNCHANGED <<issues, deviceDialog>>
      /\ codes' = IF ok THEN [codes EXCEPT ![c].at = "spent"] ELSE codes
      /\ spent' = IF ok THEN [spent EXCEPT ![c] = @ + 1] ELSE spent
  BY DEF RedeemCommit, ToKiosk, dialogVars
<1>2. ok => codes[c].at = "open" BY DEF consume_activation_code
<1> HIDE DEF c, ok
<1>3. CASE ok /\ c \in Codes
  <2>1. codes' = [codes EXCEPT ![c] = [codes[c] EXCEPT !.at = "spent"]]
        /\ spent' = [spent EXCEPT ![c] = spent[c] + 1]
    BY <1>1, <1>3
  <2>2. codes \in [Codes -> [device : MaybeDevice, at : CodeStates]] /\ spent \in [Codes -> Nat]
    BY DEF CodeInv, CodeTypes
  <2>3. codes[c] \in [device : MaybeDevice, at : CodeStates] BY <1>3, <2>2
  <2>4. [codes[c] EXCEPT !.at = "spent"] = [device |-> codes[c].device, at |-> "spent"]
    BY <2>3
  <2>5. codes'[c] = [device |-> codes[c].device, at |-> "spent"] BY <1>3, <2>1, <2>2, <2>4
  <2>6. codes'[c].at = "spent" BY ONLY <2>5
  <2>7. spent[c] = 0 BY <1>2, <1>3 DEF CodeInv, UnspentOpen
  <2>8. spent'[c] = 1 BY <1>3, <2>1, <2>2, <2>7
  <2>9. \A d \in Codes : d # c => codes'[d] = codes[d] /\ spent'[d] = spent[d]
    BY <2>1, <2>2
  <2>10. codes' \in [Codes -> [device : MaybeDevice, at : CodeStates]]
    <3>1. codes'[c] \in [device : MaybeDevice, at : CodeStates]
      BY <2>3, <2>5 DEF CodeStates
    <3> QED BY <2>1, <2>2, <2>9, <3>1
  <2>11. spent' \in [Codes -> Nat]
    <3>1. \A d \in Codes : spent'[d] \in Nat BY <2>2, <2>8, <2>9
    <3> QED BY <2>1, <2>2, <3>1
  <2>12. CodeTypes' BY <1>1, <2>10, <2>11 DEF CodeInv, CodeTypes
  <2>13. UnspentOpen' BY <2>6, <2>9 DEF CodeInv, UnspentOpen
  <2>14. LockedUnspent'
    <3> SUFFICES ASSUME NEW i \in issues, i.at = "open", NEW d \in i.supersedes
                 PROVE  spent'[d] = 0 /\ codes'[d].at # "none"
      BY <1>1 DEF LockedUnspent
    <3>1. d \in Codes BY DEF CodeInv, CodeTypes, IssueRecords
    <3>2. d # c BY <1>1 DEF Locked
    <3> QED BY <2>9, <3>1, <3>2 DEF CodeInv, LockedUnspent
  <2>15. LockedOnce' BY <1>1 DEF CodeInv, LockedOnce
  <2>16. CodeSpentOnce' BY <2>8, <2>9 DEF CodeInv, CodeSpentOnce
  <2> QED BY <2>12, <2>13, <2>14, <2>15, <2>16 DEF CodeInv
<1>4. CASE ~(ok /\ c \in Codes)
  <2>1. codes' = codes /\ spent' = spent BY <1>1, <1>4 DEF CodeInv, CodeTypes
  <2> QED BY <1>1, <2>1, DialogOnly DEF CodeInv, CodeTypes
<1> QED BY <1>3, <1>4

LEMMA CodesKiosk ==
  ASSUME CodeInv, NEW e \in Kiosks, KioskStep(e)
  PROVE  CodeInv'
<1>1. CASE RedeemCommit(e) BY <1>1, CodesRedeemCommit
<1>2. ASSUME NEW k, ToKiosk(e, k), UNCHANGED serverKeys PROVE CodeInv'
  BY <1>2, DialogOnly DEF ToKiosk, serverKeys, dialogVars, CodeInv, CodeTypes
<1>3. CASE \E c \in Codes, password \in BOOLEAN : submit(e, c, password)
  BY <1>2, <1>3 DEF submit
<1>4. CASE RedeemRead(e) \/ Activated(e) \/ ActivationFails(e) \/ Restart(e)
  BY <1>2, <1>4 DEF RedeemRead, Activated, ActivationFails, Restart
<1>5. CASE refresh_and_boot(e) \/ MqttDrops(e) \/ MqttConnects(e) \/ SyncRefused(e)
  BY <1>2, <1>5 DEF refresh_and_boot, MqttDrops, MqttConnects, SyncRefused
<1>6. CASE unlock(e) \/ lockNow(e)
  BY <1>2, <1>6 DEF unlock, lockNow
<1> QED BY <1>1, <1>3, <1>4, <1>5, <1>6 DEF KioskStep

-----------------------------------------------------------------------------
LEMMA CodeInvariant == DevicesSpec => []CodeInv
<1>1. ASSUME NEW ids \in SUBSET DeviceIds, DevicesInit(ids) PROVE CodeInv
  BY <1>1 DEF DevicesInit, CodeInv, CodeTypes, UnspentOpen, LockedUnspent, LockedOnce,
              CodeSpentOnce, NoDeviceDialog, DialogRecords, DialogKinds, MaybeDevice, CodeStates
<1>2. CodeInv /\ [DevicesNext]_deviceVars => CodeInv'
  <2> SUFFICES ASSUME CodeInv, [DevicesNext]_deviceVars PROVE CodeInv'
    OBVIOUS
  <2>1. CASE UNCHANGED deviceVars
    BY <2>1, DialogOnly DEF deviceVars, serverKeys, dialogVars, CodeInv, CodeTypes
  <2>2. CASE DeviceRequests BY <2>2, CodesDeviceRequests
  <2>3. CASE generateDeviceActivationCode BY <2>3, CodesGenerate
  <2>4. ASSUME NEW i \in issues, IssueBegin(i) \/ IssueCommit(i) \/ IssueLost(i) \/ IssueAnswered(i)
        PROVE  CodeInv'
    BY <2>4, CodesIssueBegin, CodesIssueCommit, CodesIssueLost, CodesIssueAnswered
  <2>5. CASE CloseDeviceDialog \/ RebootTimer
    BY <2>5, CodesDialogs
  <2>6. CASE \E kind \in {"create", "edit", "code", "revoke", "reboot", "decommission",
                          "reactivate", "delete"} :
               \E d \in DeviceIds \cup {"none"} : OpenDeviceDialog(kind, d)
    BY <2>6, CodesDialogs DEF DialogKinds, MaybeDevice
  <2>7. CASE \/ RegisterDeviceModal \/ EditDeviceModal \/ RebootDeviceDialog
             \/ DecommissionDeviceDialog \/ ReactivateDeviceDialog \/ RevokeTokenDialog
             \/ DeleteDeviceDialog
    BY <2>7, CodesDialogs
  <2>8. CASE (\E d \in DeviceIds : AssignGate(d)) \/ (\E c \in Codes : CodeExpires(c))
    BY <2>8, DialogOnly DEF AssignGate, CodeExpires, dialogVars, CodeInv, CodeTypes
  <2>9. CASE \E e \in Kiosks : KioskStep(e) BY <2>9, CodesKiosk
  <2> QED BY <2>1, <2>2, <2>3, <2>4, <2>5, <2>6, <2>7, <2>8, <2>9 DEF DevicesNext, DevicesPage
<1>3. (\E ids \in SUBSET DeviceIds : DevicesInit(ids)) => CodeInv BY <1>1
<1> QED BY <1>2, <1>3, PTL DEF DevicesSpec

(* However activations, new codes, expiries, retirements and deletions     *)
(* overlap, consumed_at of a code is written once: no code is exchanged    *)
(* for two keys, and none after a newer code superseded it                 *)
(* (activation_service.py).                                                *)
THEOREM CodesUsedOnce == DevicesSpec => []CodeSpentOnce
<1>1. CodeInv => CodeSpentOnce BY DEF CodeInv
<1> QED BY <1>1, CodeInvariant, PTL

-----------------------------------------------------------------------------
(* Memberships: the types the argument needs.                              *)

MemStatuses == {"none", "pending", "active", "rejected", "cancelled", "revoked", "expired"}
MemOps == {"none", "activate", "reject", "revoke", "cancel", "settle", "refund", "plan"}
MaybeMem == Mems \cup {"none"}
MemKeys == Mems \cup {"none", "all", "pending"}

RvRecords ==
  [status : {"absent", "active", "suspended"}, tag : {"none", "standard", "blacklist", "member"},
   by : {"tenant", "service"}]

TxnRecords ==
  [op : MemOps, m : MaybeMem, key : MemKeys, at : {"idle", "sent", "read", "ok", "refused"},
   status : MemStatuses,
   expired : SUBSET Mems, dropped : SUBSET Mems, prior : SUBSET Mems,
   seen : RvRecords]

TabKeys == {k \in [MemTabs -> MemKeys] : k["plans"] \in MaybeMem}

MemPages ==
  [tab : MemTabs, dialog : [kind : MemOps, m : Mems] \cup {NoMemDialog}, key : TabKeys,
   rows : [Mems -> MemStatuses], paid : SUBSET Mems, plans : SUBSET Mems]

MemLoadRecords ==
  [tab : MemTabs, key : MemKeys, by : {"effect", "button", "after"}, served : BOOLEAN,
   rows : [Mems -> MemStatuses], paid : SUBSET Mems, plans : SUBSET Mems]

MemTypes ==
  /\ memStatus \in [Mems -> MemStatuses] /\ rv \in RvRecords
  /\ linked \subseteq Mems /\ aged \subseteq Mems /\ memPaid \subseteq Mems /\ plans \subseteq Mems
  /\ memTxn \in [MemParties -> TxnRecords]
  /\ memPage \in MemPages /\ memLoads \subseteq MemLoadRecords

(* A call that has not left the machine, or that reads, is about a         *)
(* membership, and a handler that goes on is not about one its sweep ends. *)
OfMem(t) ==
  /\ t.at \in {"sent", "read"} => t.m \in Mems
  /\ t.at = "read" => t.m \notin t.expired \cup t.dropped

TxnOfMem == \A c \in MemParties : OfMem(memTxn[c])

(* One membership at most holds the plate's row, and the row is as the     *)
(* service left it.                                                        *)
OneHolder ==
  /\ \A m, n \in Holders : m = n
  /\ rv.by = "service" => (rv.status = "active" <=> Holders # {})

HolderInv == ~conflicted => OneHolder

MemTyped == MemTypes /\ TxnOfMem
MemInv == MemTyped /\ HolderInv

LEMMA NoTxnTyped == NoTxn \in TxnRecords /\ NoTxn.at = "idle" /\ OfMem(NoTxn)
<1>1. NoRow \in RvRecords BY DEF NoRow, RvRecords
<1> QED BY <1>1 DEF NoTxn, TxnRecords, MemOps, MaybeMem, MemKeys, MemStatuses, OfMem

LEMMA CallTyped ==
  ASSUME NEW op \in MemOps, NEW m \in MaybeMem, NEW key \in MemKeys
  PROVE  /\ MemCall(op, m, key) \in TxnRecords
         /\ m \in Mems => OfMem(MemCall(op, m, key))
  BY NoTxnTyped DEF MemCall, TxnRecords, OfMem

(* One party's call changes.                                               *)
LEMMA TxnReplaced ==
  ASSUME MemTypes, NEW c \in MemParties, NEW t \in TxnRecords,
         memTxn' = [memTxn EXCEPT ![c] = t]
  PROVE  /\ memTxn' \in [MemParties -> TxnRecords] /\ memTxn'[c] = t
         /\ \A d \in MemParties : d # c => memTxn'[d] = memTxn[d]
  BY DEF MemTypes

LEMMA TxnReplacedTyped ==
  ASSUME MemTyped, NEW c \in MemParties, NEW t \in TxnRecords,
         memTxn' = [memTxn EXCEPT ![c] = t], OfMem(t)
  PROVE  memTxn' \in [MemParties -> TxnRecords] /\ TxnOfMem'
  BY TxnReplaced DEF MemTyped, TxnOfMem

(* What a handler leaves in the call of its party when it is done.         *)
LEMMA TxnOver ==
  ASSUME NEW t \in TxnRecords, NEW c \in MemParties, NEW at \in {"ok", "refused"}
  PROVE  /\ (IF c \in MemTabs THEN [t EXCEPT !.at = at] ELSE NoTxn) \in TxnRecords
         /\ OfMem(IF c \in MemTabs THEN [t EXCEPT !.at = at] ELSE NoTxn)
<1>1. [t EXCEPT !.at = at] \in TxnRecords /\ OfMem([t EXCEPT !.at = at])
  BY DEF TxnRecords, OfMem
<1> QED BY <1>1, NoTxnTyped

LEMMA CommitTyped ==
  ASSUME MemTypes, NEW t, t.status \in MemStatuses, MemCommit(t),
         t.op \in {"activate", "settle"} => t.m \in Mems
  PROVE  /\ memStatus' \in [Mems -> MemStatuses] /\ rv' \in RvRecords
         /\ linked' \subseteq Mems /\ aged' \subseteq Mems /\ memPaid' \subseteq Mems
<1>1. MemVerdict(t) \in MemStatuses BY DEF MemVerdict, MemStatuses
<1>2. MemWritten(t) \in [Mems -> MemStatuses]
  <2>1. \A m \in Mems : memStatus[m] \in MemStatuses BY DEF MemTypes
  <2> QED BY <1>1, <2>1 DEF MemWritten, MemStatuses
<1>3. RowWritten(t) \in RvRecords
  <2>1. rv \in RvRecords BY DEF MemTypes
  <2>2. rv.status \in {"absent", "active", "suspended"}
        /\ rv.tag \in {"none", "standard", "blacklist", "member"}
    BY <2>1 DEF RvRecords
  <2> QED BY <2>1, <2>2 DEF RowWritten, RvRecords
<1> QED BY <1>2, <1>3 DEF MemCommit, MemTypes, Granting

-----------------------------------------------------------------------------
(* The types are kept: the service.                                        *)

LEMMA BeginTyped ==
  ASSUME MemTyped, NEW c \in MemParties, MemBegin(c)
  PROVE  MemTyped'
<1> DEFINE t == memTxn[c]
           lapsed == IF Sweeps(t.op) THEN StaleMems("active") ELSE {}
           dropped == IF Sweeps(t.op) THEN StaleMems("pending") ELSE {}
           read == IF t.m \in lapsed \cup dropped THEN "over" ELSE memStatus[t.m]
           goes == \/ t.op \in {"settle", "refund"}
                   \/ read \in MemExpected(t.op) /\ ~(t.op = "activate" /\ rv.tag = "blacklist")
           prior == Holders \ (lapsed \cup {t.m})
           opened == [t EXCEPT !.at = "read", !.status = read, !.seen = rv, !.expired = lapsed,
                               !.dropped = dropped, !.prior = prior]
           refused == IF c \in MemTabs THEN [t EXCEPT !.at = "refused"] ELSE NoTxn
<1>1. t \in TxnRecords /\ t.at = "sent" /\ t.m \in Mems
  BY DEF MemTyped, MemTypes, TxnOfMem, OfMem, MemBegin
<1>2. memTxn' = [memTxn EXCEPT ![c] = IF goes THEN opened ELSE refused]
  BY DEF MemBegin
<1>3. lapsed \subseteq Mems /\ dropped \subseteq Mems /\ prior \subseteq Mems /\ rv \in RvRecords
  BY DEF StaleMems, Holders, MemTyped, MemTypes
<1>4. goes => read \in MemStatuses /\ t.m \notin lapsed \cup dropped
  <2>1. memStatus[t.m] \in MemStatuses BY <1>1 DEF MemTyped, MemTypes
  <2>2. read \in MemExpected(t.op) => read \in MemStatuses /\ read # "over"
    BY DEF MemExpected, MemStatuses, MemOpen
  <2>3. t.op \in {"settle", "refund"} => lapsed = {} /\ dropped = {} BY DEF Sweeps
  <2> QED BY <2>1, <2>2, <2>3
<1>5. ASSUME goes PROVE opened \in TxnRecords /\ OfMem(opened)
  <2> HIDE DEF lapsed, dropped, read, prior, t, goes
  <2> QED BY <1>1, <1>3, <1>4, <1>5 DEF TxnRecords, OfMem
<1>6. refused \in TxnRecords /\ OfMem(refused)
  BY <1>1, TxnOver
<1>7. memTxn' \in [MemParties -> TxnRecords] /\ TxnOfMem'
  <2> HIDE DEF opened, refused, goes, t
  <2> QED BY <1>1, <1>2, <1>5, <1>6, TxnReplacedTyped
<1> QED BY <1>7 DEF MemTyped, MemTypes, MemBegin, memServer

LEMMA FinishTyped ==
  ASSUME MemTyped, NEW c \in MemParties, MemFinish(c)
  PROVE  MemTyped'
<1> DEFINE t == memTxn[c]
           done == IF c \in MemTabs THEN [t EXCEPT !.at = "ok"] ELSE NoTxn
<1>1. t \in TxnRecords /\ t.m \in Mems BY DEF MemTyped, MemTypes, TxnOfMem, OfMem, MemFinish
<1>2. MemCommit(t) /\ memTxn' = [memTxn EXCEPT ![c] = done] BY DEF MemFinish
<1>3. done \in TxnRecords /\ OfMem(done) BY <1>1, TxnOver
<1>4. t.status \in MemStatuses BY <1>1 DEF TxnRecords
<1> HIDE DEF t, done
<1>5. /\ memStatus' \in [Mems -> MemStatuses] /\ rv' \in RvRecords
      /\ linked' \subseteq Mems /\ aged' \subseteq Mems /\ memPaid' \subseteq Mems
  BY <1>1, <1>2, <1>4, CommitTyped DEF MemTyped
<1>6. memTxn' \in [MemParties -> TxnRecords] /\ TxnOfMem'
  BY <1>2, <1>3, TxnReplacedTyped
<1> QED BY <1>5, <1>6 DEF MemTyped, MemTypes, MemFinish

LEMMA LostTyped ==
  ASSUME MemTyped, NEW c \in MemParties, MemLost(c)
  PROVE  MemTyped'
<1> DEFINE t == memTxn[c]
           done == IF c \in MemTabs THEN [t EXCEPT !.at = "refused"] ELSE NoTxn
<1>1. t \in TxnRecords BY DEF MemTyped, MemTypes
<1>2. memTxn' = [memTxn EXCEPT ![c] = done] BY DEF MemLost
<1>3. done \in TxnRecords /\ OfMem(done) BY <1>1, TxnOver
<1> HIDE DEF t, done
<1>4. memTxn' \in [MemParties -> TxnRecords] /\ TxnOfMem'
  BY <1>2, <1>3, TxnReplacedTyped
<1> QED BY <1>4 DEF MemTyped, MemTypes, MemLost, memServer

LEMMA CallsTyped ==
  ASSUME MemTyped, NEW c \in MemParties, NEW op \in {"cancel", "settle"}, NEW m \in Mems,
         DriverOrGateway(c, op, m)
  PROVE  MemTyped'
<1>1. MemCall(op, m, "none") \in TxnRecords /\ OfMem(MemCall(op, m, "none"))
  BY CallTyped DEF MemOps, MaybeMem, MemKeys
<1>2. memTxn' = [memTxn EXCEPT ![c] = MemCall(op, m, "none")] BY DEF DriverOrGateway
<1>3. memTxn' \in [MemParties -> TxnRecords] /\ TxnOfMem'
  BY <1>1, <1>2, TxnReplacedTyped
<1> QED BY <1>3 DEF MemTyped, MemTypes, DriverOrGateway, memServer

LEMMA PlanTyped ==
  ASSUME MemTyped, PlanSaved
  PROVE  MemTyped'
<1> DEFINE t == memTxn["plans"]
           done == [t EXCEPT !.at = "ok"]
<1>1. t \in TxnRecords /\ t.m \in Mems /\ "plans" \in MemParties
  BY DEF MemTyped, MemTypes, TxnOfMem, OfMem, PlanSaved, MemParties, MemTabs
<1>2. memTxn' = [memTxn EXCEPT !["plans"] = done] /\ plans' = plans \cup {t.m}
  BY DEF PlanSaved
<1>3. done \in TxnRecords /\ OfMem(done) BY <1>1 DEF TxnRecords, OfMem
<1> HIDE DEF t, done
<1>4. memTxn' \in [MemParties -> TxnRecords] /\ TxnOfMem'
  BY <1>1, <1>2, <1>3, TxnReplacedTyped
<1> QED BY <1>1, <1>2, <1>4 DEF MemTyped, MemTypes, PlanSaved

LEMMA ServiceTyped ==
  ASSUME MemTyped, ServiceStep
  PROVE  MemTyped'
<1>1. ASSUME NEW m \in Mems, request_membership(m) PROVE MemTyped'
  <2>1. memStatus' \in [Mems -> MemStatuses]
    BY <1>1 DEF request_membership, MemTyped, MemTypes, MemStatuses
  <2> QED BY <1>1, <2>1 DEF request_membership, MemTyped, MemTypes, TxnOfMem
<1>2. ASSUME NEW m \in Mems, TimePasses(m) PROVE MemTyped'
  BY <1>2 DEF TimePasses, MemTyped, MemTypes, TxnOfMem
<1>3. ASSUME NEW status \in {"active", "suspended"}, NEW tag \in {"standard", "blacklist"},
             SaveVehicle(status, tag)
      PROVE  MemTyped'
  <2>1. TenantRow(status, tag) \in RvRecords BY DEF TenantRow, RvRecords
  <2> QED BY <1>3, <2>1 DEF SaveVehicle, MemTyped, MemTypes, TxnOfMem
<1>4. CASE DeleteVehicle
  <2>1. NoRow \in RvRecords BY DEF NoRow, RvRecords
  <2> QED BY <1>4, <2>1 DEF DeleteVehicle, MemTyped, MemTypes, TxnOfMem
<1> QED
  BY <1>1, <1>2, <1>3, <1>4, BeginTyped, FinishTyped, LostTyped, CallsTyped, PlanTyped DEF ServiceStep

-----------------------------------------------------------------------------
(* The types are kept: the page.                                           *)

LEMMA LoadTyped ==
  ASSUME NEW tab \in MemTabs, NEW key \in MemKeys, NEW by \in {"effect", "button", "after"}
  PROVE  MemReload(tab, key, by) \subseteq MemLoadRecords
<1>1. NewMemPage.rows \in [Mems -> MemStatuses]
  BY DEF NewMemPage, MemStatuses
<1> HIDE DEF NewMemPage
<1>2. MemLoad(tab, key, by) \in MemLoadRecords BY <1>1 DEF MemLoad, MemLoadRecords
<1> QED BY <1>2 DEF MemReload

(* The page and its requests change, the service does not.                 *)
LEMMA PageOnly ==
  ASSUME MemTyped, UNCHANGED <<memServer, memTxn>>, memPage' \in MemPages,
         memLoads' \subseteq MemLoadRecords
  PROVE  MemTyped'
  BY DEF MemTyped, MemTypes, TxnOfMem, memServer

LEMMA TabsTyped ==
  ASSUME MemTyped,
         NEW tab \in MemTabs, NEW key \in MemKeys,
         setMemTab(tab) \/ (setMemFilter(key) /\ (memPage.tab = "plans" => key \in MaybeMem))
  PROVE  MemTyped'
<1>1. memPage \in MemPages /\ memLoads \subseteq MemLoadRecords BY DEF MemTyped, MemTypes
<1>2. /\ memPage.tab \in MemTabs
      /\ memPage.key \in TabKeys
      /\ \A t \in MemTabs : memPage.key[t] \in MemKeys
  BY <1>1 DEF MemPages, TabKeys
<1>3. CASE setMemTab(tab)
  <2>1. memPage' \in MemPages BY <1>1, <1>3 DEF setMemTab, MemPages
  <2>2. MemReload(tab, memPage.key[tab], "effect") \subseteq MemLoadRecords
    BY <1>2, LoadTyped
  <2>3. memLoads' \subseteq MemLoadRecords BY <1>1, <1>3, <2>2 DEF setMemTab
  <2> QED BY <1>3, <2>1, <2>3, PageOnly DEF setMemTab
<1>4. CASE setMemFilter(key) /\ (memPage.tab = "plans" => key \in MaybeMem)
  <2> DEFINE now == memPage.tab
             keys1 == [memPage.key EXCEPT ![now] = key]
             plans1 == IF key = "none" THEN {} ELSE memPage.plans
  <2>1. keys1 \in TabKeys BY <1>2, <1>4 DEF TabKeys, MemTabs
  <2>2. plans1 \subseteq Mems BY <1>1 DEF MemPages
  <2>3. memPage' = [memPage EXCEPT !.key = keys1, !.plans = plans1]
    BY <1>4 DEF setMemFilter
  <2>4. MemReload(now, key, "effect") \subseteq MemLoadRecords BY <1>2, LoadTyped
  <2>5. memLoads' = memLoads \cup MemReload(now, key, "effect") BY <1>4 DEF setMemFilter
  <2> HIDE DEF keys1, plans1, now
  <2>6. memPage' \in MemPages BY <1>1, <2>1, <2>2, <2>3 DEF MemPages
  <2> QED BY <1>1, <1>4, <2>4, <2>5, <2>6, PageOnly DEF setMemFilter
<1> QED BY <1>3, <1>4

LEMMA DialogsTyped ==
  ASSUME MemTyped,
         \/ RefreshRequests \/ CancelMemDialog
         \/ \E tab \in MemTabs : \E d \in MemButtons(tab) : OpenMemDialog(d)
  PROVE  MemTyped'
<1>1. memPage \in MemPages /\ memLoads \subseteq MemLoadRecords BY DEF MemTyped, MemTypes
<1>2. "requests" \in MemTabs /\ "plans" \in MemTabs BY DEF MemTabs
<1>3. memPage.key["requests"] \in MemKeys BY <1>1, <1>2 DEF MemPages, TabKeys
<1>4. CASE RefreshRequests
  <2>1. MemReload("requests", memPage.key["requests"], "button") \subseteq MemLoadRecords
    BY <1>2, <1>3, LoadTyped
  <2>2. memLoads' \subseteq MemLoadRecords BY <1>1, <1>4, <2>1 DEF RefreshRequests
  <2> QED BY <1>1, <1>4, <2>2, PageOnly DEF RefreshRequests
<1>5. CASE CancelMemDialog
  <2>1. memPage' \in MemPages BY <1>1, <1>5 DEF CancelMemDialog, MemPages
  <2> QED BY <1>1, <1>5, <2>1, PageOnly DEF CancelMemDialog
<1>6. ASSUME NEW tab \in MemTabs, NEW d \in MemButtons(tab), OpenMemDialog(d) PROVE MemTyped'
  <2>1. RowActions \subseteq [kind : MemOps, m : Mems] BY DEF RowActions, MemOps
  <2>2. RefundActions \subseteq [kind : MemOps, m : Mems]
    BY <1>1 DEF RefundActions, MemOps, MemPages
  <2>3. PlanActions \subseteq [kind : MemOps, m : Mems]
    <3>1. memPage.plans \subseteq Mems BY <1>1 DEF MemPages
    <3>2. memPage.key["plans"] \in Mems \cup {"none"} BY <1>1 DEF MemPages, TabKeys, MaybeMem
    <3> QED BY <3>1, <3>2 DEF PlanActions, MemOps
  <2>4. d \in [kind : MemOps, m : Mems] BY <2>1, <2>2, <2>3 DEF MemButtons
  <2>5. memPage' \in MemPages BY <1>1, <1>6, <2>4 DEF OpenMemDialog, MemPages
  <2> QED BY <1>1, <1>6, <2>5, PageOnly DEF OpenMemDialog
<1> QED BY <1>4, <1>5, <1>6

LEMMA ConfirmTyped ==
  ASSUME MemTyped, NEW tab \in MemTabs, MemConfirm(tab)
  PROVE  MemTyped'
<1>1. memPage \in MemPages BY DEF MemTyped, MemTypes
<1>2. memPage.dialog \in [kind : MemOps, m : Mems]
  BY <1>1 DEF MemConfirm, MemPages
<1>3. memPage.key[tab] \in MemKeys BY <1>1 DEF MemPages, TabKeys
<1> DEFINE d == memPage.dialog
           call == MemCall(d.kind, d.m, memPage.key[tab])
<1>4. call \in TxnRecords /\ OfMem(call)
  <2>1. d.kind \in MemOps /\ d.m \in Mems BY <1>2
  <2> HIDE DEF d
  <2> QED BY <1>3, <2>1, CallTyped DEF MaybeMem
<1>5. memTxn' = [memTxn EXCEPT ![tab] = call] BY DEF MemConfirm
<1>6. tab \in MemParties BY DEF MemParties
<1> HIDE DEF call
<1>7. memTxn' \in [MemParties -> TxnRecords] /\ TxnOfMem'
  BY <1>4, <1>5, <1>6, TxnReplacedTyped
<1> QED BY <1>7 DEF MemTyped, MemTypes, MemConfirm, memServer

LEMMA ActionTyped ==
  ASSUME MemTyped, NEW tab \in MemTabs, ActionAnswered(tab)
  PROVE  MemTyped'
<1> DEFINE t == memTxn[tab]
<1>1. /\ memPage \in MemPages /\ memLoads \subseteq MemLoadRecords
      /\ tab \in MemParties /\ t \in TxnRecords
  BY DEF MemTyped, MemTypes, MemParties
<1>2. memTxn' = [memTxn EXCEPT ![tab] = NoTxn] BY DEF ActionAnswered
<1>3. memTxn' \in [MemParties -> TxnRecords] /\ TxnOfMem'
  BY <1>1, <1>2, NoTxnTyped, TxnReplacedTyped
<1>4. memPage' \in MemPages
  BY <1>1 DEF ActionAnswered, MemPages
<1>5. memLoads' \subseteq MemLoadRecords
  <2>1. t.key \in MemKeys BY <1>1 DEF TxnRecords
  <2>2. MemReload(tab, t.key, "after") \subseteq MemLoadRecords BY <2>1, LoadTyped
  <2> QED BY <1>1, <2>2 DEF ActionAnswered
<1> QED BY <1>3, <1>4, <1>5 DEF MemTyped, MemTypes, ActionAnswered, memServer

Sweep == [NoTxn EXCEPT !.op = "list", !.expired = StaleMems("active"),
                       !.dropped = StaleMems("pending")]

LEMMA SweepFields ==
  /\ Sweep.op = "list" /\ Sweep.status = "none" /\ Sweep.m = "none"
  /\ Sweep.expired = StaleMems("active") /\ Sweep.dropped = StaleMems("pending")
BY DEF Sweep, NoTxn

LEMMA ServedTyped ==
  ASSUME MemTyped, NEW r \in memLoads, MemLoadServed(r)
  PROVE  MemTyped'
<1> DEFINE shown == [m \in Mems |-> IF r.key \in {"all", memStatus'[m]} THEN memStatus'[m]
                                    ELSE "none"]
           mine == plans \cap {r.key}
           served == [r EXCEPT !.served = TRUE, !.paid = memPaid, !.rows = shown, !.plans = mine]
<1>1. r \in MemLoadRecords BY DEF MemTyped, MemTypes
<1>2. MemCommit(Sweep) \/ UNCHANGED <<memStatus, rv, linked, aged, memPaid>>
  BY DEF MemLoadServed, Sweep
<1>3. /\ memStatus' \in [Mems -> MemStatuses] /\ rv' \in RvRecords
      /\ linked' \subseteq Mems /\ aged' \subseteq Mems /\ memPaid' \subseteq Mems
  <2>1. CASE MemCommit(Sweep)
    <3>1. Sweep.status \in MemStatuses /\ Sweep.op \notin {"activate", "settle"}
      BY SweepFields DEF MemStatuses
    <3> QED BY <2>1, <3>1, CommitTyped DEF MemTyped
  <2>2. CASE UNCHANGED <<memStatus, rv, linked, aged, memPaid>>
    BY <2>2 DEF MemTyped, MemTypes
  <2> QED BY <1>2, <2>1, <2>2
<1>4. shown \in [Mems -> MemStatuses] BY <1>3 DEF MemStatuses
<1>5. memPaid \subseteq Mems /\ mine \subseteq Mems BY DEF MemTyped, MemTypes
<1>6. memLoads' = (memLoads \ {r}) \cup {served} BY DEF MemLoadServed
<1>7. served \in MemLoadRecords
  <2> HIDE DEF shown, mine
  <2> QED BY <1>1, <1>4, <1>5 DEF MemLoadRecords
<1> HIDE DEF served
<1>8. memLoads' \subseteq MemLoadRecords BY <1>6, <1>7 DEF MemTyped, MemTypes
<1> QED BY <1>3, <1>8 DEF MemTyped, MemTypes, TxnOfMem, MemLoadServed

LEMMA AnsweredTyped ==
  ASSUME MemTyped, NEW r \in memLoads, MemLoadAnswered(r) \/ MemLoadFails(r)
  PROVE  MemTyped'
<1>1. r \in MemLoadRecords /\ memPage \in MemPages BY DEF MemTyped, MemTypes
<1>2. memLoads' \subseteq MemLoadRecords
  BY DEF MemTyped, MemTypes, MemLoadAnswered, MemLoadFails
<1>3. memPage' \in MemPages
  <2>1. /\ [memPage EXCEPT !.rows = r.rows] \in MemPages
        /\ [memPage EXCEPT !.paid = r.paid] \in MemPages
        /\ [memPage EXCEPT !.plans = r.plans] \in MemPages
    BY <1>1 DEF MemPages, MemLoadRecords
  <2> QED BY <1>1, <2>1 DEF MemLoadAnswered, MemLoadFails
<1> QED BY <1>2, <1>3, PageOnly DEF MemLoadAnswered, MemLoadFails

LEMMA PageTyped ==
  ASSUME MemTyped, PageStep
  PROVE  MemTyped'
<1>1. CASE \E tab \in MemTabs : setMemTab(tab) \/ ActionAnswered(tab)
  <2>1. "all" \in MemKeys BY DEF MemKeys
  <2> QED BY <1>1, <2>1, TabsTyped, ActionTyped
<1>2. CASE \/ \E key \in {"all", "pending"} : memPage.tab # "plans" /\ setMemFilter(key)
           \/ \E key \in Mems \cup {"none"} : memPage.tab = "plans" /\ setMemFilter(key)
  <2>1. "plans" \in MemTabs BY DEF MemTabs
  <2> QED BY <1>2, <2>1, TabsTyped DEF MemKeys, MaybeMem
<1>3. CASE runAction \/ runRefund \/ savePlan
  <2>1. {"requests", "payments", "plans"} \subseteq MemTabs BY DEF MemTabs
  <2> QED BY <1>3, <2>1, ConfirmTyped DEF runAction, runRefund, savePlan
<1>4. CASE \/ CancelMemDialog \/ RefreshRequests
           \/ \E tab \in MemTabs : \E d \in MemButtons(tab) : OpenMemDialog(d)
  BY <1>4, DialogsTyped
<1>5. CASE \E r \in memLoads : MemLoadServed(r) \/ MemLoadAnswered(r) \/ MemLoadFails(r)
  BY <1>5, ServedTyped, AnsweredTyped
<1> QED BY <1>1, <1>2, <1>3, <1>4, <1>5 DEF PageStep

LEMMA MemInitTyped ==
  ASSUME NEW status \in {"none", "pending"}, NEW veh \in VehicleRows, MembersInit(status, veh)
  PROVE  MemTyped
<1>1. NewMemPage \in MemPages
  BY DEF NewMemPage, MemPages, TabKeys, MaybeMem, MemKeys, MemTabs, MemStatuses
<1>2. "requests" \in MemTabs /\ "all" \in MemKeys BY DEF MemTabs, MemKeys
<1>3. MemLoad("requests", "all", "effect") \in MemLoadRecords
  <2>1. MemReload("requests", "all", "effect") = {MemLoad("requests", "all", "effect")}
    BY DEF MemReload
  <2> QED BY <1>2, <2>1, LoadTyped
<1>4. memTxn \in [MemParties -> TxnRecords] /\ \A c \in MemParties : OfMem(memTxn[c])
  BY NoTxnTyped DEF MembersInit
<1>5. TxnOfMem BY <1>4 DEF TxnOfMem
<1>6. memStatus \in [Mems -> MemStatuses] BY DEF MembersInit, MemStatuses
<1>7. rv \in RvRecords BY DEF MembersInit, VehicleRows, NoRow, TenantRow, RvRecords
<1> HIDE DEF NewMemPage
<1> QED BY <1>1, <1>3, <1>4, <1>5, <1>6, <1>7 DEF MembersInit, MemTyped, MemTypes

-----------------------------------------------------------------------------
(* The plate's row: what a commit does to it and to its holders.           *)

(* A commit that activates nothing makes no membership active.             *)
LEMMA NoneBecomesActive ==
  ASSUME MemTypes, NEW t, MemCommit(t), ~Granting(t), NEW m \in Mems, memStatus'[m] = "active"
  PROVE  memStatus[m] = "active"
<1>1. memStatus' = MemWritten(t) /\ Superseded(t) = {} BY DEF MemCommit, Superseded
<1>2. MemVerdict(t) # t.status => MemVerdict(t) # "active"
  BY DEF Granting, MemVerdict, MemExpected
<1>3. \/ memStatus'[m] = MemVerdict(t) /\ MemVerdict(t) # t.status
      \/ memStatus'[m] \in {"expired", "cancelled", memStatus[m]}
  BY <1>1 DEF MemWritten
<1> QED BY <1>2, <1>3

(* An activation leaves the plate with its membership alone.               *)
LEMMA GrantCommit ==
  ASSUME MemTypes, NEW t, t.m \in Mems, t.m \notin t.expired \cup t.dropped,
         Granting(t), Fresh(t), MemCommit(t)
  PROVE  Holders' = {t.m} /\ rv'.status = "active"
<1>1. /\ memStatus' = MemWritten(t) /\ linked' = linked \cup {t.m} /\ rv' = RowWritten(t)
      /\ Superseded(t) = t.prior
  BY DEF MemCommit, Superseded
<1>2. rv = t.seen /\ t.prior = Holders \ (t.expired \cup {t.m}) BY DEF Fresh
<1>3. t.status = "pending" /\ MemVerdict(t) = "active"
  BY DEF Granting, MemVerdict, MemExpected
<1>4. memStatus'[t.m] = "active" BY <1>1, <1>2, <1>3 DEF MemWritten
<1>5. ASSUME NEW m \in linked, m # t.m PROVE memStatus'[m] # "active"
  <2>1. m \in Mems BY <1>5 DEF MemTypes
  <2>2. CASE m \in t.prior \cup t.expired \cup t.dropped
    <3>1. memStatus'[m] \in {"revoked", "expired", "cancelled"}
      BY <1>1, <1>5, <2>1, <2>2 DEF MemWritten
    <3> QED BY <3>1
  <2>3. CASE m \notin t.prior \cup t.expired \cup t.dropped
    <3>1. memStatus'[m] = memStatus[m] BY <1>1, <1>5, <2>1, <2>3 DEF MemWritten
    <3>2. m \notin Holders BY <1>2, <1>5, <2>3
    <3> QED BY <1>5, <3>1, <3>2 DEF Holders
  <2> QED BY <2>2, <2>3
<1>6. Holders' = {t.m} BY <1>1, <1>4, <1>5 DEF Holders
<1>7. rv'.status = "active" BY <1>1, <1>2 DEF RowWritten
<1> QED BY <1>6, <1>7

(* The commit of a handler whose reads still hold.                         *)
LEMMA CommitHolder ==
  ASSUME MemTypes, OneHolder, NEW t, Fresh(t), MemCommit(t),
         Granting(t) => t.m \in Mems,
         MemVerdict(t) # t.status => t.m \notin t.expired \cup t.dropped
  PROVE  OneHolder'
<1>1. CASE Granting(t)
  <2>1. MemVerdict(t) # t.status BY <1>1 DEF Granting, MemVerdict, MemExpected
  <2>2. Holders' = {t.m} /\ rv'.status = "active" BY <1>1, <2>1, GrantCommit
  <2> QED BY <2>2 DEF OneHolder
<1>2. CASE ~Granting(t)
  <2>1. /\ memStatus' = MemWritten(t) /\ linked' = linked /\ rv' = RowWritten(t)
        /\ Superseded(t) = {}
    BY <1>2 DEF MemCommit, Superseded
  <2>2. /\ \A m \in t.expired : memStatus[m] = "active"
        /\ \A m \in t.dropped : memStatus[m] = "pending"
        /\ MemVerdict(t) # t.status => memStatus[t.m] = t.status
    BY DEF Fresh
  <2>3. linked \subseteq Mems BY DEF MemTypes
  <2>4. Holders' \subseteq Holders BY <1>2, <2>1, <2>3, NoneBecomesActive DEF Holders
  <2>5. \A m, n \in Holders : m = n BY DEF OneHolder
  <2>6. ASSUME NEW x \in Holders, x \notin Holders', Suspends(t) PROVE OneHolder'
    <3>1. Holders' = {} BY <2>4, <2>5, <2>6
    <3>2. rv'.status = "suspended" BY <1>2, <2>1, <2>6 DEF RowWritten
    <3> QED BY <3>1, <3>2 DEF OneHolder
  <2>7. CASE t.expired \cap linked # {}
    <3>1. PICK x \in linked : x \in t.expired BY <2>7
    <3>2. x \in Holders /\ x \in Mems /\ x \notin t.dropped BY <2>2, <2>3, <3>1 DEF Holders
    <3>3. ~(x = t.m /\ MemVerdict(t) # t.status) BY <3>1
    <3>4. memStatus'[x] = "expired" BY <2>1, <3>1, <3>2, <3>3 DEF MemWritten
    <3> QED BY <2>6, <2>7, <3>2, <3>4 DEF Holders, Suspends
  <2>8. CASE t.m \in linked /\ t.status = "active" /\ MemVerdict(t) # "active"
    <3>1. t.m \in Holders /\ t.m \in Mems BY <2>2, <2>3, <2>8 DEF Holders
    <3>2. memStatus'[t.m] = MemVerdict(t) BY <2>1, <2>8, <3>1 DEF MemWritten
    <3> QED BY <2>6, <2>8, <3>1, <3>2 DEF Holders, Suspends
  <2>9. CASE ~Suspends(t)
    <3>1. ASSUME NEW m \in Holders PROVE m \in Holders'
      <4>1. m \in linked /\ memStatus[m] = "active" /\ m \in Mems BY <2>3 DEF Holders
      <4>2. ~(m = t.m /\ MemVerdict(t) # t.status) BY <2>2, <2>9, <4>1 DEF Suspends
      <4>3. m \notin t.expired \cup t.dropped BY <2>2, <2>9, <4>1 DEF Suspends
      <4>4. memStatus'[m] = memStatus[m] BY <2>1, <4>1, <4>2, <4>3 DEF MemWritten
      <4> QED BY <2>1, <4>1, <4>4 DEF Holders
    <3>2. Holders' = Holders BY <2>4, <3>1
    <3>3. rv' = rv BY <1>2, <2>1, <2>9 DEF RowWritten
    <3> QED BY <3>2, <3>3 DEF OneHolder
  <2> QED BY <2>7, <2>8, <2>9 DEF Suspends
<1> QED BY <1>1, <1>2

(* A step that writes neither the memberships nor the vehicle.             *)
LEMMA HolderUntouched ==
  ASSUME HolderInv, UNCHANGED <<memStatus, linked, rv, conflicted>>
  PROVE  HolderInv'
BY DEF HolderInv, OneHolder, Holders

LEMMA FinishHolder ==
  ASSUME MemTyped, HolderInv, NEW c \in MemParties, MemFinish(c)
  PROVE  HolderInv'
<1> SUFFICES ASSUME ~conflicted' PROVE OneHolder'
  BY DEF HolderInv
<1> DEFINE t == memTxn[c]
<1>1. ~conflicted /\ Fresh(t) /\ MemCommit(t) BY DEF MemFinish
<1>2. t.m \in Mems /\ t.m \notin t.expired \cup t.dropped
  BY DEF MemTyped, TxnOfMem, OfMem, MemFinish
<1>3. OneHolder /\ MemTypes BY <1>1 DEF HolderInv, MemTyped
<1> HIDE DEF t
<1> QED BY <1>1, <1>2, <1>3, CommitHolder

(* The sweep of the list of memberships reads and writes at once.          *)
LEMMA ServedHolder ==
  ASSUME MemTyped, HolderInv, NEW r \in memLoads, MemLoadServed(r)
  PROVE  HolderInv'
<1>1. /\ MemCommit(Sweep) \/ UNCHANGED <<memStatus, rv, linked, aged, memPaid>>
      /\ conflicted' = conflicted
  BY DEF MemLoadServed, Sweep
<1>2. CASE UNCHANGED <<memStatus, rv, linked, aged, memPaid>>
  BY <1>1, <1>2, HolderUntouched
<1>3. CASE MemCommit(Sweep)
  <2>1. ~Granting(Sweep) /\ MemVerdict(Sweep) = Sweep.status
    BY SweepFields DEF Granting, MemVerdict, MemExpected, MemOpen
  <2>2. Fresh(Sweep) BY <2>1, SweepFields DEF Fresh, StaleMems
  <2>3. MemTypes /\ (~conflicted => OneHolder) BY DEF MemTyped, HolderInv
  <2>4. ~conflicted => OneHolder' BY <1>3, <2>1, <2>2, <2>3, CommitHolder
  <2> QED BY <1>1, <2>4 DEF HolderInv
<1> QED BY <1>1, <1>2, <1>3

LEMMA MemServiceKept ==
  ASSUME MemInv, ServiceStep
  PROVE  HolderInv'
<1>1. MemTyped /\ HolderInv BY DEF MemInv
<1>2. ASSUME NEW c \in MemParties, MemBegin(c) \/ MemLost(c) PROVE HolderInv'
  BY <1>1, <1>2, HolderUntouched DEF MemBegin, MemLost, memServer
<1>3. ASSUME NEW c, NEW op, NEW m, DriverOrGateway(c, op, m) PROVE HolderInv'
  BY <1>1, <1>3, HolderUntouched DEF DriverOrGateway, memServer
<1>4. CASE PlanSaved BY <1>1, <1>4, HolderUntouched DEF PlanSaved
<1>5. ASSUME NEW m \in Mems, TimePasses(m) PROVE HolderInv'
  BY <1>1, <1>5, HolderUntouched DEF TimePasses
<1>6. ASSUME NEW m \in Mems, request_membership(m) PROVE HolderInv'
  <2>1. /\ memStatus[m] = "none" /\ memStatus'[m] = "pending" /\ linked \subseteq Mems
        /\ \A n \in Mems : n # m => memStatus'[n] = memStatus[n]
    BY <1>1, <1>6 DEF request_membership, MemTyped, MemTypes
  <2>2. UNCHANGED <<linked, rv, conflicted>> BY <1>6 DEF request_membership
  <2>3. Holders' = Holders BY <2>1, <2>2 DEF Holders
  <2> QED BY <1>1, <2>2, <2>3 DEF HolderInv, OneHolder
<1>7. ASSUME NEW status, NEW tag, SaveVehicle(status, tag) PROVE HolderInv'
  <2>1. rv'.by = "tenant" BY <1>7 DEF SaveVehicle, TenantRow
  <2>2. Holders' = Holders /\ conflicted' = conflicted BY <1>7 DEF SaveVehicle, Holders
  <2> QED BY <1>1, <2>1, <2>2 DEF HolderInv, OneHolder
<1>8. CASE DeleteVehicle
  <2>1. rv'.by = "tenant" /\ Holders' = {} BY <1>8 DEF DeleteVehicle, NoRow, Holders
  <2> QED BY <2>1 DEF HolderInv, OneHolder
<1> QED
  BY <1>1, <1>2, <1>3, <1>4, <1>5, <1>6, <1>7, <1>8, FinishHolder DEF ServiceStep

LEMMA MemPageKept ==
  ASSUME MemInv, PageStep
  PROVE  HolderInv'
<1>1. MemTyped /\ HolderInv BY DEF MemInv
<1>2. ASSUME UNCHANGED memServer PROVE HolderInv'
  BY <1>1, <1>2, HolderUntouched DEF memServer
<1>3. ASSUME NEW tab \in MemTabs, setMemTab(tab) \/ ActionAnswered(tab) PROVE HolderInv'
  BY <1>2, <1>3 DEF setMemTab, ActionAnswered
<1>4. ASSUME NEW key, setMemFilter(key) PROVE HolderInv' BY <1>2, <1>4 DEF setMemFilter
<1>5. CASE runAction \/ runRefund \/ savePlan
  BY <1>2, <1>5 DEF runAction, runRefund, savePlan, MemConfirm
<1>6. CASE \E r \in memLoads : MemLoadServed(r) \/ MemLoadAnswered(r) \/ MemLoadFails(r)
  BY <1>1, <1>2, <1>6, ServedHolder DEF MemLoadAnswered, MemLoadFails
<1>7. CASE \/ CancelMemDialog \/ RefreshRequests
           \/ \E tab \in MemTabs : \E d \in MemButtons(tab) : OpenMemDialog(d)
  BY <1>2, <1>7 DEF CancelMemDialog, RefreshRequests, OpenMemDialog
<1> QED BY <1>3, <1>4, <1>5, <1>6, <1>7 DEF PageStep

LEMMA MemInvariant == MembersSpec => []MemInv
<1>1. ASSUME NEW status \in {"none", "pending"}, NEW veh \in VehicleRows, MembersInit(status, veh)
      PROVE  MemInv
  <2>1. MemTyped BY <1>1, MemInitTyped
  <2>2. Holders = {} /\ rv = veh BY <1>1 DEF MembersInit, Holders
  <2>3. veh.by = "tenant" BY DEF VehicleRows, NoRow, TenantRow
  <2> QED BY <2>1, <2>2, <2>3 DEF MemInv, HolderInv, OneHolder
<1>2. MembersBegin => MemInv BY <1>1 DEF MembersBegin
<1>3. MemInv /\ [MembersNext]_memVars => MemInv'
  <2> SUFFICES ASSUME MemInv, [MembersNext]_memVars PROVE MemInv'
    OBVIOUS
  <2>1. MemTyped /\ HolderInv BY DEF MemInv
  <2>2. CASE ServiceStep BY <2>1, <2>2, ServiceTyped, MemServiceKept DEF MemInv
  <2>3. CASE PageStep BY <2>1, <2>3, PageTyped, MemPageKept DEF MemInv
  <2>4. CASE UNCHANGED memVars
    <3>1. MemTyped' BY <2>1, <2>4 DEF memVars, MemTyped, MemTypes, TxnOfMem
    <3>2. HolderInv' BY <2>1, <2>4, HolderUntouched DEF memVars
    <3> QED BY <3>1, <3>2 DEF MemInv
  <2> QED BY <2>2, <2>3, <2>4 DEF MembersNext
<1> QED BY <1>2, <1>3, PTL DEF MembersSpec

(* For any number of memberships of a plate, and whatever the tenant does  *)
(* to the vehicle's row: until a handler commits over a change it has not  *)
(* seen, one membership at most holds the row, and the row as the service  *)
(* left it is active exactly while one does (membership_service.py).       *)
THEOREM PlateFollowsMembership == MembersSpec => []WhitelistFollows
<1>1. MemInv => WhitelistFollows BY DEF MemInv, HolderInv, OneHolder, WhitelistFollows
<1> QED BY <1>1, MemInvariant, PTL

(* With the same proviso, no membership of a plate that the tenant has on  *)
(* the blacklist becomes active, by an operator or by a payment            *)
(* (_activate_membership_row).                                             *)
THEOREM BlacklistKept == MembersSpec => BlacklistHolds
<1> DEFINE Kept == rv.tag = "blacklist" /\ ~conflicted' =>
                     \A m \in Mems : memStatus'[m] = "active" => memStatus[m] = "active"
<1>1. MemInv /\ [MembersNext]_memVars => [Kept]_memVars
  <2> SUFFICES ASSUME MemInv, MembersNext, rv.tag = "blacklist", ~conflicted',
                      NEW m \in Mems, memStatus'[m] = "active"
               PROVE  memStatus[m] = "active"
    OBVIOUS
  <2>1. MemTypes BY DEF MemInv, MemTyped
  <2>2. CASE memStatus' = memStatus BY <2>2
  <2>3. ASSUME NEW c \in MemParties, MemFinish(c) PROVE memStatus[m] = "active"
    <3> DEFINE t == memTxn[c]
    <3>1. Fresh(t) /\ MemCommit(t) BY <2>3 DEF MemFinish
    <3>2. ~Granting(t) BY <3>1 DEF Fresh, Granting
    <3> HIDE DEF t
    <3> QED BY <2>1, <3>1, <3>2, NoneBecomesActive
  <2>4. ASSUME NEW r \in memLoads, MemLoadServed(r) PROVE memStatus[m] = "active"
    <3>1. MemCommit(Sweep) \/ memStatus' = memStatus BY <2>4 DEF MemLoadServed, Sweep
    <3>2. ~Granting(Sweep) BY SweepFields DEF Granting
    <3> QED BY <2>1, <3>1, <3>2, NoneBecomesActive
  <2>5. ASSUME NEW n \in Mems, request_membership(n) PROVE memStatus[m] = "active"
    BY <2>1, <2>5 DEF request_membership, MemTypes
  <2>6. CASE ServiceStep
    <3>1. \/ \E c \in MemParties : MemFinish(c)
          \/ \E n \in Mems : request_membership(n)
          \/ memStatus' = memStatus
      BY <2>6 DEF ServiceStep, MemBegin, MemLost, TimePasses, DriverOrGateway, SaveVehicle,
                  DeleteVehicle, PlanSaved, memServer
    <3> QED BY <2>2, <2>3, <2>5, <3>1
  <2>7. CASE PageStep
    <3>1. (\E r \in memLoads : MemLoadServed(r)) \/ memStatus' = memStatus
      BY <2>7 DEF PageStep, setMemTab, ActionAnswered, setMemFilter, OpenMemDialog,
                  CancelMemDialog, RefreshRequests, runAction, runRefund, savePlan, MemConfirm,
                  MemLoadAnswered, MemLoadFails, memServer
    <3> QED BY <2>2, <2>4, <3>1
  <2> QED BY <2>6, <2>7 DEF MembersNext
<1> QED BY <1>1, MemInvariant, PTL DEF MembersSpec, BlacklistHolds

-----------------------------------------------------------------------------
(* The access rules page: the form is submitted once at a time.            *)

SubmitInv ==
  /\ isSubmitting \in BOOLEAN
  /\ isSubmitting <=> submitTimers # {}
  /\ \A s, t \in submitTimers : s = t

(* What does not touch the submission keeps its invariant.                 *)
LEMMA SubmitUntouched ==
  ASSUME SubmitInv, isSubmitting' = isSubmitting, submitTimers' = submitTimers
  PROVE  SubmitInv'
BY DEF SubmitInv

LEMMA RulesKeepSubmit == SubmitInv /\ [RulesNext]_ruleVars => SubmitInv'
<1> SUFFICES ASSUME SubmitInv, [RulesNext]_ruleVars PROVE SubmitInv'
  OBVIOUS
<1>1. CASE RuleRequests
  BY <1>1, SubmitUntouched DEF RuleRequests, formVars
<1>2. CASE WizardStep
  <2>1. CASE handleNext BY <2>1, SubmitUntouched DEF handleNext, SetForm
  <2>2. CASE handleBack BY <2>2, SubmitUntouched DEF handleBack, SetForm
  <2>3. CASE FillIn BY <2>3, SubmitUntouched DEF FillIn, SetForm
  <2>4. ASSUME NEW s \in 1..6, Stepper(s) PROVE SubmitInv'
    BY <2>4, SubmitUntouched DEF Stepper, SetForm
  <2>5. ASSUME NEW draft \in BOOLEAN, handleSubmit(draft) PROVE SubmitInv'
    <3>1. ~isSubmitting
      <4>1. (IF draft THEN "draft" ELSE "save") \in FooterButtons BY <2>5 DEF handleSubmit
      <4> QED BY <4>1 DEF FooterButtons
    <3>2. submitTimers = {} BY <3>1 DEF SubmitInv
    <3> QED BY <2>5, <3>2 DEF handleSubmit, SubmitInv
  <2> QED BY <1>2, <2>1, <2>2, <2>3, <2>4, <2>5 DEF WizardStep
<1>3. CASE SubmitTimer
  <2>1. submitTimers' = {} /\ isSubmitting' = FALSE BY <1>3 DEF SubmitTimer, SubmitInv
  <2> QED BY <2>1 DEF SubmitInv
<1>4. ASSUME NEW button, NEW r, PressRule(button, r) PROVE SubmitInv'
  <2>1. CASE OpenWizard(EditForm(r))
    BY <2>1, SubmitUntouched DEF OpenWizard, Opened
  <2>2. CASE DialogStays BY <2>2, SubmitUntouched DEF DialogStays, formVars
  <2>3. CASE OpenDialog(button, {r}) BY <2>3, SubmitUntouched DEF OpenDialog, formVars
  <2> QED BY <1>4, <2>1, <2>2, <2>3 DEF PressRule
<1>5. CASE PageButton
  <2>1. CASE OpenWizard(NewForm) BY <2>1, SubmitUntouched DEF OpenWizard, Opened
  <2>2. CASE OpenDialog("simulate", {}) \/ OpenDialog("reorder", {})
    BY <2>2, SubmitUntouched DEF OpenDialog, formVars
  <2> QED BY <1>4, <1>5, <2>1, <2>2 DEF PageButton
<1>6. CASE DrawerButton BY <1>4, <1>6 DEF DrawerButton
<1>7. CASE ConfirmDelete \/ handleSave
  BY <1>7, SubmitUntouched DEF ConfirmDelete, handleSave, DialogCloses, formVars
<1>8. CASE CloseDialog BY <1>8, SubmitUntouched DEF CloseDialog
<1>9. CASE Simulator BY <1>9, SubmitUntouched DEF Simulator, formVars
<1>10. CASE UNCHANGED ruleVars BY <1>10, SubmitUntouched DEF ruleVars
<1> QED BY <1>1, <1>2, <1>3, <1>5, <1>6, <1>7, <1>8, <1>9, <1>10 DEF RulesNext

(* However often the wizard is closed and opened again while the 400 ms of *)
(* a submission run, no second one starts (CreateEditRuleModal.tsx,        *)
(* handleSubmit).                                                          *)
THEOREM OneSubmission == RulesSpec => []SubmissionUnique
<1>1. (\E name \in {"deny", "deny_list"} : RulesInit(Type(name))) => SubmitInv
  BY DEF RulesInit, SubmitInv
<1>2. SubmitInv => SubmissionUnique
  <2> SUFFICES ASSUME SubmitInv PROVE Cardinality(submitTimers) <= 1
    BY DEF SubmitInv, SubmissionUnique
  <2>1. CASE submitTimers = {}
    <3>1. Cardinality({}) = 0 BY FS_EmptySet
    <3> QED BY <2>1, <3>1
  <2>2. ASSUME NEW s \in submitTimers PROVE Cardinality(submitTimers) <= 1
    <3>1. submitTimers = {s} BY <2>2 DEF SubmitInv
    <3>2. Cardinality({s}) = 1 BY FS_Singleton
    <3> QED BY <3>1, <3>2
  <2> QED BY <2>1, <2>2
<1> QED BY <1>1, <1>2, RulesKeepSubmit, PTL DEF RulesSpec

-----------------------------------------------------------------------------
(* The import of users: the counters and the rows still to do.             *)

BulkTypes ==
  [at : {"idle", "row", "done"}, todo : Seq(NewUsers), rows : Nat,
   imported : Nat, failed : Nat, made : Nat]

BulkInv ==
  /\ bulk \in BulkTypes
  /\ bulk.imported + bulk.failed + Len(bulk.todo) = bulk.rows
  /\ bulk.imported <= bulk.made /\ bulk.made <= bulk.imported + bulk.failed
  /\ bulk.at = "done" => bulk.todo = <<>>

LEMMA BulkUntouched == ASSUME BulkInv, bulk' = bulk PROVE BulkInv'
BY DEF BulkInv

(* A row that is over moves from the rows to do to one of the counters.    *)
LEMMA RowCounted ==
  ASSUME BulkInv, bulk.at = "row", bulk.todo # <<>>,
         NEW ok \in BOOLEAN, NEW made \in {0, 1}, ok => made = 1, RowDone(ok, made)
  PROVE  BulkInv'
<1>1. bulk \in BulkTypes BY DEF BulkInv
<1>2. bulk.todo \in Seq(NewUsers) BY <1>1 DEF BulkTypes
<1>3. Tail(bulk.todo) \in Seq(NewUsers) /\ Len(Tail(bulk.todo)) = Len(bulk.todo) - 1
      /\ Len(bulk.todo) \in Nat
  BY <1>2
<1>4. bulk.imported \in Nat /\ bulk.failed \in Nat /\ bulk.made \in Nat /\ bulk.rows \in Nat
  BY <1>1 DEF BulkTypes
<1>5. /\ bulk.imported + bulk.failed + Len(bulk.todo) = bulk.rows
      /\ bulk.imported <= bulk.made /\ bulk.made <= bulk.imported + bulk.failed
  BY DEF BulkInv
<1>6. CASE ok
  <2>1. bulk' = [at |-> "row", todo |-> Tail(bulk.todo), rows |-> bulk.rows,
                 imported |-> bulk.imported + 1, failed |-> bulk.failed, made |-> bulk.made + 1]
    BY <1>1, <1>6 DEF BulkTypes, RowDone
  <2>2. bulk' \in BulkTypes BY <1>3, <1>4, <2>1 DEF BulkTypes
  <2>3. /\ bulk'.imported + bulk'.failed + Len(bulk'.todo) = bulk'.rows
        /\ bulk'.imported <= bulk'.made /\ bulk'.made <= bulk'.imported + bulk'.failed
    <3> DEFINE todo == Len(bulk.todo)
    <3>1. Len(bulk'.todo) = todo - 1 /\ todo \in Nat BY <1>3, <2>1
    <3>2. bulk.imported + bulk.failed + todo = bulk.rows BY <1>5
    <3>3. bulk'.rows = bulk.rows BY <2>1
    <3>4. bulk'.imported + bulk'.failed = bulk.imported + bulk.failed + 1 BY <1>4, <2>1
    <3>5. bulk'.imported <= bulk'.made /\ bulk'.made <= bulk'.imported + bulk'.failed
      BY <1>4, <1>5, <2>1
    <3> HIDE DEF todo
    <3> QED BY <1>4, <3>1, <3>2, <3>3, <3>4, <3>5
  <2> QED BY <2>1, <2>2, <2>3 DEF BulkInv
<1>7. CASE ~ok
  <2>1. bulk' = [at |-> "row", todo |-> Tail(bulk.todo), rows |-> bulk.rows,
                 imported |-> bulk.imported, failed |-> bulk.failed + 1, made |-> bulk.made + made]
    BY <1>1, <1>7 DEF BulkTypes, RowDone
  <2>2. bulk' \in BulkTypes BY <1>3, <1>4, <2>1 DEF BulkTypes
  <2>3. /\ bulk'.imported + bulk'.failed + Len(bulk'.todo) = bulk'.rows
        /\ bulk'.imported <= bulk'.made /\ bulk'.made <= bulk'.imported + bulk'.failed
    <3> DEFINE todo == Len(bulk.todo)
    <3>1. Len(bulk'.todo) = todo - 1 /\ todo \in Nat BY <1>3, <2>1
    <3>2. bulk.imported + bulk.failed + todo = bulk.rows BY <1>5
    <3>3. bulk'.rows = bulk.rows BY <2>1
    <3>4. bulk'.imported + bulk'.failed = bulk.imported + bulk.failed + 1 BY <1>4, <2>1
    <3>5. bulk'.imported <= bulk'.made /\ bulk'.made <= bulk'.imported + bulk'.failed
      BY <1>4, <1>5, <2>1
    <3> HIDE DEF todo
    <3> QED BY <1>4, <3>1, <3>2, <3>3, <3>4, <3>5
  <2> QED BY <2>1, <2>2, <2>3 DEF BulkInv
<1> QED BY <1>6, <1>7

LEMMA UsersKeepBulk == BulkInv /\ [UsersNext]_userVars => BulkInv'
<1> SUFFICES ASSUME BulkInv, [UsersNext]_userVars PROVE BulkInv'
  OBVIOUS
<1>1. CASE UserRequests BY <1>1, BulkUntouched DEF UserRequests
<1>2. CASE (\E id \in {"me"} \cup NewUsers : PeerDisables(id)) \/ \E id \in NewUsers : Activates(id)
  BY <1>2, BulkUntouched DEF PeerDisables, Activates
<1>3. CASE PageOpens \/ DrawerOpens \/ ClosePrompt \/ handlePasswordConfirm
  BY <1>3, BulkUntouched DEF PageOpens, DrawerOpens, ClosePrompt, handlePasswordConfirm, OpenPrompt
<1>4. CASE cancelTenantInvitation \/ handleRoleSubmit \/ handleStatusConfirm
  BY <1>4, BulkUntouched DEF cancelTenantInvitation, handleRoleSubmit, handleStatusConfirm,
                             KeepsPrompt
<1>5. CASE handleInviteSubmit \/ handleMembershipConfirm
  BY <1>5, BulkUntouched DEF handleInviteSubmit, handleMembershipConfirm, ClosesPrompt
<1>6. ASSUME NEW n \in 1..2, NEW rows \in [1..n -> NewUsers], handleImport(rows) PROVE BulkInv'
  <2>1. rows \in Seq(NewUsers) /\ Len(rows) = n BY <1>6
  <2>2. bulk' = [at |-> "row", todo |-> rows, rows |-> n, imported |-> 0, failed |-> 0, made |-> 0]
    BY <1>6, <2>1 DEF handleImport, NoImport
  <2> QED BY <2>1, <2>2 DEF BulkInv, BulkTypes
<1>7. CASE ImportRow
  <2>1. bulk.at = "row" /\ bulk.todo # <<>> BY <1>7 DEF ImportRow
  <2>2. (\E ok \in BOOLEAN : RowDone(ok, 1)) \/ RowDone(FALSE, 0) BY <1>7 DEF ImportRow
  <2> QED BY <2>1, <2>2, RowCounted
<1>8. CASE ImportUsersEnds
  <2>1. bulk \in BulkTypes /\ bulk' = [bulk EXCEPT !.at = "done"] /\ bulk.todo = <<>>
    BY <1>8 DEF ImportUsersEnds, BulkInv
  <2> QED BY <2>1 DEF BulkInv, BulkTypes
<1>9. CASE UNCHANGED userVars BY <1>9, BulkUntouched DEF userVars
<1> QED BY <1>1, <1>2, <1>3, <1>4, <1>5, <1>6, <1>7, <1>8, <1>9 DEF UsersNext

(* Of the rows of a file, however many were refused, lost or done without  *)
(* an answer, none is counted twice or left out (PlatformContext.tsx,      *)
(* importTenantUsers).                                                     *)
THEOREM RowsCounted == UsersSpec => []ImportAccounted
<1>1. (\E role \in {"owner", "admin"} : UsersInit(role)) => BulkInv
  <2> SUFFICES ASSUME bulk = NoImport PROVE BulkInv BY DEF UsersInit
  <2>1. bulk = [at |-> "idle", todo |-> <<>>, rows |-> 0, imported |-> 0, failed |-> 0, made |-> 0]
    BY DEF NoImport
  <2>2. <<>> \in Seq(NewUsers) /\ Len(<<>>) = 0 OBVIOUS
  <2> QED BY <2>1, <2>2 DEF BulkInv, BulkTypes
<1>2. BulkInv => ImportAccounted
  <2> SUFFICES ASSUME BulkInv, bulk.at = "done"
               PROVE  /\ bulk.imported + bulk.failed = bulk.rows
                      /\ bulk.imported <= bulk.made /\ bulk.made <= bulk.imported + bulk.failed
    BY DEF ImportAccounted
  <2>1. Len(bulk.todo) = 0 BY DEF BulkInv
  <2>2. bulk.imported \in Nat /\ bulk.failed \in Nat BY DEF BulkInv, BulkTypes
  <2> QED BY <2>1, <2>2 DEF BulkInv
<1> QED BY <1>1, <1>2, UsersKeepBulk, PTL DEF UsersSpec

-----------------------------------------------------------------------------
(* The vehicles page: whose history the dialog shows.                      *)

HistoryTypes ==
  /\ history = [tab |-> history.tab, asks |-> history.asks, shown |-> history.shown]
  /\ \A a \in history.asks : a = [of |-> a.of, cancelled |-> a.cancelled]
  /\ sheet = [kind |-> sheet.kind, vehicle |-> sheet.vehicle]

ShowsPlates == sheet.kind = "details" /\ history.tab = "plates"
Wanted == {a \in history.asks : ~a.cancelled}
Shows(id) == \E v \in sheet.vehicle : v.id = id

(* The dialog has a vehicle; an answer it still wants is about the one it  *)
(* shows; and while it wants none it shows the history of that one.        *)
HistoryInv ==
  /\ HistoryTypes
  /\ sheet.kind = "details" => sheet.vehicle # {}
  /\ ShowsPlates => \A a \in Wanted : Shows(a.of)
  /\ ShowsPlates /\ Wanted = {} => history.shown = "none" \/ Shows(history.shown)

LEMMA HistoryUntouched ==
  ASSUME HistoryInv, sheet' = sheet, history' = history
  PROVE  HistoryInv'
BY DEF HistoryInv, HistoryTypes, ShowsPlates, Wanted, Shows

(* Whenever the effect runs, with a dialog that has a vehicle if it shows  *)
(* the details: it asks for each vehicle shown, and wants nothing else.    *)
LEMMA EffectKeeps ==
  ASSUME HistoryTypes, NEW kind, NEW vs, NEW tab, kind = "details" => vs # {},
         sheet' = [kind |-> kind, vehicle |-> vs], history' = HistoryEffect(sheet', tab)
  PROVE  HistoryInv'
<1> DEFINE asking == IF kind = "details" /\ tab = "plates" THEN {v.id : v \in vs} ELSE {}
           fresh == {[of |-> id, cancelled |-> FALSE] : id \in asking}
           asked == Cancelled(history.asks) \cup fresh
<1>1. sheet'.kind = kind /\ sheet'.vehicle = vs OBVIOUS
<1>2. history' = [history EXCEPT !.tab = tab, !.asks = asked]
  BY <1>1 DEF HistoryEffect
<1>3. history' = [tab |-> tab, asks |-> asked, shown |-> history.shown]
  <2> HIDE DEF asked
  <2> QED BY <1>2 DEF HistoryTypes
<1>4. history'.tab = tab /\ history'.asks = asked
  <2> HIDE DEF asked
  <2> QED BY <1>3
<1>5. \A a \in Cancelled(history.asks) : a = [of |-> a.of, cancelled |-> TRUE]
  BY DEF HistoryTypes, Cancelled
<1>6. \A a \in fresh : a = [of |-> a.of, cancelled |-> FALSE] /\ a.of \in asking
  OBVIOUS
<1>7. \A a \in asked : a = [of |-> a.of, cancelled |-> a.cancelled] BY <1>5, <1>6
<1>8. Wanted' = fresh
  <2>1. \A a \in Cancelled(history.asks) : a.cancelled BY <1>5
  <2>2. \A a \in fresh : ~a.cancelled BY <1>6
  <2> QED BY <1>4, <2>1, <2>2 DEF Wanted
<1>9. HistoryTypes'
  <2> HIDE DEF asked
  <2> QED BY <1>1, <1>3, <1>4, <1>7 DEF HistoryTypes
<1>10. ASSUME ShowsPlates' PROVE Wanted' # {} /\ \A a \in Wanted' : Shows(a.of)'
  <2>1. kind = "details" /\ tab = "plates" BY <1>1, <1>4, <1>10 DEF ShowsPlates
  <2>2. asking = {v.id : v \in vs} /\ vs # {} BY <2>1
  <2>3. fresh # {} BY <2>2
  <2>4. \A a \in fresh : \E v \in vs : v.id = a.of BY <2>2, <1>6
  <2> QED BY <1>1, <1>8, <2>3, <2>4 DEF Shows
<1> QED BY <1>1, <1>9, <1>10 DEF HistoryInv

LEMMA ToSheetKeeps ==
  ASSUME HistoryInv, NEW s, s = [kind |-> s.kind, vehicle |-> s.vehicle],
         s.kind = "details" => s.vehicle # {}, ToSheet(s)
  PROVE  HistoryInv'
BY EffectKeeps DEF ToSheet, HistoryInv

LEMMA NoSheetKeeps == ASSUME HistoryInv, ToSheet(NoSheet) PROVE HistoryInv'
BY ToSheetKeeps DEF NoSheet

LEMMA OpenSheetKeeps ==
  ASSUME HistoryInv, NEW kind, NEW vs, kind = "details" => vs # {}, OpenSheet(kind, vs)
  PROVE  HistoryInv'
BY ToSheetKeeps DEF OpenSheet

LEMMA AnswerKeeps ==
  ASSUME HistoryInv, NEW a, HistoryAnswered(a)
  PROVE  HistoryInv'
<1>1. a \in history.asks /\ sheet' = sheet BY DEF HistoryAnswered
<1>2. PICK ok \in BOOLEAN :
        history' = [history EXCEPT !.asks = @ \ {a},
                      !.shown = IF a.cancelled THEN @ ELSE IF ok THEN a.of ELSE "none"]
  BY DEF HistoryAnswered
<1>3. history' = [tab |-> history.tab, asks |-> history.asks \ {a},
                  shown |-> IF a.cancelled THEN history.shown
                            ELSE IF ok THEN a.of ELSE "none"]
  BY <1>2 DEF HistoryInv, HistoryTypes
<1>4. HistoryTypes' BY <1>1, <1>3 DEF HistoryInv, HistoryTypes
<1>5. Wanted' = Wanted \ {a} BY <1>3 DEF Wanted
<1>6. ASSUME ShowsPlates' PROVE \A b \in Wanted' : Shows(b.of)'
  BY <1>1, <1>3, <1>5, <1>6 DEF HistoryInv, ShowsPlates, Shows
<1>7. ASSUME ShowsPlates', Wanted' = {} PROVE (history.shown = "none" \/ Shows(history.shown))'
  <2>1. ShowsPlates BY <1>1, <1>3, <1>7 DEF ShowsPlates
  <2>2. CASE a.cancelled
    <3>1. Wanted = {} BY <1>5, <1>7, <2>2 DEF Wanted
    <3> QED BY <1>1, <1>3, <2>1, <2>2, <3>1 DEF HistoryInv, Shows
  <2>3. CASE ~a.cancelled
    <3>1. a \in Wanted BY <1>1, <2>3 DEF Wanted
    <3>2. Shows(a.of) BY <2>1, <3>1 DEF HistoryInv
    <3> QED BY <1>1, <1>3, <2>3, <3>2 DEF Shows
  <2> QED BY <2>2, <2>3
<1> QED BY <1>1, <1>4, <1>6, <1>7 DEF HistoryInv

LEMMA ReloadKeeps == ASSUME HistoryInv, SheetReloaded PROVE HistoryInv'
<1>1. CASE sheet.kind = "details"
  <2> DEFINE now == {mapVehicle(w) : w \in {w \in tenantVehicles' :
                                              \E o \in sheet.vehicle : o.id = w.id}}
             vs == IF now = {} THEN sheet.vehicle ELSE now
  <2>1. vs # {} BY <1>1 DEF HistoryInv
  <2> HIDE DEF now
  <2>2. ToSheet([sheet EXCEPT !.vehicle = vs]) BY <1>1 DEF SheetReloaded, now
  <2>3. [sheet EXCEPT !.vehicle = vs] = [kind |-> "details", vehicle |-> vs]
    BY <1>1 DEF HistoryInv, HistoryTypes
  <2> HIDE DEF vs
  <2> QED BY <2>1, <2>2, <2>3, ToSheetKeeps
<1>2. CASE sheet.kind # "details" BY <1>2, HistoryUntouched DEF SheetReloaded
<1> QED BY <1>1, <1>2

LEMMA RequestsKeepHistory == ASSUME HistoryInv, VehicleRequests PROVE HistoryInv'
<1>1. \/ UNCHANGED <<sheet, history>> \/ ToSheet(NoSheet) \/ SheetReloaded
  BY DEF VehicleRequests
<1> QED BY <1>1, HistoryUntouched, NoSheetKeeps, ReloadKeeps

LEMMA JobKeepsHistory ==
  ASSUME HistoryInv,
         \/ handleParseAndImport \/ Uploaded \/ WorkerDone \/ PollTick
         \/ JobAnswered \/ JobAskFails \/ ImportShown \/ AutoClose
  PROVE  HistoryInv'
<1>1. ASSUME NEW j, JobIs(j) PROVE HistoryInv' BY <1>1, HistoryUntouched DEF JobIs
<1>2. CASE handleParseAndImport BY <1>1, <1>2 DEF handleParseAndImport
<1>3. CASE Uploaded BY <1>1, <1>3 DEF Uploaded
<1>4. CASE WorkerDone BY <1>1, <1>4 DEF WorkerDone
<1>5. CASE PollTick BY <1>1, <1>5 DEF PollTick
<1>6. CASE JobAnswered BY <1>1, <1>6 DEF JobAnswered
<1>7. CASE JobAskFails BY <1>1, <1>7 DEF JobAskFails
<1>8. CASE ImportShown BY <1>1, <1>8 DEF ImportShown
<1>9. CASE AutoClose BY <1>9, HistoryUntouched, NoSheetKeeps DEF AutoClose
<1> QED BY <1>2, <1>3, <1>4, <1>5, <1>6, <1>7, <1>8, <1>9

LEMMA VehiclesKeepHistory == HistoryInv /\ [VehiclesNext]_vehicleVars => HistoryInv'
<1> SUFFICES ASSUME HistoryInv, [VehiclesNext]_vehicleVars PROVE HistoryInv'
  OBVIOUS
<1>1. CASE VehicleRequests BY <1>1, RequestsKeepHistory
<1>2. CASE VehiclesPageOpens
  <2>1. CASE OpenSheet("add", {}) \/ OpenSheet("import", {}) BY <2>1, OpenSheetKeeps
  <2>2. ASSUME NEW v, NEW b, OpenSheet(b, {v}) PROVE HistoryInv' BY <2>2, OpenSheetKeeps
  <2> QED BY <1>2, <2>1, <2>2 DEF VehiclesPageOpens
<1>3. CASE DetailsOpens
  <2>1. ASSUME NEW v, NEW b, OpenSheet(b, {v}) PROVE HistoryInv' BY <2>1, OpenSheetKeeps
  <2> QED BY <1>3, <2>1 DEF DetailsOpens
<1>4. CASE CloseSheet BY <1>4, OpenSheetKeeps DEF CloseSheet
<1>5. CASE StatusButton BY <1>5, HistoryUntouched DEF StatusButton, StaysOpen, sheetVars
<1>6. CASE handleAddSubmit BY <1>6, HistoryUntouched DEF handleAddSubmit
<1>7. CASE handlePlateSubmit
  BY <1>7, HistoryUntouched DEF handlePlateSubmit, StaysOpen, sheetVars
<1>8. CASE handleEditSubmit \/ handleSuspendSubmit \/ handleAssignSubmit
  BY <1>8, NoSheetKeeps DEF handleEditSubmit, handleSuspendSubmit, handleAssignSubmit, SheetCloses
<1>9. CASE \E m \in Members \cup {"none"} : SelectMember(m)
  BY <1>9, HistoryUntouched DEF SelectMember
<1>10. ASSUME NEW tab, SetTab(tab) PROVE HistoryInv'
  <2>1. sheet' = sheet /\ history' = HistoryEffect(sheet, tab) BY <1>10 DEF SetTab
  <2>2. sheet' = [kind |-> sheet.kind, vehicle |-> sheet.vehicle]
    BY <2>1 DEF HistoryInv, HistoryTypes
  <2> QED BY <2>1, <2>2, EffectKeeps DEF HistoryInv
<1>11. CASE \E a \in history.asks : HistoryAnswered(a) BY <1>11, AnswerKeeps
<1>12. CASE \/ handleParseAndImport \/ Uploaded \/ WorkerDone \/ PollTick
            \/ JobAnswered \/ JobAskFails \/ ImportShown \/ AutoClose
  BY <1>12, JobKeepsHistory
<1>13. CASE UNCHANGED vehicleVars BY <1>13, HistoryUntouched DEF vehicleVars
<1> QED BY <1>1, <1>2, <1>3, <1>4, <1>5, <1>6, <1>7, <1>8, <1>9, <1>10, <1>11, <1>12, <1>13
        DEF VehiclesNext

(* However answers are delayed while the user goes from vehicle to vehicle *)
(* and from tab to tab and the vehicles are loaded again: what is shown    *)
(* when the request on the screen has been answered is of the vehicle on   *)
(* the screen (VehicleDetailsModal.tsx, the effect and its cleanup).       *)
THEOREM HistoryIsOfVehicle == VehiclesSpec => []HistoryOfVehicle
<1>1. VehiclesInit => HistoryInv
  BY DEF VehiclesInit, HistoryInv, HistoryTypes, NoSheet, ShowsPlates, Wanted, Shows
<1>2. HistoryInv => HistoryOfVehicle
  <2> SUFFICES ASSUME HistoryInv, sheet.kind = "details", history.tab = "plates",
                      \A a \in history.asks : a.cancelled
               PROVE  \E v \in sheet.vehicle : history.shown \in {v.id, "none"}
    BY DEF HistoryOfVehicle
  <2>1. history.shown = "none" \/ Shows(history.shown)
    BY DEF HistoryInv, ShowsPlates, Wanted
  <2>2. sheet.vehicle # {} BY DEF HistoryInv
  <2> QED BY <2>1, <2>2 DEF Shows
<1> QED BY <1>1, <1>2, VehiclesKeepHistory, PTL DEF VehiclesSpec

-----------------------------------------------------------------------------
(* The barrier map: the commands of the console.                           *)

PollValues == Settled \cup {"none", "sent"}

Outcomes == SUBSET (Settled \cup {"unacknowledged"})

CmdRecords ==
  [gate : Gates \cup {None}, stage : {"unused", "sending", "polling", "closed"},
   tries : Nat, polls : [1..MaxTicks -> PollValues],
   said : Outcomes]

CmdTyped == RowTypeOK /\ cmd \in [Commands -> CmdRecords]

(* A row is acknowledged, a poll answered with it, and an outcome announced *)
(* only for a command the machine has accepted.                            *)
AckInv ==
  /\ CmdTyped
  /\ \A c \in Commands : row[c] = "acknowledged" => c \in acted
  /\ \A c \in Commands, n \in 1..MaxTicks : cmd[c].polls[n] = "acknowledged" => c \in acted
  /\ AckShownActed

LEMMA AckUntouched == ASSUME AckInv, UNCHANGED <<cmd, row, acted>> PROVE AckInv'
BY DEF AckInv, CmdTyped, RowTypeOK, AckShownActed

(* A command's record is replaced by one whose polls and outcomes are      *)
(* about rows the machine has accepted.                                    *)
LEMMA AckReplaced ==
  ASSUME AckInv, NEW c \in Commands, NEW k \in CmdRecords,
         cmd' = [cmd EXCEPT ![c] = k], UNCHANGED <<row, acted>>,
         \A n \in 1..MaxTicks : k.polls[n] = "acknowledged" => c \in acted,
         "acknowledged" \in k.said => c \in acted
  PROVE  AckInv'
<1>1. cmd \in [Commands -> CmdRecords] BY DEF AckInv, CmdTyped
<1>2. CmdTyped' BY <1>1 DEF AckInv, CmdTyped, RowTypeOK
<1>3. \A d \in Commands : cmd'[d] = IF d = c THEN k ELSE cmd[d] BY <1>1
<1> QED BY <1>2, <1>3 DEF AckInv, AckShownActed

(* A command is posted as a record of its own, with no polls.              *)
NewCommand(g) == [Unused EXCEPT !.gate = g, !.stage = "sending"]

LEMMA FreshTyped ==
  ASSUME NEW k, k = Unused \/ \E g \in Gates : k = NewCommand(g)
  PROVE  k \in CmdRecords /\ k.said = {} /\ \A n \in 1..MaxTicks : k.polls[n] = "none"
<1> DEFINE polls == [n \in 1..MaxTicks |-> "none"]
           nothing == {}
<1>1. polls \in [1..MaxTicks -> PollValues] /\ \A n \in 1..MaxTicks : polls[n] = "none"
  BY DEF PollValues
<1>2. nothing \in Outcomes /\ nothing = {} BY DEF Outcomes
<1>3. Unused = [gate |-> None, stage |-> "unused", tries |-> 0, polls |-> polls, said |-> nothing]
  BY DEF Unused
<1> HIDE DEF polls, nothing
<1>4. ASSUME NEW g \in Gates, k = NewCommand(g)
      PROVE  k = [gate |-> g, stage |-> "sending", tries |-> 0, polls |-> polls, said |-> nothing]
  BY <1>3, <1>4 DEF NewCommand
<1>5. 0 \in Nat OBVIOUS
<1>6. PICK gate \in Gates \cup {None}, stage \in {"unused", "sending"} :
        k = [gate |-> gate, stage |-> stage, tries |-> 0, polls |-> polls, said |-> nothing]
  BY <1>3, <1>4
<1>7. k \in CmdRecords BY <1>1, <1>2, <1>5, <1>6 DEF CmdRecords
<1>8. k.said = nothing /\ k.polls = polls BY <1>6
<1> QED BY <1>1, <1>2, <1>7, <1>8

LEMMA PostKeepsAck ==
  ASSUME AckInv, NEW c \in Free, NEW g \in Gates, cmd' = Posted(c, g), UNCHANGED <<row, acted>>
  PROVE  AckInv'
<1>1. cmd' = [cmd EXCEPT ![c] = NewCommand(g)] BY DEF Posted, NewCommand
<1>2. c \in Commands BY DEF Free
<1> QED BY <1>1, <1>2, FreshTyped, AckReplaced

-----------------------------------------------------------------------------
(* The console's side of a command.                                        *)

LEMMA StageMoves ==
  ASSUME AckInv, NEW c \in Commands, NEW s \in {"polling", "closed"},
         cmd' = [cmd EXCEPT ![c].stage = s], acted' = acted,
         row' = row \/ (row' = [row EXCEPT ![c] = "sent"])
  PROVE  AckInv'
<1>1. cmd \in [Commands -> CmdRecords] /\ RowTypeOK BY DEF AckInv, CmdTyped
<1>2. cmd[c] \in CmdRecords BY <1>1
<1> DEFINE k == [cmd[c] EXCEPT !.stage = s]
<1>3. k \in CmdRecords /\ k.polls = cmd[c].polls /\ k.said = cmd[c].said BY <1>2 DEF CmdRecords
<1>4. cmd' = [cmd EXCEPT ![c] = k] BY <1>1
<1> HIDE DEF k
<1>5. CmdTyped' BY <1>1, <1>3, <1>4 DEF CmdTyped, RowTypeOK
<1>6. \A d \in Commands : cmd'[d].polls = cmd[d].polls /\ cmd'[d].said = cmd[d].said
  BY <1>1, <1>3, <1>4
<1>7. \A d \in Commands : row'[d] = "acknowledged" => d \in acted'
  BY <1>1 DEF AckInv, RowTypeOK
<1> QED BY <1>5, <1>6, <1>7 DEF AckInv, AckShownActed

LEMMA TickKeepsAck == ASSUME AckInv, NEW c \in Commands, Tick(c) PROVE AckInv'
<1>1. cmd \in [Commands -> CmdRecords] /\ RowTypeOK BY DEF AckInv, CmdTyped
<1>2. cmd[c] \in CmdRecords /\ row[c] \in PollValues BY <1>1 DEF RowTypeOK, PollValues
<1> DEFINE polls == [cmd[c].polls EXCEPT ![cmd[c].tries + 1] = row[c]]
           tries == cmd[c].tries + 1
           k == [cmd[c] EXCEPT !.tries = tries, !.polls = polls]
<1>3. cmd[c].polls \in [1..MaxTicks -> PollValues] /\ cmd[c].tries \in Nat BY <1>2 DEF CmdRecords
<1>4. polls \in [1..MaxTicks -> PollValues] BY <1>2, <1>3
<1>5. \A n \in 1..MaxTicks : polls[n] = "acknowledged" => c \in acted
  <2> TAKE n \in 1..MaxTicks
  <2>1. polls[n] = row[c] \/ polls[n] = cmd[c].polls[n] BY <1>3
  <2> QED BY <2>1 DEF AckInv
<1>6. tries \in Nat BY <1>3
<1> HIDE DEF polls, tries
<1>7. k \in CmdRecords /\ k.polls = polls /\ k.said = cmd[c].said
  BY <1>2, <1>4, <1>6 DEF CmdRecords
<1>8. cmd' = [cmd EXCEPT ![c] = k] /\ UNCHANGED <<row, acted>> BY <1>1 DEF Tick, polls, tries
<1>9. "acknowledged" \in k.said => c \in acted BY <1>7 DEF AckInv, AckShownActed
<1> HIDE DEF k
<1> QED BY <1>5, <1>7, <1>8, <1>9, AckReplaced

(* An answered poll is taken away; what it announces it was answered with. *)
LEMMA PollKeepsAck ==
  ASSUME AckInv, NEW c \in Commands, NEW n \in 1..MaxTicks, NEW said, NEW stage,
         said \in Outcomes,
         "acknowledged" \in said => cmd[c].polls[n] = "acknowledged",
         stage \in {cmd[c].stage, "closed"}, UNCHANGED <<row, acted>>,
         cmd' = [cmd EXCEPT ![c].polls = [@ EXCEPT ![n] = "none"],
                            ![c].said = @ \cup said, ![c].stage = stage]
  PROVE  AckInv'
<1>1. cmd \in [Commands -> CmdRecords] BY DEF AckInv, CmdTyped
<1>2. cmd[c] \in CmdRecords BY <1>1
<1> DEFINE polls == [cmd[c].polls EXCEPT ![n] = "none"]
           k == [cmd[c] EXCEPT !.polls = polls, !.said = @ \cup said, !.stage = stage]
<1>3. cmd[c].polls \in [1..MaxTicks -> PollValues] BY <1>2 DEF CmdRecords
<1>4. polls \in [1..MaxTicks -> PollValues] BY <1>3 DEF PollValues
<1>5. \A m \in 1..MaxTicks : polls[m] = "acknowledged" => c \in acted
  BY <1>3 DEF AckInv
<1> HIDE DEF polls
<1>6. k \in CmdRecords /\ k.polls = polls /\ k.said = cmd[c].said \cup said
  <2> DEFINE all == cmd[c].said \cup said
  <2>1. cmd[c].said \in Outcomes BY <1>2 DEF CmdRecords
  <2>2. all \in Outcomes BY <2>1 DEF Outcomes
  <2>3. k = [cmd[c] EXCEPT !.polls = polls, !.said = all, !.stage = stage] OBVIOUS
  <2> HIDE DEF k, all
  <2>4. k \in CmdRecords /\ k.polls = polls /\ k.said = all
    BY <1>2, <1>4, <2>2, <2>3 DEF CmdRecords
  <2> QED BY <2>4 DEF all
<1>7. cmd' = [cmd EXCEPT ![c] = k] BY <1>1 DEF polls
<1>8. "acknowledged" \in k.said => c \in acted BY <1>6 DEF AckInv, AckShownActed
<1> HIDE DEF k
<1> QED BY <1>5, <1>6, <1>7, <1>8, AckReplaced

LEMMA ServerKeepsAck ==
  ASSUME AckInv, NEW c \in Commands, ServerSide(c)
  PROVE  AckInv'
<1>1. cmd' = cmd BY DEF ServerSide
<1>2. CASE Act(c)
  <2>1. acted' = acted \cup {c} /\ row' = row BY <1>2 DEF Act
  <2>2. RowTypeOK' BY <2>1 DEF RowTypeOK, AckInv, CmdTyped
  <2> QED BY <1>1, <2>1, <2>2 DEF AckInv, CmdTyped, AckShownActed
<1>3. CASE Settle(c)
  <2>1. acted' = acted BY <1>3 DEF Settle
  <2>2. PICK s \in Settled : (s = "acknowledged" => c \in acted) /\ row' = [row EXCEPT ![c] = s]
    BY <1>3 DEF Settle
  <2>3. RowTypeOK' BY <2>1, <2>2 DEF RowTypeOK, AckInv, CmdTyped
  <2>4. \A d \in Commands : row'[d] = "acknowledged" => d \in acted
    BY <2>2 DEF RowTypeOK, AckInv, CmdTyped
  <2> QED BY <1>1, <2>1, <2>3, <2>4 DEF AckInv, CmdTyped, AckShownActed
<1> QED BY <1>2, <1>3 DEF ServerSide

LEMMA CommandKeepsAck == ASSUME AckInv, NEW c \in Commands, Command(c) PROVE AckInv'
<1>1. CASE CommandAccepted(c) BY <1>1, StageMoves DEF CommandAccepted, Create
<1>2. CASE CommandRefused(c) BY <1>2, StageMoves DEF CommandRefused
<1>3. CASE Tick(c) BY <1>3, TickKeepsAck
<1>4. CASE ServerSide(c) BY <1>4, ServerKeepsAck
<1>5. ASSUME NEW n \in 1..MaxTicks, PollAnswered(c, n) PROVE AckInv'
  <2> DEFINE said == Outcome(c, cmd[c].polls[n])
             stage == IF said = {} THEN cmd[c].stage ELSE "closed"
  <2>1. UNCHANGED <<row, acted>> BY <1>5 DEF PollAnswered
  <2>2. said \in Outcomes BY DEF Outcome, Outcomes
  <2>3. "acknowledged" \in said => cmd[c].polls[n] = "acknowledged" BY DEF Outcome, Outcomes
  <2>4. cmd \in [Commands -> CmdRecords] BY DEF AckInv, CmdTyped
  <2>5. cmd' = [cmd EXCEPT ![c].polls = [@ EXCEPT ![n] = "none"],
                           ![c].said = @ \cup said,
                           ![c].stage = IF said = {} THEN @ ELSE "closed"]
    BY <1>5 DEF PollAnswered
  <2> HIDE DEF said
  <2>6. cmd' = [cmd EXCEPT ![c].polls = [@ EXCEPT ![n] = "none"],
                           ![c].said = @ \cup said, ![c].stage = stage]
    BY <2>4, <2>5 DEF CmdRecords
  <2>7. stage \in {cmd[c].stage, "closed"} OBVIOUS
  <2> HIDE DEF stage
  <2> QED BY <2>1, <2>2, <2>3, <2>6, <2>7, PollKeepsAck
<1>6. ASSUME NEW n \in 1..MaxTicks, PollFails(c, n) PROVE AckInv'
  <2>1. cmd' = [cmd EXCEPT ![c].polls = [@ EXCEPT ![n] = "none"], ![c].stage = "closed"]
        /\ UNCHANGED <<row, acted>>
    BY <1>6 DEF PollFails
  <2>2. cmd \in [Commands -> CmdRecords] BY DEF AckInv, CmdTyped
  <2> DEFINE said == {}
             stage == "closed"
  <2>3. cmd' = [cmd EXCEPT ![c].polls = [@ EXCEPT ![n] = "none"],
                           ![c].said = @ \cup said, ![c].stage = stage]
    BY <2>1, <2>2 DEF CmdRecords
  <2>4. /\ said \in Outcomes /\ "acknowledged" \notin said
        /\ stage \in {cmd[c].stage, "closed"}
    BY DEF Outcomes
  <2> HIDE DEF said, stage
  <2> QED BY <2>1, <2>3, <2>4, PollKeepsAck
<1> QED BY <1>1, <1>2, <1>3, <1>4, <1>5, <1>6 DEF Command

-----------------------------------------------------------------------------
(* The rest of the page posts commands, or leaves them alone.              *)

LEMMA ContextKeepsAck == ASSUME AckInv, Context PROVE AckInv'
<1>1. UNCHANGED <<cmd, row, acted>>
  BY DEF Context, GatesChange, EventArrives, WindowSlides, EdgeIncident, ServerSettles,
         QueueSettles, IncidentsLoaded, QueueSettlesAll, cmdVars
<1> QED BY <1>1, AckUntouched

LEMMA SendKeepsAck == ASSUME AckInv, NEW g \in Gates, SendPending(g) PROVE AckInv'
BY PostKeepsAck DEF SendPending

LEMMA ResolveKeepsAck ==
  ASSUME MapAssumption, AckInv, NEW i, resolveBarrierIncident(i)
  PROVE  AckInv'
<1>1. GateOf[i] \in Gates BY DEF resolveBarrierIncident, alerts, MapAssumption
<1> QED BY <1>1, PostKeepsAck DEF resolveBarrierIncident

LEMMA ResolveAllKeepsAck == ASSUME MapAssumption, AckInv, resolveAllIncidents PROVE AckInv'
<1>1. PICK f \in [alerts \cap Stuck -> Free] :
        cmd' = [c \in Commands |->
                  IF \E i \in alerts \cap Stuck : f[i] = c
                  THEN Posted(c, GateOf[CHOOSE i \in alerts \cap Stuck : f[i] = c])[c]
                  ELSE cmd[c]]
  BY DEF resolveAllIncidents
<1>2. UNCHANGED <<row, acted>> BY DEF resolveAllIncidents
<1>3. cmd \in [Commands -> CmdRecords] BY DEF AckInv, CmdTyped
<1>4. \A c \in Commands : cmd'[c] = cmd[c] \/ \E g \in Gates : cmd'[c] = NewCommand(g)
  <2> TAKE c \in Commands
  <2>1. CASE \E i \in alerts \cap Stuck : f[i] = c
    <3> DEFINE i == CHOOSE i \in alerts \cap Stuck : f[i] = c
    <3>1. i \in alerts \cap Stuck BY <2>1
    <3>2. cmd'[c] = Posted(c, GateOf[i])[c] BY <1>1, <2>1
    <3> HIDE DEF i
    <3>3. GateOf[i] \in Gates BY <3>1 DEF alerts, MapAssumption
    <3>4. Posted(c, GateOf[i])[c] = NewCommand(GateOf[i]) BY <1>3 DEF Posted, NewCommand
    <3> QED BY <3>2, <3>3, <3>4
  <2>2. CASE ~\E i \in alerts \cap Stuck : f[i] = c BY <1>1, <2>2
  <2> QED BY <2>1, <2>2
<1>5. cmd' = [c \in Commands |-> cmd'[c]] BY <1>1
<1>6. \A c \in Commands : cmd'[c] \in CmdRecords BY <1>3, <1>4, FreshTyped
<1>7. cmd' \in [Commands -> CmdRecords] BY <1>5, <1>6
<1>8. CmdTyped' BY <1>2, <1>7 DEF AckInv, CmdTyped, RowTypeOK
<1>9. \A c \in Commands, n \in 1..MaxTicks :
        cmd'[c].polls[n] = "acknowledged" => cmd[c].polls[n] = "acknowledged"
  BY <1>4, FreshTyped
<1>10. \A c \in Commands : "acknowledged" \in cmd'[c].said => "acknowledged" \in cmd[c].said
  BY <1>4, FreshTyped
<1> QED BY <1>2, <1>8, <1>9, <1>10 DEF AckInv, AckShownActed

LEMMA UserKeepsAck == ASSUME MapAssumption, AckInv, User PROVE AckInv'
<1>1. CASE Mount \/ Unmount \/ CloseInspector \/ handleApplyAction
  BY <1>1, AckUntouched DEF Mount, Unmount, CloseInspector, handleApplyAction, cmdVars
<1>2. CASE resolveAllIncidents BY <1>2, ResolveAllKeepsAck
<1>3. ASSUME NEW g \in Gates, handleToggleBarrierArm(g) \/ handleEmergencyLock(g) PROVE AckInv'
  BY <1>3, SendKeepsAck DEF handleToggleBarrierArm, handleEmergencyLock
<1>4. ASSUME NEW g \in Gates, handleRecordTestPassage(g) \/ Inspect(g) PROVE AckInv'
  BY <1>4, AckUntouched DEF handleRecordTestPassage, EventArrives, Inspect, cmdVars
<1>5. ASSUME NEW i, Resolve(i) PROVE AckInv' BY <1>5, ResolveKeepsAck DEF Resolve
<1>6. ASSUME NEW k, \/ dismissInAppToast(k) \/ QuickFix(k) \/ MitigateFromToast(k)
                    \/ AnalyzeFromToast(k)
      PROVE  AckInv'
  <2>1. UNCHANGED <<cmd, row, acted>> \/ resolveBarrierIncident(toasts[k].id)
    BY <1>6 DEF dismissInAppToast, QuickFix, MitigateFromToast, AnalyzeFromToast, cmdVars
  <2> QED BY <2>1, AckUntouched, ResolveKeepsAck
<1> QED BY <1>1, <1>2, <1>3, <1>4, <1>5, <1>6 DEF User

(* For any number of commands and overlapping polls, of one interval or of *)
(* several: `acknowledged' is announced only for what the gate's machine   *)
(* accepted (PlatformContext.tsx, triggerGateCommand).                     *)
THEOREM AcknowledgedActed == Spec => []AckShownActed
<1>1. Init => AckInv
  <2> SUFFICES ASSUME Init PROVE AckInv OBVIOUS
  <2>1. cmd = [c \in Commands |-> Unused] /\ row = [c \in Commands |-> "none"] /\ acted = {}
    BY DEF Init, RowInit
  <2> QED BY <2>1, FreshTyped DEF AckInv, CmdTyped, RowTypeOK, AckShownActed
<1>2. AckInv /\ [Next]_vars => AckInv'
  <2> SUFFICES ASSUME AckInv, [Next]_vars PROVE AckInv' OBVIOUS
  <2>1. CASE Timer
    BY <2>1, AckUntouched DEF Timer, PendingTimer, ActionApplied, cmdVars
  <2>2. CASE UNCHANGED vars BY <2>2, AckUntouched DEF vars, cmdVars
  <2> QED BY <2>1, <2>2, ContextKeepsAck, CommandKeepsAck, UserKeepsAck, MapAssumption DEF Next
<1>3. AckInv => AckShownActed BY DEF AckInv
<1> QED BY <1>1, <1>2, <1>3, PTL DEF Spec

-----------------------------------------------------------------------------
(* What the map shows of a stuck gate.                                     *)

ItemRecords ==
  [status : {"OPEN", "IN_MOTION", "LOCKED", "STUCK", "CLOSED"},
   health : {"OFFLINE", "CRITICAL", "WARNING", "HEALTHY"}]

(* Status and health are derived apart; they agree on a fault.             *)
StuckInv ==
  /\ item \in [Gates -> ItemRecords]
  /\ \A g \in Gates : isStuck(g) => item[g].health = "CRITICAL"

LEMMA ItemDerived ==
  ASSUME NEW status, NEW raw, NEW live
  PROVE  LET it == BarrierGateItem(status, raw, live)
         IN  it \in ItemRecords /\ (it.status = "STUCK" => it.health = "CRITICAL")
<1> DEFINE r == IF live # None THEN live ELSE raw
<1>1. BarrierGateItem(status, raw, live) = [status |-> mapGateStatus(r),
                                             health |-> mapGateHealth(status, r)]
  BY DEF BarrierGateItem
<1> HIDE DEF r
<1>2. mapGateStatus(r) \in {"OPEN", "IN_MOTION", "LOCKED", "STUCK", "CLOSED"}
      /\ (mapGateStatus(r) = "STUCK" => r = "fault")
  <2>1. CASE r = "open" BY <2>1 DEF mapGateStatus
  <2>2. CASE r \in {"opening", "closing"} BY <2>2 DEF mapGateStatus
  <2>3. CASE r = "locked" BY <2>3 DEF mapGateStatus
  <2>4. CASE r = "fault" BY <2>4 DEF mapGateStatus
  <2>5. CASE r \notin {"open", "opening", "closing", "locked", "fault"} BY <2>5 DEF mapGateStatus
  <2> QED BY <2>1, <2>2, <2>3, <2>4, <2>5
<1>3. mapGateHealth(status, r) \in {"OFFLINE", "CRITICAL", "WARNING", "HEALTHY"}
      /\ (r = "fault" => mapGateHealth(status, r) = "CRITICAL")
  BY DEF mapGateHealth
<1> QED BY <1>1, <1>2, <1>3 DEF ItemRecords

LEMMA StuckInvariant == Spec => []StuckInv
<1>1. Init => StuckInv
  BY ItemDerived DEF Init, StuckInv, isStuck
<1>2. StuckInv /\ [Next]_vars => StuckInv'
  <2> SUFFICES ASSUME StuckInv, [Next]_vars PROVE StuckInv' OBVIOUS
  <2>1. ASSUME item' = item PROVE StuckInv' BY <2>1 DEF StuckInv, isStuck
  <2>2. ASSUME NEW g \in Gates, GatesChange(g) PROVE StuckInv'
    <3>1. PICK it \in Items : item' = [item EXCEPT ![g] = it] BY <2>2 DEF GatesChange
    <3>2. it \in ItemRecords /\ (it.status = "STUCK" => it.health = "CRITICAL")
      BY ItemDerived DEF Items
    <3> QED BY <3>1, <3>2 DEF StuckInv, isStuck
  <2>3. CASE Context
    BY <2>1, <2>2, <2>3 DEF Context, EventArrives, WindowSlides, EdgeIncident, ServerSettles,
                            QueueSettles, IncidentsLoaded, QueueSettlesAll
  <2>4. ASSUME NEW c \in Commands, Command(c) PROVE item' = item
    BY <2>4 DEF Command, CommandAccepted, CommandRefused, Tick, ServerSide, PollAnswered,
                PollFails, ctxVars
  <2>5. CASE User
    <3>1. ASSUME Mount \/ Unmount \/ CloseInspector \/ handleApplyAction \/ resolveAllIncidents
          PROVE  item' = item
      BY <3>1 DEF Mount, Unmount, CloseInspector, handleApplyAction, resolveAllIncidents, ctxVars
    <3>2. ASSUME NEW g \in Gates, \/ handleToggleBarrierArm(g) \/ handleEmergencyLock(g)
                                  \/ handleRecordTestPassage(g) \/ Inspect(g)
          PROVE  item' = item
      BY <3>2 DEF handleToggleBarrierArm, handleEmergencyLock, handleRecordTestPassage, Inspect,
                  SendPending, EventArrives, ctxVars
    <3>3. ASSUME NEW i, resolveBarrierIncident(i) PROVE item' = item
      BY <3>3 DEF resolveBarrierIncident, ctxVars
    <3>4. ASSUME NEW k, \/ dismissInAppToast(k) \/ QuickFix(k) \/ MitigateFromToast(k)
                        \/ AnalyzeFromToast(k)
          PROVE  item' = item
      BY <3>3, <3>4 DEF dismissInAppToast, QuickFix, MitigateFromToast, AnalyzeFromToast, ctxVars
    <3>5. item' = item BY <2>5, <3>1, <3>2, <3>3, <3>4 DEF User, Resolve
    <3> QED BY <2>1, <3>5
  <2>6. CASE Timer BY <2>1, <2>6 DEF Timer, PendingTimer, ActionApplied, ctxVars
  <2>7. CASE UNCHANGED vars BY <2>1, <2>7 DEF vars, ctxVars
  <2> QED BY <2>1, <2>3, <2>4, <2>5, <2>6, <2>7 DEF Next
<1> QED BY <1>1, <1>2, PTL DEF Spec

LEMMA Counted ==
  ASSUME IsFiniteSet(Gates), NEW S \in SUBSET Gates
  PROVE  Cardinality(S) \in Nat /\ (S # {} => Cardinality(S) > 0)
<1>1. IsFiniteSet(S) BY FS_Subset
<1>2. Cardinality(S) \in Nat /\ (Cardinality(S) = 0 <=> S = {}) BY <1>1, FS_CardinalityType, FS_EmptySet
<1> QED BY <1>2

(* Whatever the row says of the device, the pause of the stream or the     *)
(* other gates: a stuck gate is red, counted, found by the filters and     *)
(* recoverable on every view of the map (BarrierMapVisualization.tsx).     *)
THEOREM StuckIsShown == Spec => []StuckShown
<1>1. StuckInv => StuckShown
  <2> SUFFICES ASSUME StuckInv, NEW g \in Gates, isStuck(g)
               PROVE  /\ overallHealth = "CRITICAL" /\ statusColor(FALSE) = "red"
                      /\ LocalColor(g) = "red"
                      /\ \A f \in {"STUCK", "WARNING"} : filteredSites(f)
                      /\ AlertBadge > 0 /\ metrics.warningGates > 0
                      /\ CardBadge(g) = "STUCK" /\ GridBadge(g) = "STUCK"
                      /\ "reset" \in CardOffers(g) \cap GridOffers(g)
    BY DEF StuckShown
  <2>1. item[g].status = "STUCK" /\ item[g].health = "CRITICAL" BY DEF StuckInv, isStuck
  <2>2. overallHealth = "CRITICAL" BY <2>1 DEF overallHealth
  <2>3. statusColor(FALSE) = "red" /\ LocalColor(g) = "red" BY DEF statusColor, LocalColor
  <2>4. \A f \in {"STUCK", "WARNING"} : filteredSites(f) BY <2>1 DEF filteredSites
  <2>5. CardBadge(g) = "STUCK" /\ GridBadge(g) = "STUCK" BY DEF CardBadge, GridBadge
  <2>6. "reset" \in CardOffers(g) \cap GridOffers(g) BY DEF CardOffers, GridOffers, GateButtons
  <2> DEFINE stuck == {h \in Gates : item[h].status = "STUCK"}
             offline == {h \in Gates : item[h].health = "OFFLINE"}
             warning == {h \in Gates : item[h].health \in {"WARNING", "CRITICAL"}}
  <2>7. Cardinality(stuck) > 0 /\ Cardinality(stuck) \in Nat /\ Cardinality(offline) \in Nat
        /\ Cardinality(warning) > 0
    <3>1. stuck \in SUBSET Gates /\ offline \in SUBSET Gates /\ warning \in SUBSET Gates
      OBVIOUS
    <3>2. stuck # {} /\ warning # {} BY <2>1
    <3> HIDE DEF stuck, offline, warning
    <3> QED BY <3>1, <3>2, Counted, MapAssumption DEF MapAssumption
  <2>8. metrics.stuckGates = Cardinality(stuck) /\ metrics.offlineGates = Cardinality(offline)
        /\ metrics.warningGates = Cardinality(warning)
    BY DEF metrics
  <2>9. AlertBadge > 0 /\ metrics.warningGates > 0
    <3> HIDE DEF stuck, offline, warning
    <3> QED BY <2>7, <2>8 DEF AlertBadge
  <2> QED BY <2>2, <2>3, <2>4, <2>5, <2>6, <2>9
<1> QED BY <1>1, StuckInvariant, PTL

-----------------------------------------------------------------------------
(* Toasts of incidents.                                                    *)

Positions(q, t) == {k \in DOMAIN q : q[k] = t}

LEMMA CopiesCounted ==
  ASSUME NEW q \in Seq(Toasts), NEW t
  PROVE  /\ IsFiniteSet(Positions(q, t)) /\ Copies(q, t) = Cardinality(Positions(q, t))
         /\ Copies(q, t) \in Nat
<1>1. Positions(q, t) \in SUBSET (1..Len(q)) BY DEF Positions
<1>2. IsFiniteSet(1..Len(q)) BY FS_Interval
<1>3. IsFiniteSet(Positions(q, t)) BY <1>1, <1>2, FS_Subset
<1> QED BY <1>3, FS_CardinalityType DEF Copies, Positions

(* A list whose copies of t sit at places of their own in q has no more of *)
(* them than q.                                                            *)
LEMMA CopiesMapped ==
  ASSUME NEW q \in Seq(Toasts), NEW r \in Seq(Toasts), NEW t, NEW h,
         \A k \in Positions(r, t) : h[k] \in Positions(q, t),
         \A j, k \in Positions(r, t) : h[j] = h[k] => j = k
  PROVE  Copies(r, t) <= Copies(q, t)
<1> DEFINE f == [k \in Positions(r, t) |-> h[k]]
<1>1. f \in Injection(Positions(r, t), Positions(q, t)) BY DEF Injection, IsInjective
<1> HIDE DEF f
<1>2. Cardinality(Positions(r, t)) <= Cardinality(Positions(q, t))
  BY <1>1, CopiesCounted, FS_Injection
<1> QED BY <1>2, CopiesCounted

(* filter keeps the toasts that are not removed at places of their own.    *)
LEMMA WithoutFewer ==
  ASSUME NEW q \in Seq(Toasts), NEW T, NEW t
  PROVE  Without(q, T) \in Seq(Toasts) /\ Copies(Without(q, T), t) <= Copies(q, t)
<1> DEFINE kept == {k \in DOMAIN q : q[k] \notin T}
           upTo(k) == {j \in kept : j <= k}
           place(k) == Cardinality(upTo(k))
           n == Cardinality(kept)
           h == [m \in 1..n |-> CHOOSE k \in kept : place(k) = m]
           r == [m \in 1..n |-> q[CHOOSE k \in kept : place(k) = m]]
<1>1. Without(q, T) = r BY DEF Without
<1>2. IsFiniteSet(kept) /\ n \in Nat /\ kept \subseteq 1..Len(q)
  <2>1. kept \in SUBSET (1..Len(q)) OBVIOUS
  <2>2. IsFiniteSet(1..Len(q)) BY FS_Interval
  <2> HIDE DEF kept
  <2>3. IsFiniteSet(kept) BY <2>1, <2>2, FS_Subset
  <2> QED BY <2>1, <2>3, FS_CardinalityType
<1>3. \A k \in kept : IsFiniteSet(upTo(k)) /\ place(k) \in 1..n
  <2> TAKE k \in kept
  <2>1. upTo(k) \in SUBSET kept /\ k \in upTo(k) BY <1>2
  <2> HIDE DEF upTo, kept
  <2>2. IsFiniteSet(upTo(k)) /\ place(k) <= n BY <1>2, <2>1, FS_Subset
  <2>3. place(k) \in Nat /\ (place(k) = 0 <=> upTo(k) = {})
    BY <2>2, FS_CardinalityType, FS_EmptySet
  <2> QED BY <1>2, <2>1, <2>2, <2>3
<1>4. ASSUME NEW j \in kept, NEW k \in kept, place(j) = place(k), j < k PROVE FALSE
  <2>1. upTo(j) \in SUBSET upTo(k) /\ k \in upTo(k) /\ k \notin upTo(j) BY <1>2, <1>4
  <2> HIDE DEF upTo, kept
  <2> QED BY <1>3, <1>4, <2>1, FS_Subset
<1>5. \A m \in 1..n : \E k \in kept : place(k) = m
  <2> DEFINE p == [k \in kept |-> place(k)]
  <2>1. \A j, k \in kept : p[j] = p[k] => j = k
    <3> SUFFICES ASSUME NEW j \in kept, NEW k \in kept, place(j) = place(k), j # k PROVE FALSE
      OBVIOUS
    <3>1. j < k \/ k < j BY <1>2
    <3> HIDE DEF place, kept
    <3> QED BY <1>4, <3>1
  <2>2. IsFiniteSet(1..n) /\ Cardinality(1..n) = n
    <3> HIDE DEF n
    <3> QED BY <1>2, FS_Interval
  <2>3. p \in [kept -> 1..n]
    <3> HIDE DEF place, kept, n
    <3> QED BY <1>3
  <2>4. p \in Injection(kept, 1..n)
    <3> HIDE DEF p, kept, n
    <3> QED BY <2>1, <2>3 DEF Injection, IsInjective
  <2>5. p \in Surjection(kept, 1..n)
    <3> HIDE DEF p, kept
    <3> QED BY <2>2, <2>4, FS_Injection
  <2>6. \A m \in 1..n : \E k \in kept : p[k] = m
    <3> HIDE DEF p, kept, n
    <3> QED BY <2>5 DEF Surjection
  <2> HIDE DEF place, kept, n
  <2> QED BY <2>6
<1>6. \A m \in 1..n : h[m] \in kept /\ place(h[m]) = m
  <2> HIDE DEF place, kept, n
  <2> QED BY <1>5
<1>7. \A m \in 1..n : r[m] = q[h[m]]
  <2> HIDE DEF place, kept, n
  <2> QED OBVIOUS
<1>8. r \in Seq(Toasts) /\ DOMAIN r = 1..n
  <2>1. \A m \in 1..n : q[h[m]] \in Toasts
    <3> HIDE DEF place, h, n
    <3> QED BY <1>2, <1>6
  <2> HIDE DEF h, place, kept, n
  <2>2. r \in [1..n -> Toasts] BY <1>7, <2>1
  <2> HIDE DEF r
  <2> QED BY <1>2, <2>2
<1>9. \A m \in Positions(r, t) : h[m] \in Positions(q, t)
  <2> SUFFICES ASSUME NEW m \in Positions(r, t) PROVE h[m] \in Positions(q, t) OBVIOUS
  <2>1. m \in 1..n /\ r[m] = t
    <3> HIDE DEF r, n
    <3> QED BY <1>8 DEF Positions
  <2>2. q[h[m]] = t /\ h[m] \in kept
    <3> HIDE DEF r, n, h, kept, place
    <3> QED BY <1>6, <1>7, <2>1
  <2> HIDE DEF h
  <2> QED BY <2>2 DEF Positions
<1>10. \A j, k \in Positions(r, t) : h[j] = h[k] => j = k
  <2> HIDE DEF r, n, h, kept, place
  <2> QED BY <1>6, <1>8 DEF Positions
<1> HIDE DEF r, h
<1> QED BY <1>1, <1>8, <1>9, <1>10, CopiesMapped

(* A toast that is dismissed leaves the others at places of their own.     *)
LEMMA DroppedFewer ==
  ASSUME toasts \in Seq(Toasts), NEW k \in DOMAIN toasts, NEW t
  PROVE  Dropped(k) \in Seq(Toasts) /\ Copies(Dropped(k), t) <= Copies(toasts, t)
<1> DEFINE h == [j \in DOMAIN Dropped(k) |-> IF j < k THEN j ELSE j + 1]
<1>1. /\ Dropped(k) \in Seq(Toasts) /\ Len(Dropped(k)) = Len(toasts) - 1
      /\ \A j \in 1..(Len(toasts) - 1) : Dropped(k)[j] = toasts[IF j < k THEN j ELSE j + 1]
  <2> DEFINE a == SubSeq(toasts, 1, k - 1)
             b == SubSeq(toasts, k + 1, Len(toasts))
  <2>1. /\ a \in Seq(Toasts) /\ Len(a) = k - 1
        /\ \A j \in 1..(k - 1) : a[j] = toasts[j]
    OBVIOUS
  <2>2. /\ b \in Seq(Toasts) /\ Len(b) = Len(toasts) - k
        /\ \A j \in 1..(Len(toasts) - k) : b[j] = toasts[j + k]
    OBVIOUS
  <2>3. Dropped(k) = a \o b BY DEF Dropped
  <2> HIDE DEF a, b
  <2>4. k \in 1..Len(toasts) OBVIOUS
  <2>5. Dropped(k) \in Seq(Toasts) /\ Len(Dropped(k)) = Len(toasts) - 1
    BY <2>1, <2>2, <2>3, <2>4
  <2>6. ASSUME NEW j \in 1..(Len(toasts) - 1)
        PROVE  Dropped(k)[j] = toasts[IF j < k THEN j ELSE j + 1]
    <3>1. j \in 1..(Len(a) + Len(b)) /\ a \in Seq(Toasts) /\ b \in Seq(Toasts)
      BY <2>1, <2>2, <2>4
    <3>2. (a \o b)[j] = IF j <= Len(a) THEN a[j] ELSE b[j - Len(a)]
      BY <3>1, ConcatProperties
    <3>3. CASE j < k
      <4>1. j \in 1..(k - 1) /\ j <= Len(a) BY <2>1, <2>4, <3>3
      <4> QED BY <2>1, <2>3, <3>2, <3>3, <4>1
    <3>4. CASE j >= k
      <4> DEFINE m == j - (k - 1)
      <4>1. (a \o b)[j] = b[m] BY <2>1, <2>4, <3>2, <3>4
      <4>2. m \in 1..(Len(toasts) - k) /\ m + k = j + 1 BY <2>4, <3>4
      <4> HIDE DEF m
      <4>3. b[m] = toasts[j + 1] BY <2>2, <4>2
      <4>4. ~(j < k) BY <2>4, <3>4
      <4> QED BY <2>3, <4>1, <4>3, <4>4
    <3> QED BY <2>4, <3>3, <3>4
  <2> QED BY <2>5, <2>6
<1>2. \A j \in Positions(Dropped(k), t) : h[j] \in Positions(toasts, t)
  BY <1>1 DEF Positions
<1>3. \A i, j \in Positions(Dropped(k), t) : h[i] = h[j] => i = j
  BY <1>1 DEF Positions
<1> HIDE DEF h
<1> QED BY <1>1, <1>2, <1>3, CopiesMapped

(* [...prev, toast].slice(-6) adds copies of the new toasts only.          *)
LEMMA PushedFewer ==
  ASSUME MaxToasts \in Nat \ {0},
         NEW q \in Seq(Toasts), NEW T \in SUBSET Toasts, IsFiniteSet(T), NEW r \in Pushed(q, T)
  PROVE  r \in Seq(Toasts) /\ \A t : t \notin T => Copies(r, t) <= Copies(q, t)
<1>1. PICK s \in [1..Cardinality(T) -> T] :
        LET all == q \o s
            from == IF Len(all) > MaxToasts THEN Len(all) - MaxToasts ELSE 0
        IN  r = [k \in 1..(Len(all) - from) |-> all[from + k]]
  BY DEF Pushed
<1>2. Cardinality(T) \in Nat BY FS_CardinalityType
<1>3. s \in Seq(Toasts) /\ Len(s) = Cardinality(T) BY <1>2
<1> DEFINE all == q \o s
           from == IF Len(all) > MaxToasts THEN Len(all) - MaxToasts ELSE 0
<1>4. /\ all \in Seq(Toasts) /\ Len(all) = Len(q) + Len(s)
      /\ \A k \in 1..Len(q) : all[k] = q[k]
      /\ \A k \in (Len(q) + 1)..Len(all) : all[k] \in T
  <2>1. \A k \in 1..Len(s) : s[k] \in T BY <1>3
  <2>2. /\ all \in Seq(Toasts) /\ Len(all) = Len(q) + Len(s)
        /\ \A k \in 1..Len(all) : all[k] = IF k <= Len(q) THEN q[k] ELSE s[k - Len(q)]
    BY <1>3
  <2> HIDE DEF all
  <2> QED BY <1>2, <1>3, <2>1, <2>2
<1>5. from \in Nat /\ from <= Len(all)
  <2> HIDE DEF all
  <2> QED BY <1>4
<1>6. r = [k \in 1..(Len(all) - from) |-> all[from + k]] BY <1>1
<1> HIDE DEF all, from
<1>7. r \in Seq(Toasts) /\ DOMAIN r = 1..(Len(all) - from) BY <1>4, <1>5, <1>6
<1>8. ASSUME NEW t, t \notin T PROVE Copies(r, t) <= Copies(q, t)
  <2> DEFINE h == [k \in DOMAIN r |-> from + k]
  <2>1. \A k \in Positions(r, t) : h[k] \in Positions(q, t)
    <3> SUFFICES ASSUME NEW k \in Positions(r, t) PROVE h[k] \in Positions(q, t) OBVIOUS
    <3>1. k \in 1..(Len(all) - from) /\ all[from + k] = t BY <1>6, <1>7 DEF Positions
    <3>2. from + k \in 1..Len(q) BY <1>4, <1>5, <1>8, <3>1
    <3>3. h[k] = from + k BY <1>7, <3>1
    <3> QED BY <1>4, <3>1, <3>2, <3>3 DEF Positions
  <2>2. \A j, k \in Positions(r, t) : h[j] = h[k] => j = k
    BY <1>4, <1>5, <1>7 DEF Positions
  <2> HIDE DEF h
  <2> QED BY <1>7, <2>1, <2>2, CopiesMapped
<1> QED BY <1>7, <1>8

(* There are finitely many toasts for finitely many things.                *)
LEMMA TaggedFinite ==
  ASSUME NEW S, IsFiniteSet(S), NEW tag PROVE IsFiniteSet([type : {tag}, id : S])
<1> DEFINE T == [type : {tag}, id : S]
           f == [x \in S |-> [type |-> tag, id |-> x]]
<1>1. \A t \in T : t.id \in S /\ f[t.id] = t OBVIOUS
<1>2. \A x \in S : f[x] \in T OBVIOUS
<1>3. f \in Surjection(S, T)
  <2>1. f \in [S -> T] BY <1>2
  <2> HIDE DEF f, T
  <2> QED BY <1>1, <2>1 DEF Surjection
<1>4. IsFiniteSet(T)
  <2> HIDE DEF f, T
  <2> QED BY <1>3, FS_Surjection
<1> QED BY <1>4

(* While the map is shown it has seen every alert that it has had.         *)
ToastInv == toasts \in Seq(Toasts) /\ (mounted => told \subseteq seen)

ToastStep ==
  mounted /\ mounted' =>
    \A i \in Incidents : LET t == [type |-> "INCIDENT", id |-> i] IN
      Copies(toasts', t) > Copies(toasts, t) => i \notin told

(* What leaves no toast twice keeps the invariant.                         *)
LEMMA FewerKeeps ==
  ASSUME ToastInv, UNCHANGED <<mounted, seen, told>>, toasts' \in Seq(Toasts),
         \A t : Copies(toasts', t) <= Copies(toasts, t)
  PROVE  ToastInv' /\ ToastStep
<1>1. \A t : Copies(toasts', t) \in Nat /\ Copies(toasts, t) \in Nat
  BY CopiesCounted DEF ToastInv
<1> QED BY <1>1 DEF ToastInv, ToastStep

LEMMA SameKeeps == ASSUME ToastInv, UNCHANGED mapVars PROVE ToastInv' /\ ToastStep
<1>1. \A t : Copies(toasts', t) \in Nat /\ Copies(toasts, t) \in Nat
             /\ Copies(toasts', t) = Copies(toasts, t)
  BY CopiesCounted DEF ToastInv, mapVars
<1> QED BY <1>1 DEF ToastInv, ToastStep, mapVars

LEMMA EffectsKeep ==
  ASSUME MapAssumption, ToastInv, mounted' = mounted, Effects
  PROVE  ToastInv' /\ ToastStep
<1>1. CASE ~mounted
  BY <1>1 DEF Effects, ToastInv, ToastStep
<1>2. CASE mounted
  <2> DEFINE fresh == alerts' \ seen
             new == [type : {"INCIDENT"}, id : fresh]
             ml == [type : {"ML_ANOMALY"}, id : Flagged']
  <2>1. seen' = seen \cup fresh /\ told' = told \cup alerts'
    BY <1>2 DEF Effects, SeenWith
  <2>2. PICK q \in Pushed(toasts, new) : toasts' \in Pushed(q, ml)
    BY <1>2 DEF Effects
  <2>3. fresh \in SUBSET Incidents /\ Flagged' \in SUBSET Gates BY DEF alerts, Flagged
  <2>4. new \in SUBSET Toasts /\ ml \in SUBSET Toasts BY <2>3 DEF Toasts
  <2>5. IsFiniteSet(new) /\ IsFiniteSet(ml) /\ MaxToasts \in Nat \ {0}
    <3>1. IsFiniteSet(fresh) /\ IsFiniteSet(Flagged')
      <4> HIDE DEF fresh
      <4> QED BY <2>3, FS_Subset DEF MapAssumption
    <3> QED BY <3>1, TaggedFinite DEF MapAssumption
  <2>6. /\ \A i \in told : [type |-> "INCIDENT", id |-> i] \notin new
        /\ \A i : [type |-> "INCIDENT", id |-> i] \notin ml
    <3>1. \A i \in told : i \notin fresh BY <1>2 DEF ToastInv
    <3> HIDE DEF fresh
    <3>2. \A i : [type |-> "INCIDENT", id |-> i] \in new => i \in fresh
      <4> SUFFICES ASSUME NEW i, [type |-> "INCIDENT", id |-> i] \in new PROVE i \in fresh
        OBVIOUS
      <4>1. [type |-> "INCIDENT", id |-> i].id \in fresh OBVIOUS
      <4> QED BY <4>1
    <3>3. ASSUME NEW i PROVE [type |-> "INCIDENT", id |-> i] \notin ml
      <4> SUFFICES ASSUME [type |-> "INCIDENT", id |-> i] \in ml PROVE FALSE OBVIOUS
      <4>1. [type |-> "INCIDENT", id |-> i].type = "ML_ANOMALY" OBVIOUS
      <4> QED BY <4>1
    <3> HIDE DEF new, ml
    <3> QED BY <3>1, <3>2, <3>3
  <2> HIDE DEF new, ml
  <2>7. q \in Seq(Toasts) /\ \A t : t \notin new => Copies(q, t) <= Copies(toasts, t)
    BY <2>2, <2>4, <2>5, PushedFewer DEF ToastInv
  <2>8. toasts' \in Seq(Toasts) /\ \A t : t \notin ml => Copies(toasts', t) <= Copies(q, t)
    BY <2>2, <2>4, <2>5, <2>7, PushedFewer
  <2>9. \A t : /\ Copies(toasts, t) \in Nat /\ Copies(q, t) \in Nat
               /\ Copies(toasts', t) \in Nat
    BY <2>7, <2>8, CopiesCounted DEF ToastInv
  <2>10. \A i \in told : Copies(toasts', [type |-> "INCIDENT", id |-> i])
                           <= Copies(toasts, [type |-> "INCIDENT", id |-> i])
    <3> TAKE i \in told
    <3> DEFINE t == [type |-> "INCIDENT", id |-> i]
    <3>1. t \notin new /\ t \notin ml BY <2>6
    <3> HIDE DEF t
    <3>2. Copies(toasts', t) <= Copies(toasts, t) BY <2>7, <2>8, <2>9, <3>1
    <3> QED BY <3>2 DEF t
  <2>11. ToastStep BY <2>9, <2>10 DEF ToastStep
  <2>12. told' \subseteq seen' BY <1>2, <2>1 DEF ToastInv
  <2> QED BY <2>8, <2>11, <2>12 DEF ToastInv
<1> QED BY <1>1, <1>2

(* A change that only some toasts leave.                                   *)
LEMMA WithoutKeeps ==
  ASSUME ToastInv, UNCHANGED <<mounted, seen, told>>, NEW T, toasts' = Without(toasts, T)
  PROVE  ToastInv' /\ ToastStep
BY WithoutFewer, FewerKeeps DEF ToastInv

LEMMA DroppedKeeps ==
  ASSUME ToastInv, UNCHANGED <<mounted, seen, told>>, NEW k \in DOMAIN toasts,
         toasts' = Dropped(k)
  PROVE  ToastInv' /\ ToastStep
BY DroppedFewer, FewerKeeps DEF ToastInv

LEMMA ContextToasts ==
  ASSUME MapAssumption, ToastInv, Context PROVE ToastInv' /\ ToastStep
<1>1. ASSUME NEW g \in Gates, GatesChange(g) \/ EventArrives(g) PROVE ToastInv' /\ ToastStep
  BY <1>1, EffectsKeep DEF GatesChange, EventArrives
<1>2. ASSUME NEW g \in Gates, WindowSlides(g) PROVE ToastInv' /\ ToastStep
  BY <1>2, SameKeeps DEF WindowSlides
<1>3. ASSUME NEW i \in Incidents, EdgeIncident(i) \/ ServerSettles(i) \/ QueueSettles(i)
      PROVE  ToastInv' /\ ToastStep
  BY <1>3, SameKeeps DEF EdgeIncident, ServerSettles, QueueSettles
<1>4. CASE IncidentsLoaded BY <1>4, EffectsKeep DEF IncidentsLoaded
<1>5. CASE QueueSettlesAll BY <1>5, SameKeeps DEF QueueSettlesAll
<1> QED BY <1>1, <1>2, <1>3, <1>4, <1>5 DEF Context

LEMMA CommandToasts ==
  ASSUME ToastInv, NEW c \in Commands, Command(c) PROVE ToastInv' /\ ToastStep
<1>1. UNCHANGED mapVars
  BY DEF Command, CommandAccepted, CommandRefused, Tick, ServerSide, PollAnswered, PollFails
<1> QED BY <1>1, SameKeeps

LEMMA UserToasts ==
  ASSUME MapAssumption, ToastInv, User PROVE ToastInv' /\ ToastStep
<1>1. CASE Mount
  <2> DEFINE ml == [type : {"ML_ANOMALY"}, id : Flagged]
  <2>1. Flagged \in SUBSET Gates BY DEF Flagged
  <2>2. IsFiniteSet(Flagged) BY <2>1, FS_Subset DEF MapAssumption
  <2>3. ml \in SUBSET Toasts /\ IsFiniteSet(ml) BY <2>1, <2>2, TaggedFinite DEF Toasts
  <2>4. toasts' \in Pushed(<<>>, ml) /\ seen' = alerts /\ told' = alerts /\ ~mounted
    BY <1>1 DEF Mount
  <2> HIDE DEF ml
  <2>5. toasts' \in Seq(Toasts)
    <3>1. <<>> \in Seq(Toasts) OBVIOUS
    <3> QED BY <2>3, <2>4, <3>1, PushedFewer DEF MapAssumption
  <2> QED BY <2>4, <2>5 DEF ToastInv, ToastStep
<1>2. CASE Unmount BY <1>2 DEF Unmount, ToastInv, ToastStep
<1>3. CASE resolveAllIncidents
  <2>1. toasts' = <<>> /\ UNCHANGED <<mounted, seen, told>> BY <1>3 DEF resolveAllIncidents
  <2>2. toasts' \in Seq(Toasts) BY <2>1
  <2>3. ASSUME NEW t PROVE Copies(toasts', t) <= Copies(toasts, t)
    <3>1. Positions(toasts', t) = {} BY <2>1 DEF Positions
    <3>2. Copies(toasts', t) = 0 BY <2>2, <3>1, CopiesCounted, FS_EmptySet
    <3>3. Copies(toasts, t) \in Nat BY CopiesCounted DEF ToastInv
    <3> QED BY <3>2, <3>3
  <2> QED BY <2>1, <2>2, <2>3, FewerKeeps
<1>4. ASSUME NEW g \in Gates, handleToggleBarrierArm(g) \/ handleEmergencyLock(g)
      PROVE  ToastInv' /\ ToastStep
  BY <1>4, EffectsKeep DEF handleToggleBarrierArm, handleEmergencyLock, SendPending
<1>5. ASSUME NEW g \in Gates, handleRecordTestPassage(g) PROVE ToastInv' /\ ToastStep
  BY <1>5, EffectsKeep DEF handleRecordTestPassage, EventArrives
<1>6. CASE CloseInspector \/ handleApplyAction \/ \E g \in Gates : Inspect(g)
  BY <1>6, SameKeeps DEF CloseInspector, handleApplyAction, Inspect
<1>7. ASSUME NEW i, resolveBarrierIncident(i) PROVE ToastInv' /\ ToastStep
  <2>1. UNCHANGED <<mounted, seen, told>>
        /\ toasts' = Without(toasts, [type : {"INCIDENT"}, id : {i}])
    BY <1>7 DEF resolveBarrierIncident
  <2> QED BY <2>1, WithoutKeeps
<1>8. ASSUME NEW k \in DOMAIN toasts, \/ dismissInAppToast(k) \/ QuickFix(k)
                                      \/ MitigateFromToast(k) \/ AnalyzeFromToast(k)
      PROVE  ToastInv' /\ ToastStep
  <2>1. \/ resolveBarrierIncident(toasts[k].id)
        \/ UNCHANGED <<mounted, seen, told>>
           /\ (toasts' = Dropped(k) \/ toasts' = Without(toasts, {toasts[k]}))
    BY <1>8 DEF dismissInAppToast, QuickFix, MitigateFromToast, AnalyzeFromToast
  <2> QED BY <1>7, <2>1, WithoutKeeps, DroppedKeeps
<1> QED BY <1>1, <1>2, <1>3, <1>4, <1>5, <1>6, <1>7, <1>8 DEF User, Resolve

LEMMA TimerToasts ==
  ASSUME MapAssumption, ToastInv, Timer PROVE ToastInv' /\ ToastStep
<1>1. ASSUME NEW g \in Gates, PendingTimer(g) PROVE ToastInv' /\ ToastStep
  BY <1>1, EffectsKeep, SameKeeps DEF PendingTimer
<1>2. CASE ActionApplied
  <2>1. /\ UNCHANGED <<mounted, seen, told>>
        /\ \/ toasts' = toasts
           \/ toasts' = Without(toasts, [type : {"ML_ANOMALY"}, id : {applying}])
    BY <1>2 DEF ActionApplied, handleMitigateAnomaly
  <2>2. CASE toasts' = toasts
    <3>1. \A t : Copies(toasts', t) <= Copies(toasts, t)
      BY <2>2, CopiesCounted DEF ToastInv
    <3> QED BY <2>1, <2>2, <3>1, FewerKeeps DEF ToastInv
  <2> QED BY <2>1, <2>2, WithoutKeeps
<1> QED BY <1>1, <1>2 DEF Timer

(* However often the incidents are loaded, resolved or opened again while  *)
(* the map is shown, an alert it has had is not toasted again              *)
(* (seenIncidentIdsRef of BarrierMapVisualization.tsx, ToastedOnce).       *)
THEOREM AlertsToldOnce == Spec => ToastedOnce
<1>1. Init => ToastInv BY DEF Init, ToastInv
<1>2. ToastInv /\ [Next]_vars => ToastInv' /\ [ToastStep]_vars
  <2> SUFFICES ASSUME ToastInv, [Next]_vars PROVE ToastInv' /\ [ToastStep]_vars OBVIOUS
  <2>1. CASE UNCHANGED vars BY <2>1, SameKeeps DEF vars
  <2>2. CASE Next
    BY <2>2, ContextToasts, CommandToasts, UserToasts, TimerToasts, MapAssumption DEF Next
  <2> QED BY <2>1, <2>2
<1>3. ToastInv /\ [Next]_vars
        => [mounted /\ mounted' =>
              \A i \in Incidents : LET t == [type |-> "INCIDENT", id |-> i] IN
                Copies(toasts', t) > Copies(toasts, t) => i \notin told]_vars
  BY <1>2 DEF ToastStep
<1> QED BY <1>1, <1>2, <1>3, PTL DEF Spec, ToastedOnce

-----------------------------------------------------------------------------
(* The parking map: the counts of the zones and the list of the vehicles.  *)

ZoneCounts(m) ==
  /\ m = [z \in DOMAIN m |-> m[z]]
  /\ \A z \in DOMAIN m :
       m[z] = [count |-> m[z].count, covered |-> m[z].covered] /\ m[z].count \in Nat

(* A vehicle is listed once.                                               *)
VehicleList(rows) ==
  /\ IsFiniteSet(rows)
  /\ \A p \in rows : p = [car |-> p.car, zone |-> p.zone]
  /\ \A p, q \in rows : p.car = q.car => p = q

LotInv ==
  /\ ZoneCounts(parkingMap) /\ VehicleList(parkingPresences)
  /\ \A r \in mapLoads :
       /\ r = [n |-> r.n, map |-> r.map, rows |-> r.rows]
       /\ r.map.served => ZoneCounts(r.map.out)
       /\ r.rows.served => VehicleList(r.rows.out)

LEMMA AnswersTyped ==
  ASSUME ParkingAssumption
  PROVE  ZoneCounts(MapOut) /\ VehicleList(PresenceOut)
<1>1. ZoneCounts(MapOut)
  <2>1. ASSUME NEW z \in zones PROVE Cardinality(In(z)) \in Nat
    <3>1. In(z) \subseteq Cars BY DEF In
    <3> QED BY <3>1, FS_Subset, FS_CardinalityType DEF ParkingAssumption
  <2>2. DOMAIN MapOut = zones BY DEF MapOut
  <2>3. \A z \in zones : MapOut[z] = [count |-> Cardinality(In(z)), covered |-> z \in covered]
    BY DEF MapOut
  <2>4. MapOut = [z \in DOMAIN MapOut |-> MapOut[z]] BY DEF MapOut
  <2> QED BY <2>1, <2>2, <2>3, <2>4 DEF ZoneCounts
<1>2. VehicleList(PresenceOut)
  <2> DEFINE parked == {d \in Cars : lot[d].status = "parked"}
             f == [c \in parked |-> [car |-> c, zone |-> lot[c].zone]]
  <2>1. IsFiniteSet(parked) BY FS_Subset DEF ParkingAssumption
  <2>2. PresenceOut = {f[c] : c \in parked} BY DEF PresenceOut
  <2>3. f \in Surjection(parked, PresenceOut) BY <2>2 DEF Surjection
  <2>4. IsFiniteSet(PresenceOut)
    <3> HIDE DEF f, parked
    <3> QED BY <2>1, <2>3, FS_Surjection
  <2>5. \A p \in PresenceOut : p = [car |-> p.car, zone |-> lot[p.car].zone] BY DEF PresenceOut
  <2>6. \A p, q \in PresenceOut : p.car = q.car => p = q BY <2>5
  <2>7. \A p \in PresenceOut : p = [car |-> p.car, zone |-> p.zone] BY <2>5
  <2> QED BY <2>4, <2>6, <2>7 DEF VehicleList
<1> QED BY <1>1, <1>2

LEMMA LotUntouched ==
  ASSUME LotInv, parkingMap' = parkingMap, parkingPresences' = parkingPresences,
         mapLoads' \subseteq mapLoads
  PROVE  LotInv'
BY DEF LotInv, ZoneCounts, VehicleList

LEMMA RefreshKeepsLot ==
  ASSUME LotInv, parkingMap' = parkingMap, parkingPresences' = parkingPresences,
         refreshParkingMap
  PROVE  LotInv'
<1>1. PICK n : mapLoads' = mapLoads \cup {[n |-> n, map |-> Unserved, rows |-> Unserved]}
  BY DEF refreshParkingMap
<1>2. ~Unserved.served BY DEF Unserved
<1>3. ASSUME NEW r \in mapLoads'
      PROVE  /\ r = [n |-> r.n, map |-> r.map, rows |-> r.rows]
             /\ r.map.served => ZoneCounts(r.map.out)
             /\ r.rows.served => VehicleList(r.rows.out)
  <2>1. CASE r \in mapLoads BY <2>1 DEF LotInv
  <2>2. CASE r = [n |-> n, map |-> Unserved, rows |-> Unserved] BY <1>2, <2>2
  <2> QED BY <1>1, <2>1, <2>2
<1> QED BY <1>3 DEF LotInv, ZoneCounts, VehicleList

LEMMA LoadKeepsLot ==
  ASSUME ParkingAssumption, LotInv, NEW r \in mapLoads, MapLoadServed(r) \/ MapLoadEnds(r)
  PROVE  LotInv'
<1>1. /\ r = [n |-> r.n, map |-> r.map, rows |-> r.rows]
      /\ r.map.served => ZoneCounts(r.map.out)
      /\ r.rows.served => VehicleList(r.rows.out)
  BY DEF LotInv
<1>2. CASE MapLoadEnds(r)
  <2>1. mapLoads' \subseteq mapLoads BY <1>2 DEF MapLoadEnds
  <2>2. CASE UNCHANGED <<parkingMap, parkingPresences>> BY <2>1, <2>2, LotUntouched
  <2>3. CASE r.map.served /\ r.rows.served /\ parkingMap' = r.map.out
             /\ parkingPresences' = r.rows.out
    BY <1>1, <2>1, <2>3 DEF LotInv, ZoneCounts, VehicleList
  <2> QED BY <1>2, <2>2, <2>3 DEF MapLoadEnds
<1>3. CASE MapLoadServed(r)
  <2> DEFINE counts == [served |-> TRUE, out |-> MapOut]
             list == [served |-> TRUE, out |-> PresenceOut]
  <2>1. counts.served /\ counts.out = MapOut /\ list.served /\ list.out = PresenceOut OBVIOUS
  <2>2. PICK a : /\ a = [r EXCEPT !.map = counts] \/ a = [r EXCEPT !.rows = list]
                 /\ mapLoads' = (mapLoads \ {r}) \cup {a}
    BY <1>3 DEF MapLoadServed
  <2>3. UNCHANGED <<parkingMap, parkingPresences>> BY <1>3 DEF MapLoadServed
  <2> HIDE DEF counts, list
  <2>4. \/ a = [n |-> r.n, map |-> counts, rows |-> r.rows]
        \/ a = [n |-> r.n, map |-> r.map, rows |-> list]
    BY <1>1, <2>2
  <2>5. /\ a = [n |-> a.n, map |-> a.map, rows |-> a.rows]
        /\ a.map.served => ZoneCounts(a.map.out)
        /\ a.rows.served => VehicleList(a.rows.out)
    BY <1>1, <2>1, <2>4, AnswersTyped
  <2> QED BY <2>2, <2>3, <2>5 DEF LotInv, ZoneCounts, VehicleList
<1> QED BY <1>2, <1>3

-----------------------------------------------------------------------------
(* A frame.                                                                *)

ListedIn(rows, z) == {p \in rows : p.zone = z}

(* A vehicle has one row or none.                                          *)
LEMMA OneRow ==
  ASSUME LotInv, NEW c
  PROVE  \/ RowsOf(c) = {} /\ {p.zone : p \in RowsOf(c)} = {}
         \/ \E p \in parkingPresences :
              p.car = c /\ RowsOf(c) = {p} /\ {q.zone : q \in RowsOf(c)} = {p.zone}
<1>1. CASE RowsOf(c) = {} BY <1>1
<1>2. CASE RowsOf(c) # {}
  <2>1. PICK p : p \in RowsOf(c) BY <1>2
  <2>2. p \in parkingPresences /\ p.car = c BY <2>1 DEF RowsOf
  <2>3. \A q \in RowsOf(c) : q = p BY <2>2 DEF RowsOf, LotInv, VehicleList
  <2>4. RowsOf(c) = {p} BY <2>1, <2>3
  <2> QED BY <2>2, <2>4
<1> QED BY <1>1, <1>2

LEMMA FrameKeepsLot == ASSUME LotInv, vehicle_location PROVE LotInv'
<1> DEFINE f == Head(frames)
           d(z) == Deltas(f, z)
<1>1. \A z : d(z) \in {-1, 0, 1} BY DEF Deltas, Delta
<1>2. parkingMap' = [z \in DOMAIN parkingMap |->
                       [parkingMap[z] EXCEPT !.count = Bumped(@, d(z))]]
  BY DEF vehicle_location
<1>3. mapLoads' = mapLoads BY DEF vehicle_location
<1>4. PICK new : /\ new \in {{}, {[car |-> f.car, zone |-> f.zone]}}
                 /\ parkingPresences' = (parkingPresences \ RowsOf(f.car)) \cup new
  BY DEF vehicle_location
<1> HIDE DEF f, d
<1>5. ZoneCounts(parkingMap')
  <2>1. DOMAIN parkingMap' = DOMAIN parkingMap BY <1>2
  <2>2. parkingMap' = [z \in DOMAIN parkingMap' |-> parkingMap'[z]] BY <1>2
  <2>3. ASSUME NEW z \in DOMAIN parkingMap
        PROVE  parkingMap'[z] = [count |-> parkingMap'[z].count, covered |-> parkingMap'[z].covered]
               /\ parkingMap'[z].count \in Nat
    <3> DEFINE k == Bumped(parkingMap[z].count, d(z))
    <3>1. parkingMap[z].count \in Nat
          /\ parkingMap[z] = [count |-> parkingMap[z].count, covered |-> parkingMap[z].covered]
      BY DEF LotInv, ZoneCounts
    <3>2. k \in Nat BY <1>1, <3>1 DEF Bumped
    <3>3. parkingMap'[z] = [parkingMap[z] EXCEPT !.count = k] BY <1>2
    <3> HIDE DEF k
    <3>4. parkingMap'[z] = [count |-> k, covered |-> parkingMap[z].covered] BY <3>1, <3>3
    <3> QED BY <3>2, <3>4
  <2> QED BY <2>1, <2>2, <2>3 DEF ZoneCounts
<1>6. VehicleList(parkingPresences')
  <2>1. IsFiniteSet(parkingPresences) BY DEF LotInv, VehicleList
  <2>2. IsFiniteSet(parkingPresences \ RowsOf(f.car)) BY <2>1, FS_Subset
  <2>3. IsFiniteSet(parkingPresences')
    <3>1. CASE new = {} BY <1>4, <2>2, <3>1
    <3>2. CASE new = {[car |-> f.car, zone |-> f.zone]} BY <1>4, <2>2, <3>2, FS_AddElement
    <3> QED BY <1>4, <3>1, <3>2
  <2>4. \A p \in parkingPresences' :
          \/ p \in parkingPresences /\ p.car # f.car
          \/ p = [car |-> f.car, zone |-> f.zone]
    BY <1>4 DEF RowsOf
  <2>5. \A p \in parkingPresences' : p = [car |-> p.car, zone |-> p.zone]
    BY <2>4 DEF LotInv, VehicleList
  <2>6. \A p, q \in parkingPresences' : p.car = q.car => p = q
    BY <2>4 DEF LotInv, VehicleList
  <2> QED BY <2>3, <2>5, <2>6 DEF VehicleList
<1> QED BY <1>3, <1>5, <1>6 DEF LotInv, ZoneCounts, VehicleList

(* What the frame does to a count is what it does to the list.             *)
LEMMA DeltaIsOfList ==
  ASSUME LotInv, vehicle_location, NEW z,
         ~({p.zone : p \in RowsOf(Head(frames).car)} \subseteq {"null"}
             /\ Head(frames).ev = "exited")
  PROVE  LET n == Cardinality(ListedIn(parkingPresences, z))
         IN  /\ n \in Nat
             /\ n + Deltas(Head(frames), z) = Cardinality(ListedIn(parkingPresences', z))
             /\ n + Deltas(Head(frames), z) \in Nat
<1> DEFINE f == Head(frames)
           prev == {p.zone : p \in RowsOf(f.car)}
           new == [car |-> f.car, zone |-> f.zone]
           d == Deltas(f, z)
           before == ListedIn(parkingPresences, z)
           after == ListedIn(parkingPresences', z)
<1>1. parkingPresences' = (parkingPresences \ RowsOf(f.car)) \cup
                             (IF f.ev = "exited" THEN {} ELSE {new})
  BY DEF vehicle_location
<1>2. d = IF f.ev = "exited"
          THEN IF z \in (IF prev \subseteq {"null"} THEN {f.zone} ELSE prev) THEN -1 ELSE 0
          ELSE IF prev = {f.zone} THEN 0
               ELSE (IF z = f.zone THEN 1 ELSE 0) - (IF z \in prev THEN 1 ELSE 0)
  BY DEF Deltas, Delta
<1>3. IsFiniteSet(before)
  BY FS_Subset DEF LotInv, VehicleList, ListedIn
<1>4. ~(prev \subseteq {"null"} /\ f.ev = "exited") OBVIOUS
<1>5. new.car = f.car /\ new.zone = f.zone OBVIOUS
<1>6. \/ RowsOf(f.car) = {} /\ prev = {}
      \/ \E p \in parkingPresences :
           p.car = f.car /\ RowsOf(f.car) = {p} /\ prev = {p.zone}
  BY OneRow
<1>7. \A p \in parkingPresences : p = [car |-> p.car, zone |-> p.zone]
  BY DEF LotInv, VehicleList
<1>8. \/ after = before /\ d = 0
      \/ after = before \cup {new} /\ new \notin before /\ d = 1
      \/ \E p \in before : after = before \ {p} /\ d = -1
  <2> HIDE DEF f, new, prev, d
  <2>1. CASE RowsOf(f.car) = {} /\ prev = {}
    <3>1. f.ev # "exited" BY <1>4, <2>1
    <3>2. parkingPresences' = parkingPresences \cup {new} BY <1>1, <2>1, <3>1
    <3>3. new \notin parkingPresences BY <1>5, <2>1 DEF RowsOf
    <3>4. d = IF z = f.zone THEN 1 ELSE 0 BY <1>2, <2>1, <3>1
    <3> QED BY <1>5, <3>2, <3>3, <3>4 DEF ListedIn
  <2>2. ASSUME NEW p \in parkingPresences, p.car = f.car, RowsOf(f.car) = {p}, prev = {p.zone}
        PROVE  \/ after = before /\ d = 0
               \/ after = before \cup {new} /\ new \notin before /\ d = 1
               \/ \E q \in before : after = before \ {q} /\ d = -1
    <3>1. CASE f.ev = "exited"
      <4>1. p.zone # "null" BY <1>4, <2>2, <3>1
      <4>2. parkingPresences' = parkingPresences \ {p} BY <1>1, <2>2, <3>1
      <4>3. d = IF z = p.zone THEN -1 ELSE 0 BY <1>2, <2>2, <3>1, <4>1
      <4> QED BY <4>2, <4>3 DEF ListedIn
    <3>2. CASE f.ev # "exited" /\ p.zone = f.zone
      <4>1. p = new BY <1>7, <2>2, <3>2 DEF new
      <4>2. parkingPresences' = parkingPresences BY <1>1, <2>2, <3>2, <4>1
      <4>3. d = 0 BY <1>2, <2>2, <3>2
      <4> QED BY <4>2, <4>3 DEF ListedIn
    <3>3. CASE f.ev # "exited" /\ p.zone # f.zone
      <4>1. parkingPresences' = (parkingPresences \ {p}) \cup {new} BY <1>1, <2>2, <3>3
      <4>2. new \notin parkingPresences BY <1>5, <2>2, <3>3 DEF RowsOf
      <4>3. d = (IF z = f.zone THEN 1 ELSE 0) - (IF z = p.zone THEN 1 ELSE 0)
        BY <1>2, <2>2, <3>3
      <4>4. CASE z = f.zone BY <1>5, <3>3, <4>1, <4>2, <4>3, <4>4 DEF ListedIn
      <4>5. CASE z = p.zone BY <1>5, <3>3, <4>1, <4>2, <4>3, <4>5 DEF ListedIn
      <4>6. CASE z # f.zone /\ z # p.zone BY <1>5, <4>1, <4>3, <4>6 DEF ListedIn
      <4> QED BY <4>4, <4>5, <4>6
    <3> QED BY <3>1, <3>2, <3>3
  <2> QED BY <1>6, <2>1, <2>2
<1> DEFINE n == Cardinality(before)
<1>9. n \in Nat BY <1>3, FS_CardinalityType
<1>10. n + d = Cardinality(after) /\ n + d \in Nat
  <2> HIDE DEF before, after, new, d
  <2>1. CASE after = before /\ d = 0 BY <1>9, <2>1
  <2>2. CASE after = before \cup {new} /\ new \notin before /\ d = 1
    <3>1. Cardinality(before \cup {new}) = n + 1 BY <1>3, <2>2, FS_AddElement
    <3> QED BY <1>9, <2>2, <3>1
  <2>3. ASSUME NEW p \in before, after = before \ {p}, d = -1
        PROVE  n + d = Cardinality(after) /\ n + d \in Nat
    <3>1. Cardinality(before \ {p}) = n - 1 /\ IsFiniteSet(before \ {p})
      BY <1>3, <2>3, FS_RemoveElement
    <3>2. Cardinality(after) \in Nat BY <2>3, <3>1, FS_CardinalityType
    <3> QED BY <1>9, <2>3, <3>1, <3>2
  <2> QED BY <1>8, <2>1, <2>2, <2>3
<1> QED BY <1>9, <1>10

LEMMA FrameShrinks ==
  ASSUME LotInv, vehicle_location, NEW z \in DOMAIN parkingMap,
         ~({p.zone : p \in RowsOf(Head(frames).car)} \subseteq {"null"}
             /\ Head(frames).ev = "exited")
  PROVE  Drift(parkingMap', parkingPresences', z) <= Drift(parkingMap, parkingPresences, z)
<1> DEFINE d == Deltas(Head(frames), z)
           n == Cardinality(ListedIn(parkingPresences, z))
           k == parkingMap[z].count
           after == Cardinality(ListedIn(parkingPresences', z))
<1>1. d \in {-1, 0, 1} BY DEF Deltas, Delta
<1>2. n \in Nat /\ after = n + d /\ after \in Nat BY DeltaIsOfList
<1>3. k \in Nat /\ parkingMap[z] = [count |-> k, covered |-> parkingMap[z].covered]
  BY DEF LotInv, ZoneCounts
<1>4. parkingMap'[z] = [parkingMap[z] EXCEPT !.count = Bumped(@, d)] BY DEF vehicle_location
<1>5. parkingMap'[z].count = Bumped(k, d)
  <2> HIDE DEF d
  <2> QED BY <1>3, <1>4
<1>6. Drift(parkingMap, parkingPresences, z) = IF k - n < 0 THEN -(k - n) ELSE k - n
  BY DEF Drift, ListedIn
<1>7. Drift(parkingMap', parkingPresences', z)
        = IF Bumped(k, d) - after < 0 THEN -(Bumped(k, d) - after) ELSE Bumped(k, d) - after
  BY <1>5 DEF Drift, ListedIn
<1>8. Bumped(k, d) = IF k + d < 0 THEN 0 ELSE k + d BY DEF Bumped
<1> HIDE DEF d, n, k, after
<1> QED BY <1>1, <1>2, <1>3, <1>6, <1>7, <1>8

LEMMA LotInvariant == ParkingSpec => []LotInv
<1>1. ASSUME NEW canWrite, ParkingInit(canWrite) PROVE LotInv
  <2>1. parkingMap = MapOut /\ parkingPresences = {} /\ mapLoads = {} BY <1>1 DEF ParkingInit
  <2>2. VehicleList({}) BY FS_EmptySet DEF VehicleList
  <2> QED BY <2>1, <2>2, AnswersTyped, ParkingAssumption DEF LotInv
<1>2. LotInv /\ [ParkingNext]_<<lotPageVars, levelVars>> => LotInv'
  <2> SUFFICES ASSUME LotInv, [ParkingNext]_<<lotPageVars, levelVars>> PROVE LotInv' OBVIOUS
  <2>1. ASSUME UNCHANGED liveVars PROVE LotInv' BY <2>1, LotUntouched DEF liveVars
  <2>2. CASE UNCHANGED lotPageVars BY <2>1, <2>2 DEF lotPageVars
  <2>3. CASE ParkingStep
    <3>1. ASSUME NEW c \in Cars, handle_detection(c) \/ Unannounced(c) PROVE LotInv'
      BY <2>1, <3>1 DEF handle_detection, Unannounced
    <3>2. CASE vehicle_location BY <3>2, FrameKeepsLot
    <3>3. CASE \E r \in mapLoads : MapLoadServed(r) \/ MapLoadEnds(r)
      BY <3>3, LoadKeepsLot, ParkingAssumption
    <3>4. CASE Refresh BY <3>4, RefreshKeepsLot DEF Refresh
    <3>5. ASSUME NEW m, Page(m) PROVE LotInv' BY <2>1, <3>5 DEF Page
    <3>6. CASE ToggleEdit \/ onZoneDrawn \/ ClosePopover \/ handleLocate \/ LocateAnswered
      BY <3>5, <3>6 DEF ToggleEdit, onZoneDrawn, ClosePopover, handleLocate, LocateAnswered
    <3>7. CASE toggleCamera \/ CloseZoneSheet \/ \E z \in Zones : onZoneClick(z)
      BY <3>5, <3>7 DEF toggleCamera, CloseZoneSheet, onZoneClick
    <3>8. ASSUME NEW z \in Zones, removeParkingZone(z) PROVE LotInv'
      <4>1. UNCHANGED <<parkingMap, parkingPresences>> BY <3>8 DEF removeParkingZone
      <4>2. refreshParkingMap \/ mapLoads' = mapLoads BY <3>8 DEF removeParkingZone
      <4> QED BY <4>1, <4>2, RefreshKeepsLot, LotUntouched
    <3>9. CASE handleSubmitZone \/ handleDelete
      BY <2>1, <3>9 DEF handleSubmitZone, handleDelete
    <3>10. ASSUME NEW s \in saves, ZoneSaved(s) \/ CoverageSaved(s) \/ SaveFails(s) PROVE LotInv'
      BY <2>1, <3>10 DEF ZoneSaved, CoverageSaved, SaveFails
    <3>11. ASSUME NEW s \in saves, SaveDone(s) PROVE LotInv'
      BY <3>11, RefreshKeepsLot DEF SaveDone
    <3> QED BY <2>3, <3>1, <3>2, <3>3, <3>4, <3>6, <3>7, <3>8, <3>9, <3>10, <3>11 DEF ParkingStep
  <2> QED BY <2>2, <2>3 DEF ParkingNext
<1>3. (\E canWrite \in BOOLEAN : ParkingInit(canWrite)) => LotInv BY <1>1
<1> QED BY <1>2, <1>3, PTL DEF ParkingSpec

(* For any number of vehicles and zones and whatever frames were lost: a   *)
(* frame changes a zone's count by what it changes in the list, so the two *)
(* never move further apart (PlatformContext.tsx, vehicle_location).       *)
THEOREM FramesKeepPace == ParkingSpec => DriftShrinks
<1> DEFINE Keeps ==
      vehicle_location =>
        LET f == Head(frames)
        IN  ({p.zone : p \in RowsOf(f.car)} \subseteq {"null"} /\ f.ev = "exited")
            \/ \A z \in DOMAIN parkingMap :
                 Drift(parkingMap', parkingPresences', z) <= Drift(parkingMap, parkingPresences, z)
<1>1. LotInv => Keeps BY FrameShrinks
<1>2. DriftShrinks <=> [][Keeps]_liveVars BY DEF DriftShrinks
<1> QED BY <1>1, <1>2, LotInvariant, PTL
=============================================================================
