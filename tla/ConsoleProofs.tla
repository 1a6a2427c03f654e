---------------------------- MODULE ConsoleProofs ----------------------------
(***************************************************************************)
(* The web console, for any number of flows under way and of tenants: one  *)
(* silent refresh at a time, recovery codes that the server issued, and    *)
(* one socket, of the active tenant.                                       *)
(***************************************************************************)
EXTENDS ConsoleFeed, TLAPS

-----------------------------------------------------------------------------
(* One refresh.                                                            *)

(* The shared promise of refreshOnce is what the requests to the server    *)
(* are counted by.                                                         *)
RefreshInv ==
  \/ refreshing \in {"none", "done", "failed"} /\ refreshes = 0
  \/ refreshing \in {"sent", "ok", "bad"} /\ refreshes = 1

(* A flow that meets a 401 joins the refresh that is under way.            *)
LEMMA AwaitKeeps ==
  ASSUME RefreshInv, NEW f \in Flows, AwaitRefresh(f)
  PROVE  RefreshInv'
<1>1. CASE refreshing = "none"
  BY <1>1 DEF RefreshInv, AwaitRefresh, refreshOnce
<1>2. CASE refreshing # "none"
  BY <1>2 DEF RefreshInv, AwaitRefresh, refreshOnce
<1>3. QED
  BY <1>1, <1>2

(* The other steps of the network.                                         *)
LEMMA NetworkRefresh ==
  ASSUME RefreshInv, Network
  PROVE  RefreshInv'
<1>1. ASSUME NEW f \in Flows, Serve(f) \/ NetworkFails(f) PROVE RefreshInv'
  BY <1>1 DEF Serve, NetworkFails, RefreshInv
<1>2. CASE RefreshServed
  BY <1>2 DEF RefreshServed, RefreshInv
<1>3. CASE RefreshAnswered
  BY <1>3 DEF RefreshAnswered, RefreshInv
<1>4. CASE RefreshForgotten
  BY <1>4 DEF RefreshForgotten, RefreshInv
<1>5. QED
  BY <1>1, <1>2, <1>3, <1>4, AwaitKeeps DEF Network

(* Users, the page and the answers leave the refresh alone, unless the     *)
(* page is left.                                                           *)
LEMMA PageRefresh ==
  ASSUME RefreshInv,
         \/ Load \/ Render \/ ExpireAccess \/ Revoke \/ Visitor \/ Operator
         \/ \E f \in Flows : Apply(f)
         \/ UNCHANGED vars
  PROVE  RefreshInv'
<1>1. CASE Unload
  BY <1>1 DEF Unload, RefreshInv
<1>2. ASSUME UNCHANGED <<refreshing, refreshes>> PROVE RefreshInv'
  BY <1>2 DEF RefreshInv
<1>3. CASE Load \/ Render \/ ExpireAccess \/ Revoke \/ (\E f \in Flows : Apply(f)) \/ UNCHANGED vars
  BY <1>2, <1>3 DEF Load, Render, ExpireAccess, Revoke, Apply, vars, net
<1>4. CASE Visitor
  BY <1>1, <1>2, <1>4 DEF Visitor, PreviewLanding, Navigate, handleCredentialsSubmit,
    handleMfaSubmit, LoginGo, MfaSessionTimer, Starts, net
<1>5. CASE Operator
  BY <1>2, <1>5 DEF Operator, openMfaModal, closeMfaModal, startSetup, ModalGo,
    handleVerifyOtp, handleCompleteEnrollment, handleDisableMfa, handleResetAdmin,
    Impersonate, ExitImpersonation, LoadData, logout, Starts, net
<1>6. QED
  BY <1>3, <1>4, <1>5

(* However many requests of the console meet an expired token at once, one *)
(* silent refresh is under way (refreshOnce in client.ts, OneRefresh).     *)
THEOREM RefreshShared == Spec => []OneRefresh
<1>1. Init => RefreshInv
  BY DEF Init, RefreshInv
<1>2. RefreshInv /\ [Next]_vars => RefreshInv'
  BY NetworkRefresh, PageRefresh DEF Next
<1>3. RefreshInv => OneRefresh
  BY DEF RefreshInv, OneRefresh
<1>4. QED
  BY <1>1, <1>2, <1>3, PTL DEF Spec

-----------------------------------------------------------------------------
(* Recovery codes.                                                         *)

Paths == Flows \cup {"none", "impersonate", "refresh"}
Kinds == {"none", "401", "refused", "ok", "mfa", "gone", "lost"}
AnswerSet == [kind : Kinds, of : Accounts \cup {"none"}, mfa : BOOLEAN]
CallSet == [path : Paths, at : {"idle", "sent", "served", "waiting"},
            retry : BOOLEAN, ans : AnswerSet, here : BOOLEAN]

(* An answer that enables MFA carries codes of an account.                 *)
EnableOK(c) ==
  /\ c.path \in {"none", "enable"}
  /\ c.ans.kind = "ok" => c.ans.of \in Accounts

CallsOK(c) == c \in [Flows -> CallSet] /\ EnableOK(c["enable"])

CodesInv == CallsOK(call) /\ (mstep = 4 => codes \in Accounts)

(* The flows and their first requests.                                     *)
LEMMA FlowValues ==
  /\ "enable" \in Flows /\ "logout" \in Flows /\ "session" \in Flows
  /\ "boot" \in Flows /\ "me" \in Flows
  /\ \A f \in Flows : FirstOf(f) \in Paths /\ (f = "enable" => FirstOf(f) = "enable")
  /\ \A k \in Kinds : Ans(k) \in AnswerSet /\ Ans(k).kind = k
  /\ Idle \in CallSet /\ EnableOK(Idle)
  /\ \A p \in Paths : Sent(p) \in CallSet /\ Sent(p).path = p
                      /\ Sent(p).ans = NoAnswer /\ Sent(p).at = "sent"
  /\ NoAnswer \in AnswerSet /\ NoAnswer.kind # "ok"
<1>1. /\ "enable" \in Flows /\ "logout" \in Flows /\ "session" \in Flows
      /\ "boot" \in Flows /\ "me" \in Flows
  BY DEF Flows
<1>2. \A f \in Flows : FirstOf(f) \in Paths /\ (f = "enable" => FirstOf(f) = "enable")
  BY DEF FirstOf, Paths, Flows
<1>3. NoAnswer \in AnswerSet /\ NoAnswer.kind = "none"
  BY DEF NoAnswer, AnswerSet, Kinds
<1>4. \A k \in Kinds : Ans(k) \in AnswerSet /\ Ans(k).kind = k
  BY DEF Ans, NoAnswer, AnswerSet
<1>5. Idle \in CallSet /\ EnableOK(Idle)
  BY <1>3 DEF Idle, CallSet, EnableOK, Paths
<1>6. \A p \in Paths : Sent(p) \in CallSet /\ Sent(p).path = p
                       /\ Sent(p).ans = NoAnswer /\ Sent(p).at = "sent"
  BY <1>3 DEF Sent, Idle, CallSet
<1>7. QED
  BY <1>1, <1>2, <1>3, <1>4, <1>5, <1>6

(* One call is replaced.                                                   *)
LEMMA CallReplaced ==
  ASSUME NEW c, CallsOK(c), NEW f \in Flows, NEW d \in CallSet,
         f = "enable" => EnableOK(d)
  PROVE  CallsOK([c EXCEPT ![f] = d])
  BY FlowValues DEF CallsOK

(* A flow is started.                                                      *)
LEMMA FlowStarted ==
  ASSUME CallsOK(call), NEW f \in Flows
  PROVE  CallsOK(Started(f))
<1>1. FirstOf(f) \in Paths /\ Sent(FirstOf(f)) \in CallSet
  BY FlowValues
<1>2. f = "enable" => EnableOK(Sent(FirstOf(f)))
  BY FlowValues DEF EnableOK
<1>3. QED
  BY <1>1, <1>2, CallReplaced DEF Started

(* A request is answered.                                                  *)
LEMMA AnswerKeeps ==
  ASSUME CallsOK(call), NEW f \in Flows, NEW ans \in AnswerSet, Answered(f, ans),
         f = "enable" /\ ans.kind = "ok" => ans.of \in Accounts
  PROVE  CallsOK(call')
<1> DEFINE d == [call[f] EXCEPT !.at = "served", !.ans = ans]
<1>1. call[f] \in CallSet
  BY DEF CallsOK
<1>2. d \in CallSet /\ d.path = call[f].path /\ d.ans = ans
  BY <1>1 DEF CallSet
<1>3. f = "enable" => EnableOK(d)
  BY <1>2 DEF CallsOK, EnableOK
<1>4. call' = [call EXCEPT ![f] = d]
  BY DEF Answered, CallsOK
<1> HIDE DEF d
<1>5. QED
  BY <1>2, <1>3, <1>4, CallReplaced

(* The server answers; only an answer of the enabling request, served for  *)
(* an account, is a success of it.                                         *)
LEMMA ServeCodes ==
  ASSUME CallsOK(call), NEW f \in Flows, Serve(f)
  PROVE  CallsOK(call')
<1>1. ASSUME NEW k \in Kinds, Answered(f, Ans(k)), f = "enable" => k # "ok"
      PROVE  CallsOK(call')
  BY <1>1, FlowValues, AnswerKeeps
<1>2. {"401", "refused", "ok", "mfa", "gone"} \subseteq Kinds
  BY DEF Kinds
<1>3. call[f].path # "enable" => f # "enable" \/ call[f].path = "none"
  BY DEF CallsOK, EnableOK
<1>4. ASSUME Unauthorized(f) \/ Refused(f) PROVE CallsOK(call')
  BY <1>1, <1>2, <1>4 DEF Unauthorized, Refused
<1>5. Signed => Account(access) \in Accounts
  BY DEF Signed, Principals, Accounts, Account
<1>6. CASE ServeMe(f)
  <2> DEFINE ans == [kind |-> "ok", of |-> Account(access), mfa |-> Account(access) \in mfaOn]
  <2>1. CASE Signed
    <3>1. ans \in AnswerSet /\ ans.of \in Accounts
      BY <1>2, <1>5, <2>1 DEF AnswerSet
    <3>2. Answered(f, ans)
      BY <1>6, <2>1 DEF ServeMe
    <3> HIDE DEF ans
    <3>3. QED
      BY <3>1, <3>2, AnswerKeeps
  <2>2. CASE ~Signed
    BY <1>4, <1>6, <2>2 DEF ServeMe
  <2>3. QED
    BY <2>1, <2>2
<1>7. CASE ServeData(f)
  BY <1>1, <1>2, <1>3, <1>4, <1>7 DEF ServeData
<1>8. CASE ServeLogin(f)
  BY <1>1, <1>2, <1>3, <1>4, <1>8 DEF ServeLogin
<1>9. CASE ServeVerify(f)
  BY <1>1, <1>2, <1>3, <1>4, <1>9 DEF ServeVerify
<1>10. CASE ServeSession(f)
  BY <1>1, <1>2, <1>3, <1>4, <1>10 DEF ServeSession
<1>11. CASE ServeImpersonate(f)
  BY <1>1, <1>2, <1>3, <1>4, <1>11 DEF ServeImpersonate
<1>12. CASE ServeRefresh(f)
  BY <1>1, <1>2, <1>3, <1>4, <1>12 DEF ServeRefresh
<1>13. CASE ServeLogout(f)
  BY <1>1, <1>2, <1>3, <1>4, <1>13 DEF ServeLogout
<1>14. CASE ServeMfa(f)
  <2>1. CASE Unauthorized(f) \/ Refused(f)
    BY <1>4, <2>1
  <2>2. CASE Signed /\ Answered(f, [Ans("ok") EXCEPT !.of = Account(access)])
    <3> DEFINE ans == [Ans("ok") EXCEPT !.of = Account(access)]
    <3>1. ans \in AnswerSet /\ ans.of \in Accounts
      BY <1>2, <1>5, <2>2, FlowValues DEF AnswerSet
    <3>2. Answered(f, ans)
      BY <2>2
    <3> HIDE DEF ans
    <3>3. QED
      BY <3>1, <3>2, AnswerKeeps
  <2>3. QED
    BY <1>14, <2>1, <2>2 DEF ServeMfa
<1>15. CASE ServeReset(f)
  BY <1>1, <1>2, <1>3, <1>4, <1>15 DEF ServeReset
<1>16. QED
  BY <1>6, <1>7, <1>8, <1>9, <1>10, <1>11, <1>12, <1>13, <1>14, <1>15 DEF Serve

(* The rest of the client.                                                 *)
LEMMA NetworkCodes ==
  ASSUME CallsOK(call), Network
  PROVE  CallsOK(call')
<1>1. ASSUME NEW f \in Flows, NetworkFails(f) PROVE CallsOK(call')
  <2>1. "lost" \in Kinds /\ Answered(f, Ans("lost"))
    BY <1>1 DEF Kinds, NetworkFails
  <2>2. QED
    BY <2>1, FlowValues, AnswerKeeps
<1>2. ASSUME NEW f \in Flows
      PROVE  /\ call[f] \in CallSet
             /\ Resent(f) \in CallSet
             /\ [call[f] EXCEPT !.retry = FALSE] \in CallSet
             /\ [call[f] EXCEPT !.at = "waiting"] \in CallSet
             /\ [call[f] EXCEPT !.at = "served", !.retry = FALSE] \in CallSet
             /\ f = "enable" =>
                  /\ EnableOK(call[f]) /\ EnableOK(Resent(f))
                  /\ EnableOK([call[f] EXCEPT !.retry = FALSE])
                  /\ EnableOK([call[f] EXCEPT !.at = "waiting"])
                  /\ EnableOK([call[f] EXCEPT !.at = "served", !.retry = FALSE])
  <2>1. call[f] \in CallSet /\ (f = "enable" => EnableOK(call[f]))
    BY DEF CallsOK
  <2>2. Resent(f) \in CallSet /\ (f = "enable" => EnableOK(Resent(f)))
    BY <2>1, FlowValues DEF Resent, CallSet, EnableOK
  <2>3. QED
    BY <2>1, <2>2 DEF CallSet, EnableOK
<1>3. ASSUME NEW f \in Flows, AwaitRefresh(f) PROVE CallsOK(call')
  <2>1. \E d \in {Resent(f), [call[f] EXCEPT !.retry = FALSE],
                  [call[f] EXCEPT !.at = "waiting"]} : call' = [call EXCEPT ![f] = d]
    <3>1. call' = [call EXCEPT ![f] =
                     CASE refreshing' = "done" -> Resent(f)
                       [] refreshing' = "failed" -> [call[f] EXCEPT !.retry = FALSE]
                       [] OTHER -> [call[f] EXCEPT !.at = "waiting"]]
      BY <1>3 DEF AwaitRefresh, CallsOK
    <3>2. CASE refreshing' = "done"
      BY <3>1, <3>2
    <3>3. CASE refreshing' = "failed"
      BY <3>1, <3>3
    <3>4. CASE refreshing' \notin {"done", "failed"}
      BY <3>1, <3>4
    <3>5. QED
      BY <3>2, <3>3, <3>4
  <2>2. PICK d : /\ call' = [call EXCEPT ![f] = d]
                 /\ d \in CallSet /\ (f = "enable" => EnableOK(d))
    BY <1>2, <2>1
  <2>3. QED
    BY <2>2, CallReplaced
<1>4. CASE RefreshAnswered
  BY <1>2, <1>4, FlowValues DEF RefreshAnswered, CallsOK
<1>5. CASE RefreshServed \/ RefreshForgotten
  BY <1>5 DEF RefreshServed, RefreshForgotten
<1>6. QED
  BY <1>1, <1>3, <1>4, <1>5, ServeCodes DEF Network

(* An answer is handled: the last step of the dialog comes with the codes  *)
(* of the answer.                                                          *)
LEMMA ApplyCodes ==
  ASSUME CodesInv, NEW f \in Flows, Apply(f)
  PROVE  CodesInv'
<1> USE DEF CodesInv
<1>1. ASSUME Ends(f) PROVE CallsOK(call')
  BY <1>1, FlowValues, CallReplaced DEF Ends
<1>2. ASSUME GoesOn(f), f # "enable" PROVE CallsOK(call')
  <2> DEFINE d == [Sent("me") EXCEPT !.here = call[f].here]
  <2>1. call[f] \in CallSet /\ Sent("me") \in CallSet
    BY FlowValues DEF CallsOK, Paths
  <2>2. d \in CallSet
    BY <2>1 DEF CallSet
  <2>3. call' = [call EXCEPT ![f] = d]
    BY <1>2 DEF GoesOn
  <2> HIDE DEF d
  <2>4. QED
    BY <1>2, <2>2, <2>3, CallReplaced
<1>3. CASE bootEffect(f) \/ refreshMe(f) \/ dataEnds(f) \/ resumeMfa(f) \/ resetEnds(f)
  BY <1>1, <1>3 DEF bootEffect, refreshMe, dataEnds, resumeMfa, resetEnds, dialog
<1>4. CASE login(f)
  <2>1. (Ends(f) \/ (GoesOn(f) /\ f # "enable")) /\ UNCHANGED dialog
    BY <1>4 DEF login
  <2>2. QED
    BY <1>1, <1>2, <2>1 DEF dialog
<1>5. CASE impersonateTenant(f) \/ exitImpersonation(f)
  <2>1. (Ends(f) \/ (GoesOn(f) /\ f # "enable")) /\ UNCHANGED dialog
    BY <1>5 DEF impersonateTenant, exitImpersonation
  <2>2. QED
    BY <1>1, <1>2, <2>1 DEF dialog
<1>6. CASE setupEnds(f)
  <2>1. CallsOK(call') /\ codes' = codes /\ (mstep' = 2 \/ mstep' = mstep)
    BY <1>1, <1>6 DEF setupEnds
  <2>2. QED
    BY <2>1
<1>7. CASE enableEnds(f)
  <2>1. CallsOK(call') /\ f = "enable"
    BY <1>1, <1>7 DEF enableEnds
  <2>2. CASE Ok(f) /\ call[f].here
    BY <1>7, <2>1, <2>2 DEF enableEnds, Ok, CallsOK, EnableOK
  <2>3. CASE ~(Ok(f) /\ call[f].here)
    BY <1>7, <2>1, <2>3 DEF enableEnds
  <2>4. QED
    BY <2>2, <2>3
<1>8. CASE disableEnds(f)
  <2>1. UNCHANGED <<mstep, codes>> /\ f = "disable"
    BY <1>8 DEF disableEnds
  <2>2. CallsOK(call')
    <3>1. CASE Ok(f)
      <4>1. call' = [[call EXCEPT ![f] = Idle] EXCEPT !["logout"] = Sent("logout")]
        BY <1>8, <3>1 DEF disableEnds
      <4>2. "logout" \in Paths /\ Sent("logout") \in CallSet
        BY FlowValues DEF Paths, Flows
      <4>3. CallsOK([call EXCEPT ![f] = Idle])
        BY FlowValues, CallReplaced
      <4>4. QED
        BY <4>1, <4>2, <4>3, FlowValues, CallReplaced
    <3>2. CASE ~Ok(f)
      BY <1>1, <1>8, <3>2 DEF disableEnds
    <3>3. QED
      BY <3>1, <3>2
  <2>3. QED
    BY <2>1, <2>2
<1>9. QED
  BY <1>3, <1>4, <1>5, <1>6, <1>7, <1>8 DEF Apply

(* The page renders: what leaves stops to listen.                          *)
LEMMA RenderCodes ==
  ASSUME CodesInv, Render
  PROVE  CodesInv'
<1> USE DEF CodesInv
<1>1. ASSUME NEW F PROVE CallsOK(Left(F, call))
  <2>1. \A f \in Flows : call[f] \in CallSet /\ [call[f] EXCEPT !.here = FALSE] \in CallSet
    BY DEF CallsOK, CallSet
  <2>2. EnableOK(call["enable"]) /\ EnableOK([call["enable"] EXCEPT !.here = FALSE])
    BY FlowValues DEF CallsOK, CallSet, EnableOK
  <2>3. QED
    BY <2>1, <2>2, FlowValues DEF Left, CallsOK
<1>2. "session" \in Paths /\ Sent("session") \in CallSet
  BY FlowValues DEF Paths
<1>3. CallsOK(call')
  <2>1. PICK F : \/ call' = [Left(F, call) EXCEPT !["session"] = Sent("session")]
                 \/ call' = Left(F, call)
    BY DEF Render
  <2>2. QED
    BY <1>1, <1>2, <2>1, FlowValues, CallReplaced
<1>4. UNCHANGED <<mstep, codes>> \/ mstep' = 1
  BY DEF Render
<1>5. QED
  BY <1>3, <1>4

(* Users, and the page that is loaded or left.                             *)
LEMMA UserCodes ==
  ASSUME CodesInv,
         Load \/ ExpireAccess \/ Revoke \/ Visitor \/ Operator \/ UNCHANGED vars
  PROVE  CodesInv'
<1> USE DEF CodesInv
<1>1. ASSUME NEW f \in Flows, Starts(f), UNCHANGED <<mstep, codes>> PROVE CodesInv'
  BY <1>1, FlowStarted DEF Starts
<1>2. ASSUME UNCHANGED <<call, mstep, codes>> PROVE CodesInv'
  BY <1>2
<1>3. CASE Unload
  <2>1. CallsOK(call')
    BY <1>3, FlowValues DEF Unload, CallsOK
  <2>2. QED
    BY <1>3, <2>1 DEF Unload
<1>4. CASE Load
  BY <1>4, FlowStarted, FlowValues DEF Load, dialog
<1>5. CASE ExpireAccess \/ Revoke \/ UNCHANGED vars
  BY <1>2, <1>5 DEF ExpireAccess, Revoke, vars, dialog, net
<1>6. CASE Visitor
  <2>1. CASE handleCredentialsSubmit \/ handleMfaSubmit
    BY <1>1, <2>1 DEF handleCredentialsSubmit, handleMfaSubmit, dialog, Flows
  <2>2. CASE PreviewLanding \/ (\E v \in {"landing", "login"} : Navigate(v)) \/ LoginGo
             \/ MfaSessionTimer
    BY <1>2, <2>2 DEF PreviewLanding, Navigate, LoginGo, MfaSessionTimer, dialog, net
  <2>3. QED
    BY <1>3, <1>6, <2>1, <2>2 DEF Visitor
<1>7. CASE Operator
  <2>1. CASE startSetup \/ handleVerifyOtp \/ handleCompleteEnrollment
             \/ handleDisableMfa \/ handleResetAdmin
    BY <1>1, <2>1 DEF startSetup, handleVerifyOtp, handleCompleteEnrollment,
      handleDisableMfa, handleResetAdmin, dialog, Flows
  <2>2. CASE Impersonate \/ ExitImpersonation \/ LoadData \/ logout
    BY <1>1, <2>2 DEF Impersonate, ExitImpersonation, LoadData, logout, dialog, Flows
  <2>3. CASE openMfaModal
    BY <2>3 DEF openMfaModal, net
  <2>4. CASE closeMfaModal
    BY <1>2, <2>4 DEF closeMfaModal, net
  <2>5. CASE ModalGo
    <3>1. mstep' # 4 /\ UNCHANGED <<call, codes>>
      BY <2>5 DEF ModalGo, net
    <3>2. QED
      BY <3>1
  <2>6. QED
    BY <1>7, <2>1, <2>2, <2>3, <2>4, <2>5 DEF Operator
<1>8. QED
  BY <1>4, <1>5, <1>6, <1>7

(* The last step of the MFA dialog shows codes that the server issued,     *)
(* whatever late answers reach a dialog that was closed and opened again   *)
(* (MfaFlowModal.tsx, CodesShownIssued).                                   *)
THEOREM CodesAreIssued == Spec => []CodesShownIssued
<1>1. Init => CodesInv
  BY FlowValues DEF Init, CodesInv, CallsOK
<1>2. CodesInv /\ [Next]_vars => CodesInv'
  <2>1. ASSUME CodesInv, Network PROVE CodesInv'
    <3>1. UNCHANGED <<mstep, codes>>
      BY <2>1 DEF Network, Serve, NetworkFails, AwaitRefresh, RefreshServed,
        RefreshAnswered, RefreshForgotten, dialog
    <3>2. QED
      BY <2>1, <3>1, NetworkCodes DEF CodesInv
  <2>2. QED
    BY <2>1, ApplyCodes, RenderCodes, UserCodes DEF Next
<1>3. CodesInv => CodesShownIssued
  BY DEF CodesInv, CodesShownIssued
<1>4. QED
  BY <1>1, <1>2, <1>3, PTL DEF Spec

-----------------------------------------------------------------------------
(* The live feed.                                                          *)

SocketSet == [tenant : Tenants \cup {"none"}, ws : {"none", "connecting", "open", "closing"},
              closed : BOOLEAN, timer : BOOLEAN]

(* An effect instance that is over is on its way to be gone; the one in    *)
(* force is that of the tenant the effects last ran for, and so are the    *)
(* live frames.                                                            *)
FeedInv ==
  /\ cur \in {0} \cup Slots
  /\ selected \in Tenants \cup {"none"}
  /\ socks \in [Slots -> SocketSet]
  /\ \A k \in Slots \ {cur} :
       socks[k].closed /\ ~socks[k].timer /\ socks[k].ws \in {"none", "closing"}
  /\ cur # 0 => /\ fed.tenant # "none" /\ socks[cur].tenant = fed.tenant
                /\ live \subseteq {fed.tenant}

(* The page is loaded, or its state was lost with it.                      *)
LEMMA LostKeeps == PageLost => FeedInv'
<1> SUFFICES ASSUME PageLost PROVE FeedInv'
  OBVIOUS
<1>1. NoSock \in SocketSet /\ NoSock.closed /\ ~NoSock.timer /\ NoSock.ws = "none"
  BY DEF NoSock, SocketSet
<1>2. socks' = [k \in Slots |-> NoSock] /\ cur' = 0 /\ selected' = "none"
  BY DEF PageLost
<1>3. QED
  BY <1>1, <1>2 DEF FeedInv

(* The cleanup of an effect leaves nothing that would connect again.       *)
LEMMA CleanupOver ==
  ASSUME NEW s \in SocketSet
  PROVE  /\ Cleanup(s) \in SocketSet
         /\ Cleanup(s).closed /\ ~Cleanup(s).timer
         /\ Cleanup(s).ws \in {"none", "closing"}
  BY DEF Cleanup, SocketSet

(* The effects run.                                                        *)
LEMMA EffectsKeep ==
  ASSUME FeedInv, FeedEffects
  PROVE  FeedInv'
<1> USE DEF FeedInv
<1>1. /\ Cleaned \in [Slots -> SocketSet]
      /\ \A k \in Slots : /\ Cleaned[k].closed /\ ~Cleaned[k].timer
                          /\ Cleaned[k].ws \in {"none", "closing"}
  BY CleanupOver DEF Cleaned
<1>2. fed' = Wanted /\ selected' = selected
  BY DEF FeedEffects
<1>3. CASE Wanted.tenant = "none"
  <2>1. cur' = 0 /\ socks' = Cleaned
    BY <1>3 DEF FeedEffects
  <2>2. QED
    BY <1>1, <1>2, <2>1
<1>4. CASE Wanted.tenant # "none"
  <2>1. auth /\ Wanted.tenant = activeTenantId /\ activeTenantId \in Tenants
    BY <1>4, FeedAssumption DEF Wanted, activeTenantId, FeedAssumption
  <2> DEFINE new == [tenant |-> activeTenantId, ws |-> "connecting", closed |-> FALSE,
                     timer |-> FALSE]
  <2>2. PICK k \in Slots \ {cur} :
          cur' = k /\ socks' = [Cleaned EXCEPT ![k] = new] /\ live' = {}
    BY <1>4 DEF FeedEffects
  <2>3. new \in SocketSet /\ new.tenant = activeTenantId
    BY <2>1 DEF SocketSet
  <2> HIDE DEF new
  <2>4. /\ socks' \in [Slots -> SocketSet] /\ socks'[k] = new
        /\ \A j \in Slots \ {k} : socks'[j] = Cleaned[j]
    BY <1>1, <2>2, <2>3
  <2>5. k # 0 /\ k \in Slots
    BY DEF Slots
  <2>6. QED
    BY <1>1, <1>2, <1>4, <2>1, <2>2, <2>3, <2>4, <2>5
<1>5. QED
  BY <1>3, <1>4

(* The browser and the retry timer move one socket on.                     *)
LEMMA SocketKeeps ==
  ASSUME FeedInv, NEW k \in Slots,
         SocketOpens(k) \/ SocketCloses(k) \/ RetryTimer(k) \/ FrameArrives(k)
  PROVE  FeedInv'
<1> USE DEF FeedInv
<1>1. socks[k] \in SocketSet /\ UNCHANGED <<cur, fed, selected>>
  BY DEF SocketOpens, SocketCloses, RetryTimer, FrameArrives
<1>2. CASE FrameArrives(k)
  <2>1. k = cur /\ live' \subseteq live \cup {socks[k].tenant} /\ UNCHANGED socks
    BY <1>2 DEF FrameArrives
  <2>2. QED
    BY <1>1, <2>1 DEF Slots
<1>3. ASSUME NEW s \in SocketSet, socks' = [socks EXCEPT ![k] = s], s.tenant = socks[k].tenant,
             k # cur => s.closed /\ ~s.timer /\ s.ws \in {"none", "closing"},
             UNCHANGED live
      PROVE  FeedInv'
  <2>1. socks' \in [Slots -> SocketSet] /\ \A j \in Slots : socks'[j] = IF j = k THEN s ELSE socks[j]
    BY <1>3
  <2>2. QED
    BY <1>1, <1>3, <2>1
<1>4. CASE SocketOpens(k)
  <2> DEFINE s == [socks[k] EXCEPT !.ws = "open"]
  <2>1. s \in SocketSet /\ s.tenant = socks[k].tenant
    BY <1>1 DEF SocketSet
  <2>2. socks' = [socks EXCEPT ![k] = s] /\ k = cur /\ UNCHANGED live
    BY <1>4 DEF SocketOpens
  <2> HIDE DEF s
  <2>3. QED
    BY <1>3, <2>1, <2>2
<1>5. CASE SocketCloses(k)
  <2> DEFINE s == onclose(socks[k])
  <2>1. /\ s \in SocketSet /\ s.tenant = socks[k].tenant /\ s.ws = "none"
        /\ s.closed = socks[k].closed /\ s.timer = ~socks[k].closed
    BY <1>1 DEF SocketSet, onclose
  <2>2. socks' = [socks EXCEPT ![k] = s] /\ UNCHANGED live
    BY <1>5 DEF SocketCloses
  <2> HIDE DEF s
  <2>3. QED
    BY <1>3, <2>1, <2>2
<1>6. CASE RetryTimer(k)
  <2> DEFINE s == [socks[k] EXCEPT !.timer = FALSE,
                                   !.ws = IF socks[k].closed THEN @ ELSE "connecting"]
  <2>1. s \in SocketSet /\ s.tenant = socks[k].tenant
    BY <1>1 DEF SocketSet
  <2>2. socks' = [socks EXCEPT ![k] = s] /\ k = cur /\ UNCHANGED live
    BY <1>6 DEF RetryTimer
  <2> HIDE DEF s
  <2>3. QED
    BY <1>3, <2>1, <2>2
<1>7. QED
  BY <1>2, <1>4, <1>5, <1>6

(* Every step of the session and of the feed.                              *)
LEMMA FeedKeeps == FeedInv /\ [FeedNext]_<<vars, feedVars>> => FeedInv'
<1> SUFFICES ASSUME FeedInv, [FeedNext]_<<vars, feedVars>> PROVE FeedInv'
  OBVIOUS
<1>1. ASSUME UNCHANGED <<selected, fed, cur, socks, live>> PROVE FeedInv'
  BY <1>1 DEF FeedInv
<1>2. CASE SessionStep
  BY <1>1, <1>2, LostKeeps DEF SessionStep, feedVars
<1>3. ASSUME NEW t \in Tenants \cup {"none"}, SelectTenant(t) PROVE FeedInv'
  BY <1>3 DEF SelectTenant, FeedInv
<1>4. ASSUME NEW t \in Tenants, LoadApplied(t) PROVE FeedInv'
  BY <1>1, <1>4 DEF LoadApplied
<1>5. CASE refreshTenantDashboard \/ UNCHANGED <<vars, feedVars>>
  BY <1>1, <1>5 DEF refreshTenantDashboard, feedVars
<1>6. QED
  BY <1>2, <1>3, <1>4, <1>5, EffectsKeep, SocketKeeps DEF FeedNext, FeedStep

(* Whatever tenants are opened and left, one socket at most is open, or is *)
(* going to be, it is that of the active tenant, and only frames of that   *)
(* tenant are shown (the socket effect of PlatformContext.tsx, OneSocket). *)
THEOREM SocketOfActive == FeedSpec => []OneSocket
<1>1. FeedInit => FeedInv
  <2> SUFFICES ASSUME FeedInit PROVE FeedInv
    OBVIOUS
  <2>1. NoSock \in SocketSet /\ NoSock.closed /\ ~NoSock.timer /\ NoSock.ws = "none"
    BY DEF NoSock, SocketSet
  <2>2. QED
    BY <2>1 DEF FeedInit, FeedInv
<1>2. FeedInv => OneSocket
  <2> SUFFICES ASSUME FeedInv, loaded, Settled PROVE OneSocket
    BY DEF OneSocket
  <2> DEFINE on == {k \in Slots : socks[k].ws \in {"connecting", "open"} \/ socks[k].timer}
  <2>1. on \subseteq {cur}
    BY DEF FeedInv
  <2>2. ASSUME NEW k \in on
        PROVE  socks[k].tenant = activeTenantId /\ live \subseteq {activeTenantId}
    <3>1. k = cur /\ cur # 0
      BY <2>1 DEF Slots
    <3>2. fed.tenant = activeTenantId
      BY <3>1 DEF FeedInv, Settled, Wanted
    <3>3. QED
      BY <3>1, <3>2 DEF FeedInv
  <2>3. QED
    BY <2>1, <2>2 DEF OneSocket
<1>3. QED
  BY <1>1, <1>2, FeedKeeps, PTL DEF FeedSpec
=============================================================================
