--------------------------- MODULE ConsoleSession ---------------------------
(***************************************************************************)
(* The session of the web console: the HTTP client with its silent refresh *)
(* (services/api/client.ts), the authentication part of PlatformContext    *)
(* (boot, login, logout, impersonation), the sign-in page (LoginPage.tsx)  *)
(* and the MFA dialog (MfaFlowModal.tsx), against the cookies the backend  *)
(* sets.                                                                   *)
(*                                                                         *)
(* A flow is one asynchronous function of the console; its requests are    *)
(* sent, served with the cookies of that moment, and answered in any       *)
(* order.  At most one instance of a flow and MaxCalls flows are under way *)
(* (bounds).  Passwords, codes and texts are reduced to whether the server *)
(* accepts them.                                                           *)
(***************************************************************************)
EXTENDS Integers, FiniteSets

CONSTANT MaxCalls

ASSUME SessionAssumption == MaxCalls \in Nat \ {0}

VARIABLES
  access,         \* principal of the access cookie
  grant,          \* account of the refresh cookie
  mfaOn,          \* accounts with MFA enabled
  secret,         \* the TOTP secret of each account
  auth,           \* isAuthenticated
  who,            \* userType and account of the last me()
  knowsMfa,       \* currentUser.mfaEnabled
  impersonation,  \* the banner's state
  loaded,         \* the page is there
  publicView,     \* landing or login
  preview,        \* isPreviewingLandingAsAuth
  step,           \* step of LoginPage
  mounted,        \* LoginPage and the workspace, when rendered
  modal,          \* mode of the MFA dialog, or none
  mstep,          \* its step
  codes,          \* account whose recovery codes it holds, or none
  call,           \* the flows under way
  refreshing,     \* the promise refreshOnce shares
  refreshes       \* silent refreshes under way

server == <<access, grant, mfaOn, secret>>
user == <<auth, who, knowsMfa, impersonation>>
screen == <<loaded, publicView, preview, step, mounted>>
dialog == <<modal, mstep, codes>>
net == <<call, refreshing, refreshes>>
vars == <<server, user, screen, dialog, net>>

Accounts == {"admin", "user"}
Principals == Accounts \cup {"acting"}

(* A token of an impersonation names the owner of the tenant.              *)
Account(p) == IF p = "acting" THEN "user" ELSE p

(* The staging token of an account that still owes its code.               *)
Staging(a) == IF a = "admin" THEN "admin-mfa" ELSE "user-mfa"
Staged == {a \in Accounts : access = Staging(a)}

Signed == access \in Principals

Flows == {"boot", "login", "verify", "me", "imp", "exit", "data", "logout",
          "session", "setup", "enable", "disable", "reset"}

(* The first request of a flow; login, imp and exit go on with me.         *)
FirstOf(f) ==
  CASE f = "boot" -> "me" [] f = "imp" -> "impersonate" [] f = "exit" -> "refresh"
    [] OTHER -> f

NoAnswer == [kind |-> "none", of |-> "none", mfa |-> FALSE]
Ans(kind) == [NoAnswer EXCEPT !.kind = kind]

(* `here' says that the page which started the flow is still mounted.      *)
Idle == [path |-> "none", at |-> "idle", retry |-> TRUE, ans |-> NoAnswer, here |-> TRUE]
Sent(path) == [Idle EXCEPT !.path = path, !.at = "sent"]

Busy == {f \in Flows : call[f].at # "idle"}
CanStart(f) == f \notin Busy /\ Cardinality(Busy) < MaxCalls
Started(f) == [call EXCEPT ![f] = Sent(FirstOf(f))]

(* NO_REFRESH_PATHS.                                                       *)
canRefresh(path) == path \notin {"login", "refresh", "logout", "verify", "session"}

LoginShown == publicView = "login" /\ (~auth \/ preview)
ConsoleShown == auth /\ ~preview

-----------------------------------------------------------------------------
(* The backend serves a request with the cookies it finds.                 *)

Answered(f, ans) == call' = [call EXCEPT ![f].at = "served", ![f].ans = ans]

Unauthorized(f) == Answered(f, Ans("401")) /\ UNCHANGED server
Refused(f) == Answered(f, Ans("refused")) /\ UNCHANGED server
Cookies(a, g) == access' = a /\ grant' = g

ServeMe(f) ==
  /\ call[f].path = "me"
  /\ IF Signed
     THEN /\ Answered(f, [kind |-> "ok", of |-> Account(access),
                          mfa |-> Account(access) \in mfaOn])
          /\ UNCHANGED server
     ELSE Unauthorized(f)

(* Any other request of a page.                                            *)
ServeData(f) ==
  /\ call[f].path = "data"
  /\ IF Signed THEN Answered(f, Ans("ok")) /\ UNCHANGED server ELSE Unauthorized(f)

(* With MFA the access cookie is a staging token.                          *)
ServeLogin(f) ==
  /\ call[f].path = "login"
  /\ \/ Refused(f)
     \/ \E a \in Accounts :
          /\ IF a \in mfaOn
             THEN Answered(f, Ans("mfa")) /\ Cookies(Staging(a), grant)
             ELSE Answered(f, Ans("ok")) /\ Cookies(a, a)
          /\ UNCHANGED <<mfaOn, secret>>

ServeVerify(f) ==
  /\ call[f].path = "verify"
  /\ \/ Staged = {} /\ Answered(f, Ans("gone")) /\ UNCHANGED server
     \/ Staged # {} /\ Refused(f)
     \/ \E a \in Staged : /\ Answered(f, Ans("ok")) /\ Cookies(a, a)
                          /\ UNCHANGED <<mfaOn, secret>>
     \/ /\ Staged # {} /\ Answered(f, Ans("gone"))   \* too many attempts
        /\ Cookies("none", grant) /\ UNCHANGED <<mfaOn, secret>>

ServeSession(f) ==
  /\ call[f].path = "session"
  /\ IF Staged # {} THEN Answered(f, Ans("ok")) /\ UNCHANGED server ELSE Refused(f)

(* impersonate_tenant sets the access cookie only.                         *)
ServeImpersonate(f) ==
  /\ call[f].path = "impersonate"
  /\ IF ~Signed THEN Unauthorized(f)
     ELSE IF access = "admin"
     THEN Answered(f, Ans("ok")) /\ Cookies("acting", grant) /\ UNCHANGED <<mfaOn, secret>>
     ELSE Refused(f)

ServeRefresh(f) ==
  /\ call[f].path = "refresh"
  /\ IF grant = "none" THEN Refused(f)
     ELSE Answered(f, Ans("ok")) /\ Cookies(grant, grant) /\ UNCHANGED <<mfaOn, secret>>

ServeLogout(f) ==
  /\ call[f].path = "logout"
  /\ Answered(f, Ans("ok")) /\ Cookies("none", "none") /\ UNCHANGED <<mfaOn, secret>>

(* mfa_setup replaces the secret, also of an account that has MFA enabled; *)
(* mfa_enable wants a code of the secret; mfa_disable revokes every        *)
(* session.                                                                *)
ServeMfa(f) ==
  /\ call[f].path \in {"setup", "enable", "disable"}
  /\ IF ~Signed THEN Unauthorized(f)
     ELSE LET a == Account(access) IN
       \/ call[f].path # "setup" /\ Refused(f)
       \/ /\ Answered(f, [Ans("ok") EXCEPT !.of = a])
          /\ \/ /\ call[f].path = "setup"
                /\ secret' = [secret EXCEPT ![a] = "fresh"]
                /\ UNCHANGED <<access, grant, mfaOn>>
             \/ /\ call[f].path = "enable" /\ secret[a] # "none"
                /\ mfaOn' = mfaOn \cup {a}
                /\ secret' = [secret EXCEPT ![a] = "verified"]
                /\ UNCHANGED <<access, grant>>
             \/ /\ call[f].path = "disable" /\ a \in mfaOn
                /\ mfaOn' = mfaOn \ {a}
                /\ secret' = [secret EXCEPT ![a] = "none"]
                /\ Cookies("none", "none")

(* resetAdminMfa, for another administrator.                               *)
ServeReset(f) ==
  /\ call[f].path = "reset"
  /\ IF ~Signed THEN Unauthorized(f)
     ELSE IF access = "admin" THEN Answered(f, Ans("ok")) /\ UNCHANGED server ELSE Refused(f)

Serve(f) ==
  /\ call[f].at = "sent"
  /\ \/ ServeMe(f) \/ ServeData(f) \/ ServeLogin(f) \/ ServeVerify(f) \/ ServeSession(f)
     \/ ServeImpersonate(f) \/ ServeRefresh(f) \/ ServeLogout(f) \/ ServeMfa(f) \/ ServeReset(f)
  /\ UNCHANGED <<user, screen, dialog, refreshing, refreshes>>

(* fetch rejects: the request was not served, or its answer was lost.      *)
NetworkFails(f) ==
  /\ call[f].at \in {"sent", "served"} /\ call[f].ans.kind # "lost"
  /\ Answered(f, Ans("lost"))
  /\ UNCHANGED <<server, user, screen, dialog, refreshing, refreshes>>

ExpireAccess ==
  /\ access # "none"
  /\ access' = "none"
  /\ UNCHANGED <<grant, mfaOn, secret, user, screen, dialog, net>>

(* The session is revoked or ends: no refresh will be granted.             *)
Revoke ==
  /\ grant # "none"
  /\ Cookies("none", "none")
  /\ UNCHANGED <<mfaOn, secret, user, screen, dialog, net>>

-----------------------------------------------------------------------------
(* client.ts: request() and refreshOnce().                                 *)

(* A mutant: every 401 starts a refresh of its own.                        *)
refreshUnshared == [promise |-> "sent", posts |-> refreshes + 1]

(* The promise is kept until a timer after its end.                        *)
refreshOnce ==
  IF refreshing = "none" THEN [promise |-> "sent", posts |-> refreshes + 1]
  ELSE [promise |-> refreshing, posts |-> refreshes]

(* A mutant: the request is repeated with its own options.                 *)
ResentAsBefore(f) == [call[f] EXCEPT !.at = "sent", !.ans = NoAnswer]

(* request(method, path, body, {...opts, retry: false})                    *)
Resent(f) == [call[f] EXCEPT !.at = "sent", !.retry = FALSE, !.ans = NoAnswer]

WantsRefresh(f) ==
  call[f].ans.kind = "401" /\ call[f].retry /\ canRefresh(call[f].path)

(* A 401 awaits the shared refresh; one that ended just now counts.        *)
AwaitRefresh(f) ==
  /\ call[f].at = "served" /\ WantsRefresh(f)
  /\ refreshing' = refreshOnce.promise /\ refreshes' = refreshOnce.posts
  /\ call' = [call EXCEPT ![f] =
                CASE refreshing' = "done" -> Resent(f)
                  [] refreshing' = "failed" -> [@ EXCEPT !.retry = FALSE]
                  [] OTHER -> [@ EXCEPT !.at = "waiting"]]
  /\ UNCHANGED <<server, user, screen, dialog>>

RefreshServed ==
  /\ refreshing = "sent"
  /\ \/ grant # "none" /\ Cookies(grant, grant) /\ refreshing' = "ok"
     \/ UNCHANGED <<access, grant>> /\ refreshing' = "bad"   \* refused, or no answer
  /\ UNCHANGED <<mfaOn, secret, user, screen, dialog, call, refreshes>>

(* Everyone who waits is resumed: the request is sent once more, or its    *)
(* 401 stands.                                                             *)
RefreshAnswered ==
  /\ refreshing \in {"ok", "bad"}
  /\ refreshing' = IF refreshing = "ok" THEN "done" ELSE "failed"
  /\ refreshes' = 0
  /\ call' = [f \in Flows |->
                IF call[f].at # "waiting" THEN call[f]
                ELSE IF refreshing = "ok" THEN Resent(f)
                ELSE [call[f] EXCEPT !.at = "served", !.retry = FALSE]]
  /\ UNCHANGED <<server, user, screen, dialog>>

RefreshForgotten ==
  /\ refreshing \in {"done", "failed"}
  /\ refreshing' = "none"
  /\ UNCHANGED <<server, user, screen, dialog, call, refreshes>>

-----------------------------------------------------------------------------
(* PlatformContext: what follows an answer.                                *)

applyMe(ans) ==
  auth' = TRUE /\ who' = ans.of /\ knowsMfa' = ans.mfa

Ends(f) == call' = [call EXCEPT ![f] = Idle]
GoesOn(f) == call' = [call EXCEPT ![f] = [Sent("me") EXCEPT !.here = call[f].here]]

MayEnd(f) == call[f].at = "served" /\ ~WantsRefresh(f)
Ok(f) == call[f].ans.kind = "ok"

(* The flow ends with me(): what a failure does differs.                   *)
bootEffect(f) ==
  /\ f = "boot" /\ Ends(f)
  /\ IF Ok(f) THEN applyMe(call[f].ans) ELSE auth' = FALSE /\ UNCHANGED <<who, knowsMfa>>
  /\ UNCHANGED <<impersonation, screen, dialog>>

refreshMe(f) ==
  /\ f = "me" /\ Ends(f)
  /\ IF Ok(f) THEN applyMe(call[f].ans) ELSE UNCHANGED <<auth, who, knowsMfa>>
  /\ UNCHANGED <<impersonation, screen, dialog>>

(* login(): after the password or the code, me().  A page that is still    *)
(* there takes the step the result asks for; a success unmounts it.        *)
LoginStep(f) ==
  IF ~call[f].here THEN step
  ELSE CASE call[f].ans.kind = "mfa" -> "mfa_challenge"
         [] call[f].ans.kind = "gone" -> "credentials"
         [] OTHER -> step

login(f) ==
  /\ f \in {"login", "verify"}
  /\ IF Ok(f) /\ call[f].path # "me"
     THEN GoesOn(f) /\ UNCHANGED <<user, screen>>
     ELSE /\ Ends(f)
          /\ IF Ok(f) THEN applyMe(call[f].ans) ELSE UNCHANGED <<auth, who, knowsMfa>>
          /\ step' = LoginStep(f)
          /\ UNCHANGED <<impersonation, loaded, publicView, preview, mounted>>
  /\ UNCHANGED dialog

impersonateTenant(f) ==
  /\ f = "imp"
  /\ IF Ok(f) /\ call[f].path # "me"
     THEN GoesOn(f) /\ impersonation' = TRUE /\ UNCHANGED <<auth, who, knowsMfa>>
     ELSE /\ Ends(f) /\ UNCHANGED impersonation
          /\ IF Ok(f) THEN applyMe(call[f].ans) ELSE UNCHANGED <<auth, who, knowsMfa>>
  /\ UNCHANGED <<screen, dialog>>

(* A refresh that fails is passed over.                                    *)
exitImpersonation(f) ==
  /\ f = "exit"
  /\ IF call[f].path = "refresh"
     THEN GoesOn(f) /\ impersonation' = FALSE /\ UNCHANGED <<auth, who, knowsMfa>>
     ELSE /\ Ends(f) /\ UNCHANGED impersonation
          /\ IF Ok(f) THEN applyMe(call[f].ans)
             ELSE auth' = FALSE /\ UNCHANGED <<who, knowsMfa>>
  /\ UNCHANGED <<screen, dialog>>

(* The page shows an error or its data; a failed logout is ignored.        *)
dataEnds(f) ==
  /\ f \in {"data", "logout"} /\ Ends(f)
  /\ UNCHANGED <<user, screen, dialog>>

(* LoginPage: a live staging cookie resumes the challenge, whatever step   *)
(* the user went to.                                                       *)
resumeMfa(f) ==
  /\ f = "session" /\ Ends(f)
  /\ step' = IF Ok(f) /\ call[f].here THEN "mfa_challenge" ELSE step
  /\ UNCHANGED <<user, loaded, publicView, preview, mounted, dialog>>

(* MfaFlowModal: the dialog stays mounted while it is closed, so a late    *)
(* answer reaches the next opening.                                        *)
setupEnds(f) ==
  /\ f = "setup" /\ Ends(f)
  /\ mstep' = IF Ok(f) /\ call[f].here THEN 2 ELSE mstep
  /\ UNCHANGED <<user, screen, modal, codes>>

enableEnds(f) ==
  /\ f = "enable" /\ Ends(f)
  /\ IF Ok(f) /\ call[f].here THEN mstep' = 4 /\ codes' = call[f].ans.of
     ELSE UNCHANGED <<mstep, codes>>
  /\ UNCHANGED <<user, screen, modal>>

LoggedOut ==
  auth' = FALSE /\ who' = "none" /\ knowsMfa' = FALSE /\ UNCHANGED impersonation

(* mfaDisable revoked every session: close and log out.                    *)
disableEnds(f) ==
  /\ f = "disable"
  /\ IF Ok(f)
     THEN /\ call' = [call EXCEPT ![f] = Idle, !["logout"] = Sent("logout")]
          /\ modal' = "none" /\ LoggedOut
     ELSE Ends(f) /\ UNCHANGED <<user, modal>>
  /\ UNCHANGED <<screen, mstep, codes>>

resetEnds(f) ==
  /\ f = "reset" /\ Ends(f)
  /\ modal' = IF Ok(f) THEN "none" ELSE modal
  /\ UNCHANGED <<user, screen, mstep, codes>>

Apply(f) ==
  /\ MayEnd(f)
  /\ \/ bootEffect(f) \/ refreshMe(f) \/ login(f) \/ impersonateTenant(f) \/ exitImpersonation(f)
     \/ dataEnds(f) \/ resumeMfa(f) \/ setupEnds(f) \/ enableEnds(f) \/ disableEnds(f) \/ resetEnds(f)
  /\ UNCHANGED <<server, refreshing, refreshes>>

-----------------------------------------------------------------------------
(* App.tsx renders the public pages or the workspaces.  The flows of a     *)
(* page that leaves go on without it.                                      *)

Rendered == mounted = [login |-> LoginShown, console |-> ConsoleShown]

PageFlows == {"login", "verify", "session"}
DialogFlows == {"setup", "enable", "disable", "reset"}

(* Nobody awaits the answer to the page's first question any more.         *)
Left(F, c) ==
  [f \in Flows |-> IF f \notin F \/ c[f].at = "idle" THEN c[f]
                   ELSE IF f = "session" THEN Idle ELSE [c[f] EXCEPT !.here = FALSE]]

(* LoginPage mounts with its first step and asks for a pending MFA         *)
(* transaction; the MFA dialog mounts with the workspace and is reset.     *)
Render ==
  /\ ~Rendered
  /\ mounted' = [login |-> LoginShown, console |-> ConsoleShown]
  /\ LET gone == (IF mounted.login /\ ~LoginShown THEN PageFlows ELSE {})
                    \cup (IF mounted.console /\ ~ConsoleShown THEN DialogFlows ELSE {})
         fresh == LoginShown /\ ~mounted.login
     IN  /\ call' = IF fresh THEN [Left(gone, call) EXCEPT !["session"] = Sent("session")]
                    ELSE Left(gone, call)
         /\ step' = IF LoginShown /\ mounted.login THEN step ELSE "credentials"
  /\ IF ConsoleShown /\ ~mounted.console
     THEN mstep' = 1 /\ codes' = "none" ELSE UNCHANGED <<mstep, codes>>
  /\ UNCHANGED <<server, user, loaded, publicView, preview, modal, refreshing, refreshes>>

(* The first effect of PlatformProvider asks who is signed in.             *)
Load ==
  /\ ~loaded
  /\ loaded' = TRUE /\ call' = Started("boot")
  /\ UNCHANGED <<server, user, publicView, preview, step, mounted, dialog, refreshing, refreshes>>

(* The page is left or loaded again: the browser keeps the cookies only.   *)
Unload ==
  /\ loaded' = FALSE
  /\ auth' = FALSE /\ who' = "none" /\ knowsMfa' = FALSE /\ impersonation' = FALSE
  /\ publicView' = "landing" /\ preview' = FALSE /\ step' = "credentials"
  /\ mounted' = [login |-> FALSE, console |-> FALSE]
  /\ modal' = "none" /\ mstep' = 1 /\ codes' = "none"
  /\ call' = [f \in Flows |-> Idle]
  /\ refreshing' = "none" /\ refreshes' = 0
  /\ UNCHANGED server

Navigate(v) ==
  /\ ~auth \/ preview
  /\ publicView' = v
  /\ UNCHANGED <<server, user, loaded, preview, step, mounted, dialog, net>>

PreviewLanding ==
  /\ \/ ConsoleShown /\ publicView' = "landing" /\ preview' = TRUE
     \/ auth /\ preview /\ preview' = FALSE /\ UNCHANGED publicView
  /\ UNCHANGED <<server, user, loaded, step, mounted, dialog, net>>

-----------------------------------------------------------------------------
(* LoginPage.                                                              *)

isLoading == \E f \in {"login", "verify"} : f \in Busy /\ call[f].here

Starts(f) ==
  /\ CanStart(f)
  /\ call' = Started(f)
  /\ UNCHANGED <<server, screen, refreshing, refreshes>>

handleCredentialsSubmit ==
  /\ mounted.login /\ step = "credentials" /\ ~isLoading
  /\ Starts("login") /\ UNCHANGED <<user, dialog>>

(* handleMfaSubmit and handleBackupCodeSubmit.                             *)
handleMfaSubmit ==
  /\ mounted.login /\ step \in {"mfa_challenge", "backup_code"} /\ ~isLoading
  /\ Starts("verify") /\ UNCHANGED <<user, dialog>>

(* The buttons that only change the step, also while a request is out.     *)
StepsFrom(s) ==
  CASE s = "credentials" -> {"forgot_password"}
    [] s = "forgot_password" -> {"credentials"}
    [] s = "mfa_challenge" -> {"credentials", "backup_code"}
    [] s = "backup_code" -> {"mfa_challenge"}

LoginGo ==
  /\ mounted.login
  /\ step' \in StepsFrom(step)
  /\ UNCHANGED <<server, user, loaded, publicView, preview, mounted, dialog, net>>

(* The 600 s of the challenge are over.                                    *)
MfaSessionTimer ==
  /\ mounted.login /\ step \in {"mfa_challenge", "backup_code"}
  /\ step' = "credentials"
  /\ UNCHANGED <<server, user, loaded, publicView, preview, mounted, dialog, net>>

-----------------------------------------------------------------------------
(* The workspace: header, settings, security and administrators pages.     *)

(* The header offers enrolment to every account.                           *)
ModesOffered ==
  {"enroll"} \cup (IF knowsMfa THEN {"disable"} ELSE {})
             \cup (IF who = "admin" THEN {"reset_admin"} ELSE {})

openMfaModal ==
  /\ mounted.console /\ modal = "none"
  /\ modal' \in ModesOffered /\ mstep' = 1 /\ codes' = "none"
  /\ UNCHANGED <<server, user, screen, net>>

closeMfaModal ==
  /\ mounted.console /\ modal # "none"
  /\ modal' = "none"
  /\ UNCHANGED <<server, user, screen, mstep, codes, net>>

startSetup ==
  /\ mounted.console /\ modal = "enroll" /\ mstep = 1
  /\ Starts("setup") /\ UNCHANGED <<user, dialog>>

(* Back, and `I've Scanned the Code'.                                      *)
ModalGo ==
  /\ mounted.console /\ modal = "enroll"
  /\ mstep' \in CASE mstep = 2 -> {1, 3} [] mstep = 3 -> {2} [] OTHER -> {}
  /\ UNCHANGED <<server, user, screen, modal, codes, net>>

(* A mutant: the last step is shown as soon as the code is sent.           *)
VerifyHasty ==
  /\ mounted.console /\ modal = "enroll" /\ mstep = 3
  /\ Starts("enable") /\ mstep' = 4 /\ UNCHANGED <<user, modal, codes>>

handleVerifyOtp ==
  /\ mounted.console /\ modal = "enroll" /\ mstep = 3
  /\ Starts("enable") /\ UNCHANGED <<user, dialog>>

handleCompleteEnrollment ==
  /\ mounted.console /\ modal = "enroll" /\ mstep = 4
  /\ Starts("me") /\ modal' = "none" /\ UNCHANGED <<user, mstep, codes>>

handleDisableMfa ==
  /\ mounted.console /\ modal = "disable"
  /\ Starts("disable") /\ UNCHANGED <<user, dialog>>

handleResetAdmin ==
  /\ mounted.console /\ modal = "reset_admin"
  /\ Starts("reset") /\ UNCHANGED <<user, dialog>>

Impersonate ==
  /\ mounted.console /\ modal = "none" /\ who = "admin"
  /\ Starts("imp") /\ UNCHANGED <<user, dialog>>

ExitImpersonation ==
  /\ mounted.console /\ modal = "none" /\ impersonation
  /\ Starts("exit") /\ UNCHANGED <<user, dialog>>

LoadData ==
  /\ mounted.console
  /\ Starts("data") /\ UNCHANGED <<user, dialog>>

logout ==
  /\ mounted.console /\ modal = "none"
  /\ Starts("logout") /\ LoggedOut /\ UNCHANGED dialog

-----------------------------------------------------------------------------
Init ==
  /\ access = "none" /\ grant \in Accounts \cup {"none"}
  /\ mfaOn \in SUBSET Accounts
  /\ secret = [a \in Accounts |-> IF a \in mfaOn THEN "verified" ELSE "none"]
  /\ loaded = FALSE
  /\ auth = FALSE /\ who = "none" /\ knowsMfa = FALSE /\ impersonation = FALSE
  /\ publicView = "landing" /\ preview = FALSE /\ step = "credentials"
  /\ mounted = [login |-> FALSE, console |-> FALSE]
  /\ modal = "none" /\ mstep = 1 /\ codes = "none"
  /\ call = [f \in Flows |-> Idle]
  /\ refreshing = "none" /\ refreshes = 0

Network ==
  \/ \E f \in Flows : Serve(f) \/ NetworkFails(f) \/ AwaitRefresh(f)
  \/ RefreshServed \/ RefreshAnswered \/ RefreshForgotten
Visitor ==
  \/ Unload \/ PreviewLanding \/ \E v \in {"landing", "login"} : Navigate(v)
  \/ handleCredentialsSubmit \/ handleMfaSubmit \/ LoginGo \/ MfaSessionTimer
Operator ==
  \/ openMfaModal \/ closeMfaModal \/ startSetup \/ ModalGo \/ handleVerifyOtp
  \/ handleCompleteEnrollment \/ handleDisableMfa \/ handleResetAdmin
  \/ Impersonate \/ ExitImpersonation \/ LoadData \/ logout

(* React renders before the next event of the page is handled.             *)
Next ==
  \/ Load \/ Render
  \/ loaded /\ (Network \/ ExpireAccess \/ Revoke)
  \/ loaded /\ Rendered /\ (Visitor \/ Operator \/ \E f \in Flows : Apply(f))

Spec == Init /\ [][Next]_vars

(* Requests are served or fail, and what has arrived is handled although   *)
(* other events and renders come in between.                               *)
Fairness ==
  /\ WF_vars(Load) /\ WF_vars(Render)
  /\ WF_vars(RefreshServed) /\ WF_vars(RefreshAnswered)
  /\ \A f \in {"boot", "data", "exit"} :
       /\ WF_vars(Serve(f)) /\ WF_vars(AwaitRefresh(f))
       /\ SF_vars(Rendered /\ Apply(f))

-----------------------------------------------------------------------------
(* However many requests meet an expired token at once, one silent refresh *)
(* is under way: the refresh token is rotated by each.                     *)
OneRefresh == refreshes <= 1

(* Every flow that may be repeated after a 401 comes to an end, although   *)
(* the token may expire again in between: the first me(), the requests of  *)
(* a page, and the end of an impersonation.                                *)
RequestEnds ==
  \A f \in {"boot", "data", "exit"} : call[f].at # "idle" ~> call[f].at = "idle"

(* The dialog's last step shows codes that the server issued, whatever     *)
(* late answers reach a dialog that was closed and opened again            *)
(* (MfaFlowModal.tsx:199, `Never report success for a code the server did  *)
(* not verify').                                                           *)
CodesShownIssued == modal = "enroll" /\ mstep = 4 => codes \in Accounts

(* MfaFlowModal.tsx:84, `MFA only becomes enabled after the first OTP      *)
(* verifies': who has MFA enabled has verified the secret in force.        *)
EnabledVerified == \A a \in mfaOn : secret[a] = "verified"

(* App.tsx:204, `Impersonation banner -- shown while a platform admin      *)
(* browses a tenant's portal'.                                             *)
BannerShown == auth /\ who = "user" /\ access = "acting" => impersonation

(* MfaFlowModal.tsx:205, `drop to a signed-out state locally': after a     *)
(* logout nobody is signed in until somebody signs in.                     *)
LogoutSticks ==
  [][~auth /\ auth' => \E f \in {"boot", "login", "verify"} : f \in Busy]_vars
=============================================================================
