----------------------------- MODULE ConsoleMC -----------------------------
(***************************************************************************)
(* The session and the data of the console for TLC.  An execution has a    *)
(* scope: which of the session's flows happen, and whether the feed does.  *)
(* InSession and InFeed bound what overlaps: they remove steps of users,   *)
(* losses and expiries, never the answer to a request that is under way.   *)
(***************************************************************************)
EXTENDS ConsoleFeed

CONSTANTS
  Scopes,    \* those of the instance
  MaxLoads   \* loads of the tenant's data at once

VARIABLES scope

mcVars == <<vars, feedVars, scope>>

-----------------------------------------------------------------------------
FlowsOf ==
  CASE scope = "signin" -> {"boot", "login", "verify", "session", "logout"}
    [] scope = "mfa" -> {"boot", "me", "setup", "enable", "disable", "logout", "reset"}
    [] scope = "acting" -> {"boot", "imp", "exit", "data", "logout"}
    [] scope = "feed" -> {"boot", "imp", "logout"}

Alone == {"boot", "reset", "me"}

InSession ==
  /\ \A f \in Flows \ FlowsOf : call'[f].at = "idle"
  /\ scope # "signin" => preview' = FALSE /\ publicView' = "landing"
  /\ scope = "signin" => access' \notin {"admin", "admin-mfa"}
  /\ preview' => Cardinality(Busy') <= 1
  /\ scope # "mfa" => modal' = "none"
  /\ scope = "mfa" => Busy' \cap Alone = {} \/ Cardinality(Busy') <= 1
  /\ scope = "mfa" /\ Cardinality(Busy') > 1 => \A f \in Flows : call'[f].ans.kind # "lost"
  /\ scope \in {"mfa", "feed"} /\ Cardinality(Busy') > Cardinality(Busy) => refreshing = "none"
  /\ publicView' = "landing" => ~loaded' \/ Busy' = {} \/ publicView = "landing"

InFeed ==
  /\ Cardinality(Busy') <= 1 /\ \A f \in Flows : call'[f].ans.kind # "lost"
  /\ access' # "none" \/ access = "none" \/ ~auth
  /\ grant' # "none" \/ ~auth
  /\ Cardinality(loads') <= MaxLoads /\ (Busy' # {} => loads' = {})

-----------------------------------------------------------------------------
MCInit ==
  /\ scope \in Scopes
  /\ FeedInit
  /\ CASE scope = "signin" -> grant # "admin" /\ mfaOn = {"user"}
       [] scope = "mfa" -> grant = "admin" /\ "user" \notin mfaOn
       [] OTHER -> grant = "admin" /\ mfaOn = {}

MCNext ==
  /\ IF scope = "feed" THEN FeedNext /\ InFeed ELSE Next /\ UNCHANGED feedVars
  /\ InSession
  /\ UNCHANGED scope

MCSpec == MCInit /\ [][MCNext]_mcVars /\ Fairness /\ FeedFairness
=============================================================================
