---------------------------- MODULE ConsoleFeed ----------------------------
(***************************************************************************)
(* The data of the active tenant in the web console (PlatformContext.tsx): *)
(* the effect that loads it, and the effect that keeps a WebSocket open    *)
(* for live frames, beside the session of ConsoleSession.                  *)
(*                                                                         *)
(* An effect runs after a render in which the signed-in state or the       *)
(* active tenant is another one; its cleanup closes the socket, whose      *)
(* close event comes later.  A load is answered in any order with others.  *)
(* Of the collections the model keeps which tenant they are of.            *)
(***************************************************************************)
EXTENDS ConsoleSession

CONSTANTS Tenants, Home   \* Home is the tenant of the account "user"

ASSUME FeedAssumption == Home \in Tenants

VARIABLES
  selected,  \* selectedTenantId of a platform admin, or none
  fed,       \* what the effects last ran for
  cur,       \* the effect instance that is in force, 0 for none
  socks,     \* the effect instances whose socket or timer is still there
  live,      \* tenants with entries in liveGateFrames
  loads,     \* tenants with a loadTenantData under way
  shown      \* tenant of the loaded collections, or none

feedVars == <<selected, fed, cur, socks, live, loads, shown>>

Slots == 1..2   \* an old instance may still be closing (bound)

activeTenantId == IF who = "user" THEN Home ELSE selected

NoSock == [tenant |-> "none", ws |-> "none", closed |-> TRUE, timer |-> FALSE]
Gone(k) == socks[k].ws = "none" /\ ~socks[k].timer

(* The state of the page is lost with the page.                            *)
PageLost ==
  /\ selected' = "none" /\ fed' = [auth |-> FALSE, tenant |-> "none"] /\ cur' = 0
  /\ socks' = [k \in Slots |-> NoSock]
  /\ live' = {} /\ loads' = {} /\ shown' = "none"

(* A session step leaves the data alone; logout does too.                  *)
SessionStep ==
  /\ Next
  /\ IF loaded /\ ~loaded' THEN PageLost ELSE UNCHANGED feedVars

-----------------------------------------------------------------------------
(* The two effects on [isAuthenticated, activeTenantId].                   *)

Wanted == [auth |-> auth, tenant |-> IF auth THEN activeTenantId ELSE "none"]

(* A mutant: the cleanup forgets to say that the effect is over.           *)
CleanupOpen(s) == [s EXCEPT !.timer = FALSE, !.ws = IF @ = "none" THEN @ ELSE "closing"]

(* closed = true, clearTimeout, ws.close().                                *)
Cleanup(s) ==
  [s EXCEPT !.closed = TRUE, !.timer = FALSE, !.ws = IF @ = "none" THEN @ ELSE "closing"]

Cleaned == [k \in Slots |-> IF k = cur THEN Cleanup(socks[k]) ELSE socks[k]]

FeedEffects ==
  /\ loaded /\ Rendered /\ fed # Wanted
  /\ fed' = Wanted
  /\ IF Wanted.tenant = "none"
     THEN cur' = 0 /\ socks' = Cleaned /\ UNCHANGED <<live, loads>>
     ELSE \E k \in Slots \ {cur} :
            /\ Gone(k)
            /\ cur' = k
            /\ socks' = [Cleaned EXCEPT ![k] = [tenant |-> activeTenantId, ws |-> "connecting",
                                                closed |-> FALSE, timer |-> FALSE]]
            /\ live' = {}
            /\ loads' = loads \cup {activeTenantId}
  /\ UNCHANGED <<vars, selected, shown>>

(* The other effects have nothing to do.                                   *)
Settled == fed = Wanted

(* A mutant: a connection that was refused is not tried again.             *)
onCloseOnce(s) ==
  [s EXCEPT !.ws = "none", !.timer = ~s.closed /\ s.ws = "open"]

(* ws.onclose: unless the effect is over, connect again after a while.     *)
onclose(s) == [s EXCEPT !.ws = "none", !.timer = ~s.closed]

(* The browser: the socket opens; it drops, or cannot be opened; the close *)
(* that was asked for is done.                                             *)
SocketOpens(k) ==
  /\ socks[k].ws = "connecting"
  /\ socks' = [socks EXCEPT ![k].ws = "open"]
  /\ UNCHANGED <<vars, selected, fed, cur, live, loads, shown>>

SocketCloses(k) ==
  /\ socks[k].ws # "none"
  /\ socks' = [socks EXCEPT ![k] = onclose(@)]
  /\ UNCHANGED <<vars, selected, fed, cur, live, loads, shown>>

(* connect() from the timer, with a delay of at most 30 s.                 *)
RetryTimer(k) ==
  /\ socks[k].timer
  /\ socks' = [socks EXCEPT ![k].timer = FALSE,
                            ![k].ws = IF socks[k].closed THEN @ ELSE "connecting"]
  /\ UNCHANGED <<vars, selected, fed, cur, live, loads, shown>>

(* ws.onmessage: a gate's frame is kept; an incident is refetched and a    *)
(* heartbeat, an access event and a location change the collections.  A    *)
(* socket that is closing delivers no more.                                *)
FrameArrives(k) ==
  /\ socks[k].ws = "open"
  /\ live' = live \cup {socks[k].tenant}
  /\ UNCHANGED <<vars, selected, fed, cur, socks, loads, shown>>

-----------------------------------------------------------------------------
(* loadTenantData: the collections are set when all its requests have      *)
(* answered, whichever tenant is active then; one that fails says so.      *)
LoadApplied(t) ==
  /\ t \in loads
  /\ loads' = loads \ {t}
  /\ shown' \in {t, shown}
  /\ UNCHANGED <<vars, selected, fed, cur, socks, live>>

(* After a change of the tenants' list, a mutation, or Refresh.            *)
refreshTenantDashboard ==
  /\ auth /\ activeTenantId # "none"
  /\ loads' = loads \cup {activeTenantId}
  /\ UNCHANGED <<vars, selected, fed, cur, socks, live, shown>>

(* The admin opens a tenant, or goes back to the list.                     *)
SelectTenant(t) ==
  /\ ConsoleShown /\ who = "admin"
  /\ selected' = t
  /\ UNCHANGED <<vars, fed, cur, socks, live, loads, shown>>

FeedInit ==
  /\ Init
  /\ selected = "none" /\ fed = [auth |-> FALSE, tenant |-> "none"] /\ cur = 0
  /\ socks = [k \in Slots |-> NoSock]
  /\ live = {} /\ loads = {} /\ shown = "none"

FeedStep ==
  \/ FeedEffects
  \/ /\ loaded /\ Settled
     /\ \/ \E k \in Slots : SocketOpens(k) \/ FrameArrives(k)
        \/ \E t \in Tenants : LoadApplied(t)
        \/ \E t \in Tenants \cup {"none"} : SelectTenant(t)
        \/ refreshTenantDashboard
  \/ \E k \in Slots : SocketCloses(k) \/ RetryTimer(k)

(* The effects run when the page is rendered, before its next event.       *)
FeedNext == ((Rendered => Settled) /\ SessionStep) \/ FeedStep

FeedSpec == FeedInit /\ [][FeedNext]_<<vars, feedVars>>

FeedFairness == \A k \in Slots : WF_feedVars(RetryTimer(k))

-----------------------------------------------------------------------------
(* Whatever tenants are opened and left, at most one socket delivers       *)
(* frames or is about to, it is the one of the active tenant, and the live *)
(* frames of the map are of that tenant.                                   *)
OneSocket ==
  loaded /\ Settled =>
    LET on == {k \in Slots : socks[k].ws \in {"connecting", "open"} \/ socks[k].timer}
    IN  /\ on \subseteq {cur}
        /\ \A k \in on : socks[k].tenant = activeTenantId /\ live \subseteq {activeTenantId}

(* A socket that was dropped or refused is tried again until the effect is *)
(* over (`a dead socket otherwise leaves barrier map / occupancy stale').  *)
SocketReturns ==
  \A k \in Slots :
    socks[k].ws = "none" /\ ~socks[k].closed ~> socks[k].ws = "connecting" \/ socks[k].closed

(* The collections are of the active tenant once nothing is loading.       *)
TenantShown ==
  auth /\ Settled /\ activeTenantId # "none" /\ loads = {} => shown \in {activeTenantId, "none"}
=============================================================================
