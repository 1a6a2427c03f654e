------------------------------ MODULE DriverPay ------------------------------
(***************************************************************************)
(* How the driver app pays: the hook usePayments, used once by the app     *)
(* (for the memberships screen) and once by the wallet dialog of the       *)
(* profile, and the lists of what can be paid for.                         *)
(*                                                                         *)
(* The backend is seen through its API: a payment row with a status, the   *)
(* purse and what is owed.  How a row is settled there is the subject of   *)
(* Payments; here it just happens.  Every request may be lost on the way   *)
(* there or back.  Amounts are one unit, `failed' stands for every end of  *)
(* a payment without money, and one request of a kind and origin is in     *)
(* flight at a time.                                                       *)
(***************************************************************************)
EXTENDS Integers, FiniteSets, Sequences

CONSTANTS
  MaxPays,       \* payment rows
  MaxPresses,    \* pay buttons the driver presses
  MaxPayPolls       \* polls of a hook in flight

PayIds == 1..MaxPays                 \* in the order of creation
Hooks == {"app", "wallet"}

VARIABLES
  payRow,       \* server: status of each payment, "none" before it exists
  payFor,       \* server: what each pays for
  owed,         \* server: a pending membership, a session with a fee
  purse,        \* server: the wallet's balance
  hooks,        \* the two uses of usePayments
  payPosts, payPolls, payFetches, listLoads,   \* requests in flight
  payables,     \* what the dialog lists to be paid
  memberCard,   \* what the memberships screen shows of the membership
  presses

payVars == <<payRow, payFor, owed, purse, hooks, payPosts, payPolls,
             payFetches, listLoads, payables, memberCard, presses>>
payServer == <<payRow, payFor, owed, purse>>
payRequests == <<payPosts, payPolls, payFetches, listLoads>>

-----------------------------------------------------------------------------
(* The state of the hook.  timer is the watch whose interval runs: its     *)
(* payment (0: pollTimer is null), whether a caller waits for its end, and *)
(* whether POLL_TIMEOUT_MS have passed since it began; off: the dialog     *)
(* shows that payments are not configured.                                 *)

NoTimer == [id |-> 0, done |-> FALSE, late |-> FALSE]
NoHook == [enabled |-> FALSE, off |-> FALSE, timer |-> NoTimer, busyId |-> 0,
           payments |-> [p \in PayIds |-> "none"], wallet |-> 0, watchedIds |-> {}]

watchUntilTerminal(k, p, done) ==
  [k EXCEPT !.busyId = p, !.watchedIds = @ \cup {p},
            !.timer = [id |-> p, done |-> done, late |-> FALSE]]

(* The effect that resumes a payment left behind: the newest in the list.  *)
Resumed(k) ==
  LET pending == {p \in PayIds : k.payments[p] = "created" /\ p \notin k.watchedIds}
  IN  IF k.enabled /\ k.timer = NoTimer /\ pending # {}
      THEN watchUntilTerminal(k, CHOOSE p \in pending : \A q \in pending : q <= p, FALSE)
      ELSE k

hasPaymentFor(k, due) ==
  \E p \in PayIds : payFor[p] = due /\ k.payments[p] \in {"created", "paid"}

canAfford(k, method) == method = "momo" \/ k.wallet >= 1

Fetch(h, by, done) == [hook |-> h, by |-> by, done |-> done, served |-> FALSE,
                       list |-> [p \in PayIds |-> "none"], wallet |-> 0]
ListOf(what, by) == [what |-> what, by |-> by, served |-> FALSE, due |-> {}]

(* What onDone does: each screen reloads its own list.                     *)
OnDone(h, by) == IF h = "wallet" THEN {ListOf("payables", by)} ELSE {ListOf("member", by)}

-----------------------------------------------------------------------------
(* Opening and closing the dialog, and leaving the profile screen, which   *)
(* ends the hook; what its requests answer is then ignored.                *)

OpenWallet ==
  /\ ~hooks["wallet"].enabled
  /\ \A r \in payFetches : r.hook = "wallet" => r.by = "done"
  /\ \A r \in listLoads : r.what # "payables"
  /\ hooks' = [hooks EXCEPT !["wallet"] = Resumed([@ EXCEPT !.enabled = TRUE])]
  /\ payFetches' = payFetches \cup {Fetch("wallet", "hook", FALSE), Fetch("wallet", "modal", FALSE)}
  /\ listLoads' = listLoads \cup {ListOf("payables", "open")}
  /\ UNCHANGED <<payServer, payPosts, payPolls, payables, memberCard, presses>>

CloseWallet ==
  /\ hooks["wallet"].enabled
  /\ hooks' = [hooks EXCEPT !["wallet"] = [@ EXCEPT !.enabled = FALSE, !.wallet = 0,
                                             !.payments = NoHook.payments]]
  /\ UNCHANGED <<payServer, payRequests, payables, memberCard, presses>>

LeaveProfile ==
  /\ hooks["wallet"] # NoHook
  /\ hooks' = [hooks EXCEPT !["wallet"] = NoHook]
  /\ payPosts' = {[r EXCEPT !.hook = IF @ = "wallet" THEN "gone" ELSE @] : r \in payPosts}
  /\ payPolls' = {r \in payPolls : r.hook # "wallet"}
  /\ payFetches' = {r \in payFetches : r.hook # "wallet"}
  /\ listLoads' = {r \in listLoads : r.what # "payables"}
  /\ payables' = {}
  /\ UNCHANGED <<payServer, memberCard, presses>>

-----------------------------------------------------------------------------
(* Paying.                                                                 *)

WalletButtons ==
  LET k == hooks["wallet"]
  IN  {b \in {"membership", "session", "topup"} \X {"momo", "wallet"} :
         /\ k.enabled /\ ~k.off /\ k.busyId = 0
         /\ b[1] = "topup" => b[2] = "momo"
         /\ b[1] # "topup" => b[1] \in payables /\ ~hasPaymentFor(k, b[1])
         /\ canAfford(k, b[2])}

(* The button of the membership's card waits for its own POST only: it can *)
(* be pressed again while the payment is watched.                          *)
PayOffered == {b \in {<<"membership", "momo">>} :
  memberCard = "pending" /\ \A r \in payPosts : r.hook # "app"}

payAndWatch(h, b) ==
  /\ presses < MaxPresses
  /\ presses' = presses + 1
  /\ payPosts' = payPosts \cup {[hook |-> h, n |-> presses', due |-> b[1], method |-> b[2],
                                 at |-> "sent", id |-> 0, status |-> "none"]}
  /\ UNCHANGED <<payServer, hooks, payPolls, payFetches, listLoads, payables, memberCard>>

pay == \E b \in WalletButtons : payAndWatch("wallet", b)

handlePay == \E b \in PayOffered : payAndWatch("app", b)

(* handleCancel: while the request and its reload last, no second one.     *)
handleCancel ==
  /\ memberCard \in {"pending", "active"}
  /\ \A r \in listLoads : r.by \notin {"cancel", "cancelled"}
  /\ listLoads' = listLoads \cup {ListOf("member", "cancel")}
  /\ UNCHANGED <<payServer, hooks, payPosts, payPolls, payFetches, payables, memberCard, presses>>

(* POST /payments: a paid one is refused, the one in flight is returned.   *)
Existing(due) == {p \in PayIds : payFor[p] = due /\ payRow[p] \in {"created", "paid"}}

(* A membership that is paid for becomes active.                           *)
WithoutDue(due) == (owed \ {due}) \cup (IF due = "membership" THEN {"active"} ELSE {})

PostAnswers(r, p, status) ==
  payPosts' = (payPosts \ {r}) \cup {[r EXCEPT !.at = "served", !.id = p, !.status = status]}

NewPayment(r) ==
  LET p == CHOOSE q \in PayIds : payRow[q] = "none" /\ \A o \in PayIds : o < q => payRow[o] # "none"
      paid == r.method = "wallet"
  IN  /\ \E q \in PayIds : payRow[q] = "none"
      /\ r.due # "topup" => r.due \in owed /\ Existing(r.due) = {}
      /\ paid => purse >= 1
      /\ payRow' = [payRow EXCEPT ![p] = IF paid THEN "paid" ELSE "created"]
      /\ payFor' = [payFor EXCEPT ![p] = r.due]
      /\ owed' = IF paid THEN WithoutDue(r.due) ELSE owed
      /\ purse' = IF paid THEN purse - 1 ELSE purse
      /\ PostAnswers(r, p, payRow'[p])

PostServed(r) ==
  /\ r.at = "sent"
  /\ \/ NewPayment(r)
     \/ \E p \in Existing(r.due) :
          /\ r.due # "topup" /\ payRow[p] = "created"
          /\ PostAnswers(r, p, "created")
          /\ UNCHANGED payServer
     \/ PostAnswers(r, 0, "refused") /\ UNCHANGED payServer
     \/ r.hook = "wallet" /\ PostAnswers(r, 0, "off") /\ UNCHANGED payServer
  /\ UNCHANGED <<hooks, payPolls, payFetches, listLoads, payables, memberCard, presses>>

(* The answer to a POST: a created payment is watched, a paid one reloads  *)
(* the lists.  Nothing else sets busyId.                                   *)
PostAnswered(r) ==
  /\ r.at = "served" /\ payPosts' = payPosts \ {r}
  /\ IF r.status \in {"refused", "off"} \/ r.hook = "gone"
     THEN /\ hooks' = IF r.hook = "gone" THEN hooks
                      ELSE [hooks EXCEPT ![r.hook].off = @ \/ r.status = "off"]
          /\ UNCHANGED payFetches
     ELSE LET k == [hooks[r.hook] EXCEPT !.payments[r.id] = r.status]
          IN  IF r.status = "created"
              THEN /\ hooks' = [hooks EXCEPT ![r.hook] = watchUntilTerminal(k, r.id, TRUE)]
                   /\ UNCHANGED payFetches
              ELSE /\ hooks' = [hooks EXCEPT ![r.hook] = Resumed(k)]
                   /\ payFetches' = payFetches \cup {Fetch(r.hook, "paid", TRUE)}
  /\ UNCHANGED <<payServer, payPolls, listLoads, payables, memberCard, presses>>

(* The error is shown; a row the server created stays unknown.             *)
PostFails(r) ==
  /\ payPosts' = payPosts \ {r}
  /\ UNCHANGED <<payServer, hooks, payPolls, payFetches, listLoads, payables, memberCard, presses>>

-----------------------------------------------------------------------------
(* Polling: an interval sends one request after another, whatever became   *)
(* of the earlier ones.                                                    *)

WatchTick(h) ==
  LET k == hooks[h]
      free == 1..MaxPayPolls \ {r.n : r \in {q \in payPolls : q.hook = h}}
  IN  /\ k.timer # NoTimer /\ free # {}
      /\ payPolls' = payPolls \cup {[hook |-> h, watch |-> k.timer, status |-> "none",
                                     n |-> CHOOSE n \in free : \A m \in free : n <= m]}
      /\ UNCHANGED <<payServer, hooks, payPosts, payFetches, listLoads, payables, memberCard, presses>>

(* POLL_TIMEOUT_MS have passed, for this watch and for earlier ones.       *)
WatchLate(h) ==
  /\ hooks[h].timer # NoTimer /\ ~hooks[h].timer.late
  /\ hooks' = [hooks EXCEPT ![h].timer.late = TRUE]
  /\ payPolls' = {[r EXCEPT !.watch.late = @ \/ r.hook = h] : r \in payPolls}
  /\ UNCHANGED <<payServer, payPosts, payFetches, listLoads, payables, memberCard, presses>>

WatchServed(r) ==
  /\ r.status = "none"
  /\ payPolls' = (payPolls \ {r}) \cup {[r EXCEPT !.status = payRow[r.watch.id]]}
  /\ UNCHANGED <<payServer, hooks, payPosts, payFetches, listLoads, payables, memberCard, presses>>

(* A mutant: the time since the watch began is not looked at.              *)
WatchOverPatient(w, status) == status # "created"

WatchOver(w, status) == status # "created" \/ w.late

WatchAnswered(r) ==
  /\ r.status # "none" /\ payPolls' = payPolls \ {r}
  /\ IF WatchOver(r.watch, r.status)
     THEN /\ hooks' = [hooks EXCEPT ![r.hook].timer = NoTimer, ![r.hook].busyId = 0]
          /\ payFetches' = payFetches \cup {Fetch(r.hook, "done", r.watch.done)}
     ELSE UNCHANGED <<hooks, payFetches>>
  /\ UNCHANGED <<payServer, payPosts, listLoads, payables, memberCard, presses>>

(* Swallowed: the interval goes on.                                        *)
WatchFails(r) ==
  /\ payPolls' = payPolls \ {r}
  /\ UNCHANGED <<payServer, hooks, payPosts, payFetches, listLoads, payables, memberCard, presses>>

-----------------------------------------------------------------------------
(* refetch and the lists.                                                  *)

FetchServed(r) ==
  /\ ~r.served
  /\ payFetches' = (payFetches \ {r}) \cup {[r EXCEPT !.served = TRUE, !.list = payRow, !.wallet = purse]}
  /\ UNCHANGED <<payServer, hooks, payPosts, payPolls, listLoads, payables, memberCard, presses>>

FetchAnswered(r) ==
  /\ r.served /\ payFetches' = payFetches \ {r}
  /\ hooks' = [hooks EXCEPT ![r.hook] = Resumed([@ EXCEPT !.payments = r.list, !.wallet = r.wallet])]
  /\ listLoads' = IF r.done THEN listLoads \cup OnDone(r.hook, "done") ELSE listLoads
  /\ UNCHANGED <<payServer, payPosts, payPolls, payables, memberCard, presses>>

FetchFails(r) ==
  /\ payFetches' = payFetches \ {r}
  /\ UNCHANGED <<payServer, hooks, payPosts, payPolls, listLoads, payables, memberCard, presses>>

CardOf(due) == IF "membership" \in due THEN "pending" ELSE IF "active" \in due THEN "active" ELSE "none"

(* Serving a list, or the cancellation that precedes one.                  *)
ListServed(r) ==
  /\ ~r.served
  /\ owed' = IF r.by = "cancel" THEN owed \ {"membership", "active"} ELSE owed
  /\ listLoads' = (listLoads \ {r}) \cup {[r EXCEPT !.served = TRUE, !.due = owed']}
  /\ UNCHANGED <<payRow, payFor, purse, hooks, payPosts, payPolls, payFetches, payables, memberCard, presses>>

ListAnswered(r) ==
  /\ r.served
  /\ IF r.by = "cancel"
     THEN /\ listLoads' = (listLoads \ {r}) \cup {ListOf("member", "cancelled")}
          /\ UNCHANGED <<payables, memberCard>>
     ELSE /\ listLoads' = listLoads \ {r}
          /\ payables' = IF r.what = "payables" THEN r.due \ {"active"} ELSE payables
          /\ memberCard' = IF r.what = "member" THEN CardOf(r.due) ELSE memberCard
  /\ UNCHANGED <<payServer, hooks, payPosts, payPolls, payFetches, presses>>

ListFails(r) ==
  /\ listLoads' = listLoads \ {r}
  /\ UNCHANGED <<payServer, hooks, payPosts, payPolls, payFetches, payables, memberCard, presses>>

-----------------------------------------------------------------------------
(* The provider settles an order.                                          *)
Settles(p, s) ==
  /\ payRow[p] = "created"
  /\ payRow' = [payRow EXCEPT ![p] = s]
  /\ owed' = IF s = "paid" /\ payFor[p] \in owed THEN WithoutDue(payFor[p]) ELSE owed
  /\ purse' = IF s = "paid" /\ payFor[p] = "topup" THEN purse + 1 ELSE purse
  /\ UNCHANGED <<payFor, hooks, payRequests, payables, memberCard, presses>>

(* The app has been opened and has loaded its lists.                       *)
PayInit(due, coins) ==
  /\ payRow = [p \in PayIds |-> "none"] /\ payFor = [p \in PayIds |-> "none"]
  /\ owed = due /\ purse = coins
  /\ hooks = [h \in Hooks |-> [NoHook EXCEPT !.enabled = (h = "app"),
                                             !.wallet = IF h = "app" THEN coins ELSE 0]]
  /\ payPosts = {} /\ payPolls = {} /\ payFetches = {} /\ listLoads = {}
  /\ payables = {} /\ memberCard = CardOf(due) /\ presses = 0

PayNext ==
  \/ OpenWallet \/ CloseWallet \/ LeaveProfile
  \/ pay \/ handlePay \/ handleCancel
  \/ \E r \in payPosts : PostServed(r) \/ PostAnswered(r) \/ PostFails(r)
  \/ \E h \in Hooks : WatchTick(h) \/ WatchLate(h)
  \/ \E r \in payPolls : WatchServed(r) \/ WatchAnswered(r) \/ WatchFails(r)
  \/ \E r \in payFetches : FetchServed(r) \/ FetchAnswered(r) \/ FetchFails(r)
  \/ \E r \in listLoads : ListServed(r) \/ ListAnswered(r) \/ ListFails(r)
  \/ \E p \in PayIds, s \in {"paid", "failed"} : Settles(p, s)
-----------------------------------------------------------------------------
(* The interval fires, time passes, and a poll ends: it is answered or it  *)
(* fails.  Which of the two is the network's choice.                       *)
PollEnds(h) == \E r \in payPolls : r.hook = h /\ (WatchAnswered(r) \/ WatchFails(r))

PayFairness ==
  \A h \in Hooks :
    WF_payVars(WatchTick(h)) /\ WF_payVars(WatchLate(h)) /\ WF_payVars(PollEnds(h))

(* A hook whose polls do not all fail from some time on enables its pay    *)
(* buttons again and again, although the driver never completes a payment: *)
(* whatever polls are lost, overlap or answer for an earlier watch, and    *)
(* whatever else the driver starts, busyId is given up at the time-out.    *)
PayingEnds ==
  \A h \in Hooks :
    []<><<\E r \in payPolls : r.hook = h /\ WatchAnswered(r)>>_payVars =>
      []<>(hooks[h].busyId = 0)

(* An expected violation, the comment of the catch block: "transient       *)
(* network error - keep polling until timeout".  The time-out is looked at *)
(* when a poll succeeds only: while they fail, the hook stays busy.        *)
PollingTimesOut == \A h \in Hooks : []<>(hooks[h].busyId = 0)

(* The comment of usePayments: a payment that is watched is watched until  *)
(* it is terminal or late.  A poll of an earlier watch that answers late   *)
(* clears the interval of the newer one, which watchedIds keeps from being *)
(* watched again.                                                          *)
WatchedToTheEnd ==
  [][\A h \in Hooks :
       (hooks[h].timer # NoTimer /\ hooks'[h].timer = NoTimer /\ hooks'[h] # NoHook) =>
         \E r \in payPolls \ payPolls' : r.hook = h /\ r.watch.id = hooks[h].timer.id]_payVars
=============================================================================
