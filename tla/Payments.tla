------------------------------ MODULE Payments ------------------------------
(***************************************************************************)
(* Driver payments (payment_service.py, wallet_service.py): rows of        *)
(* driver_payments, the orders behind them at the MoMo gateway, and the    *)
(* driver's wallet.                                                        *)
(*                                                                         *)
(* Each API handler is one database transaction at READ COMMITTED.  The    *)
(* IPN handler and the refunds lock the payment row (SELECT FOR UPDATE);   *)
(* the sweep of stale rows, the pull refresh, the cancellation and the     *)
(* reconcile job read it without a lock, wait (for the gateway, for other  *)
(* statements) and then UPDATE it by its key.  Such a handler is two       *)
(* actions: Begin... takes what it read into txn, Finish... writes and     *)
(* commits.  A handler that holds the row lock while it waits for the      *)
(* provider keeps its row in `refunding'.                                  *)
(*                                                                         *)
(* Every amount is one unit.  One driver, top-ups of one wallet, and the   *)
(* payments of one parked session (a membership is deduplicated the same   *)
(* way, under the lock of its own row).                                    *)
(***************************************************************************)
EXTENDS Integers, FiniteSets

CONSTANTS
  TopUps,       \* ids of the payments of kind 'topup'
  ParkRows,     \* ids of the payments of the session
  Callers,      \* API requests that may be open at the same time
  JobLimit      \* rows the reconcile job takes at a time (LIMIT 100)

Payments == TopUps \cup ParkRows
Cron == "cron"                       \* the arq job reconcile_pending_payments
Workers == Callers \cup {Cron}

ASSUME PaymentsAssumption ==
  /\ TopUps \cap ParkRows = {}
  /\ IsFiniteSet(TopUps) /\ IsFiniteSet(Callers) /\ Cron \notin Callers
  /\ JobLimit \in Nat \ {0}

VARIABLES
  status,     \* driver_payments.status of the committed row, None without one
  method,     \* its method
  order,      \* the order at the gateway
  trans,      \* rows whose provider_trans_id is known
  age,        \* 0: fresh, 1: past the job's ten minutes, 2: past expires_at
  grace,      \* rows whose paid_at is inside the paid-exit window
  refused,    \* payments whose order the provider rejected
  credited,   \* topup_credit entries of each top-up in the wallet's ledger
  balance,    \* driver_wallets.balance_vnd
  txn,        \* the open unlocked transaction of each worker
  refunding,  \* rows locked by a refund that waits for the provider
  payout      \* orders the provider has refunded

vars == <<status, method, order, trans, age, grace, refused, credited,
          balance, txn, refunding, payout>>

None == "none"
Statuses == {"created", "paid", "failed", "cancelled", "expired", "refunded"}
Terminal == Statuses \ {"created"}
Methods == {"momo", "wallet"}
Idle == [op |-> None, pays |-> {}, stale |-> {}, saw |-> {}, by |-> "momo"]

Init ==
  /\ status = [p \in Payments |-> None]
  /\ method = [p \in Payments |-> "momo"]
  /\ order = [p \in Payments |-> None]
  /\ age = [p \in Payments |-> 0]
  /\ trans = {} /\ grace = {} /\ refused = {}
  /\ credited = [p \in TopUps |-> 0] /\ balance = 0
  /\ txn = [w \in Workers |-> Idle]
  /\ refunding = {} /\ payout = {}

-----------------------------------------------------------------------------
(* What a transaction reads and writes.                                    *)

InFlight == {p \in Payments : status[p] = "created"}

(* The SELECT of _expire_stale.                                            *)
Stale == {p \in InFlight : age[p] = 2}

(* get_or_create_wallet locks the wallet row until the commit, and the     *)
(* refund of a top-up holds it while it waits for the provider.            *)
WalletFree == refunding \cap TopUps = {}

(* _apply_paid on the rows of S.                                           *)
Settle(S) ==
  /\ S \cap TopUps # {} => WalletFree
  /\ credited' = [p \in TopUps |-> credited[p] + (IF p \in S THEN 1 ELSE 0)]
  /\ balance' = balance + Cardinality(S \cap TopUps)
  /\ grace' = grace \cup (S \cap ParkRows)

(* Worker w reads the rows of S and, but for the job, sweeps.  `saw' keeps *)
(* which of these rows were `created' at that moment; nothing depends on   *)
(* it but OverwrittenByReader.                                             *)
Open(w, op, S, by) ==
  LET swept == IF w = Cron THEN {} ELSE Stale
  IN
  /\ txn[w] = Idle
  /\ txn' = [txn EXCEPT ![w] = [op |-> op, pays |-> S, by |-> by, stale |-> swept,
                                saw |-> (S \cup swept) \cap InFlight]]
  /\ UNCHANGED <<status, method, order, trans, age, grace, refused, credited,
                 balance, refunding, payout>>

(* The commit of worker w, which writes status s[p] into the rows p of S   *)
(* and `expired' into the ones its sweep read.  An UPDATE waits for the    *)
(* row lock, and then overwrites what the holder of the lock committed.    *)
Close(w, S, s) ==
  /\ (S \cup txn[w].stale) \cap refunding = {}
  /\ status' = [p \in Payments |-> IF p \in S THEN s[p]
                                   ELSE IF p \in txn[w].stale THEN "expired"
                                   ELSE status[p]]
  /\ txn' = [txn EXCEPT ![w] = Idle]

(* The transaction fails (the gateway cannot be reached, the process is    *)
(* stopped) and is rolled back.                                            *)
Abort(w) ==
  /\ txn[w] # Idle
  /\ txn' = [txn EXCEPT ![w] = Idle]
  /\ UNCHANGED <<status, method, order, trans, age, grace, refused, credited,
                 balance, refunding, payout>>

-----------------------------------------------------------------------------
(* create_payment.                                                         *)

(* A mutant: the in-flight row is not looked for, only the paid one.       *)
UnpaidOnly(p) ==
  p \in ParkRows => \A q \in ParkRows : status[q] # "paid"

(* Neither a paid nor an in-flight row for the session (rows this          *)
(* transaction has just expired do not count).  With a paid one the        *)
(* handler answers 409, with one in flight it returns that row.            *)
Unpaid(p) ==
  p \in ParkRows =>
    \A q \in ParkRows : status[q] # "paid" /\ q \notin InFlight \ Stale

(* _resolve_session locks the entry event until the commit.                *)
SessionFree(p) ==
  p \in ParkRows =>
    \A w \in Callers : ~(txn[w].op = "create" /\ txn[w].pays \subseteq ParkRows)

BeginCreate(w, p, m) ==
  /\ status[p] = None /\ p \notin refused
  /\ p \in TopUps => m = "momo"
  /\ SessionFree(p) /\ Unpaid(p)
  /\ \A v \in Workers : p \notin txn[v].pays   \* a fresh id
  /\ Open(w, "create", {p}, m)

(* The provider accepts the order.                                         *)
FinishCreate(w, p) ==
  /\ txn[w].op = "create" /\ txn[w].pays = {p} /\ txn[w].by = "momo"
  /\ Close(w, {p}, [q \in {p} |-> "created"])
  /\ method' = [method EXCEPT ![p] = "momo"]
  /\ order' = [order EXCEPT ![p] = "open"]
  /\ UNCHANGED <<trans, age, grace, refused, credited, balance, refunding,
                 payout>>

(* MomoRejected: `failed' is flushed, but the 409 is raised inside the     *)
(* session's transaction, which rolls the row back.                        *)
RefuseCreate(w, p) ==
  /\ txn[w].op = "create" /\ txn[w].pays = {p} /\ txn[w].by = "momo"
  /\ refused' = refused \cup {p}
  /\ txn' = [txn EXCEPT ![w] = Idle]
  /\ UNCHANGED <<status, method, order, trans, age, grace, credited, balance,
                 refunding, payout>>

(* A mutant: the wallet may go below zero.                                 *)
AffordableAlways == TRUE

(* _apply: a debit below zero is refused.                                  *)
Affordable == balance >= 1

(* Paid from the wallet: debit and side effects in the same transaction.   *)
(* Without the balance the 409 rolls the row back, which is an Abort.      *)
FinishWallet(w, p) ==
  /\ txn[w].op = "create" /\ txn[w].pays = {p} /\ txn[w].by = "wallet"
  /\ WalletFree /\ Affordable
  /\ Close(w, {p}, [q \in {p} |-> "paid"])
  /\ method' = [method EXCEPT ![p] = "wallet"]
  /\ balance' = balance - 1
  /\ grace' = grace \cup ({p} \cap ParkRows)
  /\ UNCHANGED <<order, trans, age, refused, credited, refunding, payout>>

-----------------------------------------------------------------------------
(* list_payments, cancel_payment, get_payment and the reconcile job.       *)

(* list_payments, and every other handler that ends after its sweep.       *)
BeginList(w) == Stale # {} /\ Open(w, "list", {}, "momo")

FinishList(w) ==
  /\ txn[w].op = "list"
  /\ Close(w, {}, <<>>)
  /\ UNCHANGED <<method, order, trans, age, grace, refused, credited, balance,
                 refunding, payout>>

(* A mutant: a terminal row is cancelled too.                              *)
BeginCancelAny(w, p) ==
  status[p] # None /\ p \notin Stale /\ Open(w, "cancel", {p}, "momo")

(* A row the sweep has just expired, or a terminal one, is refused.        *)
BeginCancel(w, p) == p \in InFlight \ Stale /\ Open(w, "cancel", {p}, "momo")

FinishCancel(w) ==
  /\ txn[w].op = "cancel"
  /\ Close(w, txn[w].pays, [p \in txn[w].pays |-> "cancelled"])
  /\ UNCHANGED <<method, order, trans, age, grace, refused, credited, balance,
                 refunding, payout>>

(* A mutant: the refresh asks the provider about terminal rows too.        *)
RefreshableAny(p) == status[p] # None /\ method[p] = "momo"

(* The early return of _refresh_from_gateway.                              *)
Refreshable(p) == status[p] = "created" /\ method[p] = "momo"

BeginGet(w, p) ==
  /\ Refreshable(p) /\ p \notin Stale
  /\ Open(w, "refresh", {p}, "momo")

(* A mutant: the job leaves rows past expires_at to the sweep.             *)
DueUnexpired == {p \in Payments : Refreshable(p) /\ age[p] = 1}

(* The WHERE clause of the job's SELECT.                                   *)
Due == {p \in Payments : Refreshable(p) /\ age[p] >= 1}

(* Its LIMIT; any rows stand for the oldest ones.                          *)
Batches == {S \in SUBSET Due : S = Due \/ Cardinality(S) = JobLimit}

BeginReconcile ==
  Due # {} /\ \E S \in Batches : Open(Cron, "refresh", S, "momo")

(* A mutant: an order that is still open is taken for a paid one.          *)
AnswersOpenPaid(p) ==
  {"pending", "failed"} \cup (IF order[p] = "failed" THEN {} ELSE {"paid"})

(* query_status: resultCode 0 is `paid', 1000 and an HTTP error `pending', *)
(* and every other code `failed', the missing one and the codes of the     *)
(* provider's own errors included: an open or a paid order may answer so.  *)
Answers(p) == {"pending", "failed"} \cup ({order[p]} \cap {"paid"})

FinishRefresh(w, ans) ==
  /\ txn[w].op = "refresh"
  /\ \A p \in txn[w].pays : ans[p] \in Answers(p)
  /\ LET paid == {p \in txn[w].pays : ans[p] = "paid"}
         failed == {p \in txn[w].pays : ans[p] = "failed"}
     IN  Close(w, paid \cup failed, ans) /\ Settle(paid)
  /\ UNCHANGED <<method, order, trans, age, refused, refunding, payout>>

-----------------------------------------------------------------------------
(* handle_momo_ipn: the row is locked, read and written in one step.  The  *)
(* provider may send the notification of an order any number of times.     *)

(* An unknown order and a terminal row are acknowledged and left alone.    *)
IpnApplies(p) == status[p] \notin Terminal \cup {None}

IpnPaid(p) ==
  /\ order[p] = "paid" /\ IpnApplies(p) /\ p \notin refunding
  /\ status' = [status EXCEPT ![p] = "paid"]
  /\ trans' = trans \cup {p}
  /\ Settle({p})
  /\ UNCHANGED <<method, order, age, refused, txn, refunding, payout>>

IpnFailed(p) ==
  /\ order[p] = "failed" /\ IpnApplies(p) /\ p \notin refunding
  /\ status' = [status EXCEPT ![p] = "failed"]
  /\ UNCHANGED <<method, order, trans, age, grace, refused, credited, balance,
                 txn, refunding, payout>>

-----------------------------------------------------------------------------
(* refund_payment (tenant) and platform_refund_topup.                      *)

(* A payment from the wallet is credited back in one transaction.          *)
RefundWallet(p) ==
  /\ status[p] = "paid" /\ method[p] = "wallet" /\ WalletFree
  /\ status' = [status EXCEPT ![p] = "refunded"]
  /\ balance' = balance + 1
  /\ UNCHANGED <<method, order, trans, age, grace, refused, credited, txn,
                 refunding, payout>>

(* The row is locked (the wallet too, for a top-up) and the provider is    *)
(* asked.                                                                  *)
BeginRefund(p) ==
  /\ status[p] = "paid" /\ method[p] = "momo" /\ p \in trans
  /\ p \notin refunding
  /\ p \in TopUps => WalletFree /\ Affordable
  /\ refunding' = refunding \cup {p}
  /\ UNCHANGED <<status, method, order, trans, age, grace, refused, credited,
                 balance, txn, payout>>

(* The provider refunds an order once.                                     *)
RefundDone(p) ==
  /\ p \in refunding \ payout
  /\ status' = [status EXCEPT ![p] = "refunded"]
  /\ balance' = IF p \in TopUps THEN balance - 1 ELSE balance
  /\ payout' = payout \cup {p}
  /\ refunding' = refunding \ {p}
  /\ UNCHANGED <<method, order, trans, age, grace, refused, credited, txn>>

RefundRejected(p) ==
  /\ p \in refunding
  /\ refunding' = refunding \ {p}
  /\ UNCHANGED <<status, method, order, trans, age, grace, refused, credited,
                 balance, txn, payout>>

(* The provider refunds but its answer is lost: the row stays as it was.   *)
RefundLost(p) ==
  /\ p \in refunding \ payout
  /\ refunding' = refunding \ {p}
  /\ payout' = payout \cup {p}
  /\ UNCHANGED <<status, method, order, trans, age, grace, refused, credited,
                 balance, txn>>

-----------------------------------------------------------------------------
(* The gateway and the clock.  Cancelling or expiring a row does not close *)
(* its order.                                                              *)

OrderEnds(p, s) ==
  /\ order[p] = "open"
  /\ order' = [order EXCEPT ![p] = s]
  /\ UNCHANGED <<status, method, trans, age, grace, refused, credited,
                 balance, txn, refunding, payout>>

Age(p) ==
  /\ status[p] = "created" /\ age[p] < 2
  /\ age' = [age EXCEPT ![p] = @ + 1]
  /\ UNCHANGED <<status, method, order, trans, grace, refused, credited,
                 balance, txn, refunding, payout>>

GraceEnds(p) ==
  /\ p \in grace
  /\ grace' = grace \ {p}
  /\ UNCHANGED <<status, method, order, trans, age, refused, credited,
                 balance, txn, refunding, payout>>

-----------------------------------------------------------------------------
Verdicts == {"paid", "failed", "pending"}

CreateNext ==
  \E w \in Callers, p \in Payments :
    \/ \E m \in Methods : BeginCreate(w, p, m)
    \/ FinishCreate(w, p)
    \/ RefuseCreate(w, p)
    \/ FinishWallet(w, p)

ReadNext ==
  \/ \E w \in Callers : BeginList(w) \/ FinishList(w) \/ FinishCancel(w)
  \/ \E w \in Callers, p \in Payments : BeginCancel(w, p) \/ BeginGet(w, p)
  \/ BeginReconcile
  \/ \E w \in Workers : \E ans \in [txn[w].pays -> Verdicts] :
       FinishRefresh(w, ans)
  \/ \E w \in Workers : Abort(w)

IpnNext == \E p \in Payments : IpnPaid(p) \/ IpnFailed(p)

RefundEnds(p) == RefundDone(p) \/ RefundRejected(p) \/ RefundLost(p)

RefundNext ==
  \E p \in Payments : RefundWallet(p) \/ BeginRefund(p) \/ RefundEnds(p)

OutsideNext ==
  \E p \in Payments :
    \/ \E s \in {"paid", "failed"} : OrderEnds(p, s)
    \/ Age(p)
    \/ GraceEnds(p)

Next == CreateNext \/ ReadNext \/ IpnNext \/ RefundNext \/ OutsideNext

Spec == Init /\ [][Next]_vars

(* The job hears the provider's verdict on p.                              *)
ReconcileSettles(p) ==
  \E ans \in [txn[Cron].pays -> Verdicts] :
    /\ p \in txn[Cron].pays /\ ans[p] # "pending"
    /\ FinishRefresh(Cron, ans)

ReconcileEnds ==
  Abort(Cron) \/ \E ans \in [txn[Cron].pays -> Verdicts] :
                   FinishRefresh(Cron, ans)

(* Time passes, the job runs every five minutes and ends, its queries do   *)
(* not fail for ever, and a refund ends by its answer or by the 15 s       *)
(* timeout of the HTTP client.  Nothing is assumed of drivers, operators   *)
(* or notifications.                                                       *)
Fairness ==
  /\ WF_vars(BeginReconcile) /\ WF_vars(ReconcileEnds)
  /\ \A p \in Payments :
       /\ WF_vars(Age(p))
       /\ SF_vars(ReconcileSettles(p))
       /\ WF_vars(RefundEnds(p))

FairSpec == Spec /\ Fairness

-----------------------------------------------------------------------------
Txns == [op : {None, "create", "list", "cancel", "refresh"},
         pays : SUBSET Payments, stale : SUBSET Payments,
         saw : SUBSET Payments, by : Methods]

(* Type invariant.  The balance is a natural number: wallet_service        *)
(* refuses a debit below zero, and the refund of a top-up checks the       *)
(* balance before it waits for the provider and debits it afterwards.      *)
TypeOK ==
  /\ status \in [Payments -> Statuses \cup {None}]
  /\ method \in [Payments -> Methods]
  /\ order \in [Payments -> {None, "open", "paid", "failed"}]
  /\ age \in [Payments -> 0..2]
  /\ trans \subseteq Payments /\ grace \subseteq ParkRows
  /\ refused \subseteq Payments
  /\ credited \in [TopUps -> Nat] /\ balance \in Nat
  /\ txn \in [Workers -> Txns]
  /\ refunding \subseteq Payments /\ payout \subseteq Payments

(* A gateway payment is paid, refunded or credited only if its order was   *)
(* paid, whichever of the notification, the pull refresh and the job got   *)
(* there, in any order and however often (handle_momo_ipn,                 *)
(* _refresh_from_gateway).  Nothing like it holds of `failed': see         *)
(* FailedAsOrdered.                                                        *)
SettledAsOrdered ==
  \A p \in Payments :
    /\ method[p] = "momo" /\ status[p] \in {"paid", "refunded"}
         => order[p] = "paid"
    /\ p \in TopUps /\ credited[p] > 0 => order[p] = "paid"

(* At most one payment of a session is in flight, whatever overlaps:       *)
(* create_payment decides under the lock of the entry event (the comment   *)
(* in create_payment: "hand back the same row instead of minting a second  *)
(* one").                                                                  *)
OneInFlight == \A p, q \in InFlight \cap ParkRows : p = q

(* Why they hold.  A payment without a row has no order; a creation works  *)
(* on a payment of its own that has no row, every other transaction on     *)
(* rows that exist; a locked refund has a paid order behind it; and one    *)
(* top-up at a time is refunded, with the balance it needs.                *)
RowsFirst == \A p \in Payments : status[p] = None => order[p] = None

CreatesNew ==
  /\ \A w \in Workers : txn[w].op = "create" =>
       \A p \in txn[w].pays : status[p] = None
  /\ \A v, w \in Workers :
       v # w /\ txn[v].op = "create" /\ txn[w].op = "create" =>
         txn[v].pays \cap txn[w].pays = {}

ReadsExisting ==
  \A w \in Workers :
    /\ \A p \in txn[w].stale : status[p] # None
    /\ txn[w].op # "create" => \A p \in txn[w].pays : status[p] # None

(* What a transaction is to overwrite it has read as `created'.            *)
ReadCreated ==
  \A w \in Workers :
    /\ txn[w].stale \subseteq txn[w].saw
    /\ txn[w].op # "create" => txn[w].pays \subseteq txn[w].saw

RefundsCovered ==
  /\ \A p \in refunding : order[p] = "paid"
  /\ \A p, q \in refunding \cap TopUps : p = q
  /\ ~WalletFree => balance >= 1

(* The inductive invariant.                                                *)
PaymentInv ==
  /\ TypeOK /\ SettledAsOrdered
  /\ RowsFirst /\ CreatesNew /\ ReadsExisting /\ ReadCreated /\ RefundsCovered

(* Why at most one row is in flight: the rows that were when a creation    *)
(* for the session read them are the ones its sweep expires, and there is  *)
(* one such creation at a time.  A row locked by a refund stays paid.      *)
CreatesAlone ==
  \A w \in Callers : txn[w].op = "create" /\ txn[w].pays \subseteq ParkRows =>
    /\ InFlight \cap ParkRows \subseteq txn[w].stale
    /\ \A v \in Callers :
         txn[v].op = "create" /\ txn[v].pays \subseteq ParkRows => v = w

RefundHeld == \A p \in refunding : status[p] = "paid" /\ method[p] = "momo"

(* Inductive together with PaymentInv.                                     *)
SessionInv == OneInFlight /\ CreatesAlone /\ RefundHeld

(* However the notification, the refreshes and the job race, a top-up is   *)
(* credited at most once by the notification and once by each transaction  *)
(* that had read it as `created' (_refresh_from_gateway returns early on   *)
(* any other status).                                                      *)
CreditsBounded ==
  \A p \in TopUps : credited[p] <= 1 + Cardinality(Workers)

(* The status of p changes from a terminal one only as it may.             *)
TerminalStep(p) ==
  status[p] \in Terminal /\ status'[p] # status[p] =>
    \/ status[p] = "paid" /\ status'[p] = "refunded"
    \/ /\ status'[p] \in Terminal
       /\ \E w \in Workers : p \in txn[w].saw /\ txn'[w] = Idle

(* A terminal row changes by its refund, or by the commit of a transaction *)
(* that read it as `created' before it became terminal, and such a commit  *)
(* never takes it back to `created': notifications, refunds and            *)
(* transactions opened after it became terminal leave it alone (the status *)
(* checks of every handler).                                               *)
OverwrittenByReader == [][\A p \in Payments : TerminalStep(p)]_vars

(* A row that nobody ends otherwise (no cancellation, no sweep, no `failed'*)
(* verdict of the provider) is settled as paid once its order is, though   *)
(* the notification is lost: the reconcile job asks for it again and again *)
(* (reconcile_pending_payments).                                           *)
PaidOrderSettles ==
  \A p \in Payments :
    [](status[p] \notin {"cancelled", "expired", "failed"}) =>
      ((order[p] = "paid") ~> (status[p] \in {"paid", "refunded"}))

(* Expected violation.  The job's docstring promises "to recover lost IPN  *)
(* callbacks"; a sweep may write `expired' on a row whose order is paid,   *)
(* and the job leaves such a row alone.                                    *)
PaidNoticed ==
  \A p \in Payments :
    [](status[p] \notin {"cancelled", "failed"}) =>
      ((order[p] = "paid") ~> (status[p] \in {"paid", "refunded"}))

(* Expected violation.  The job's docstring says "Failed or unknown query  *)
(* results leave the payment unchanged for a later sweep".                 *)
FailedAsOrdered ==
  \A p \in Payments : status[p] = "failed" => order[p] = "failed"

(* Expected violation.  payment_service.py says "Terminal rows are never   *)
(* mutated again"; only the refund of a paid row may.                      *)
TerminalKept ==
  [][\A p \in Payments :
       status[p] \in Terminal =>
         \/ status'[p] = status[p]
         \/ status[p] = "paid" /\ status'[p] = "refunded"]_vars

(* Expected violation.  The requirements ask "topup paid -> credited       *)
(* once".                                                                  *)
CreditedOnce == \A p \in TopUps : credited[p] <= 1

(* Expected violation.  The requirements ask for "at most one payable      *)
(* payment and one settlement" per session.                                *)
OneSettlement == Cardinality({p \in ParkRows : status[p] = "paid"}) <= 1

(* Expected violation.  Test case PAY-18 expects of an order the provider  *)
(* rejects: "payment row `failed` persisted".                              *)
RefusedRowKept == \A p \in refused : status[p] = "failed"
=============================================================================
