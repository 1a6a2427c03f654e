---------------------------- MODULE PaymentProofs ----------------------------
(***************************************************************************)
(* For any number of top-ups, payments and overlapping requests: the       *)
(* wallet never goes below zero, no payment is settled against its order,  *)
(* a session has one payable payment, and a terminal row is overwritten    *)
(* only by a transaction that read it before.  PaymentInv, and SessionInv *)
(* beside it (module Payments), are inductive.                             *)
(***************************************************************************)
EXTENDS PaidExit, FiniteSetTheorems, TLAPS

USE PaymentsAssumption

-----------------------------------------------------------------------------
(* A worker reads rows: what it takes along must exist, and what it is to  *)
(* create must not, nor be created by another worker.                      *)
LEMMA OpenStep ==
  ASSUME PaymentInv, NEW w \in Workers, NEW op \in {"create", "list", "cancel", "refresh"},
         NEW S \in SUBSET Payments, NEW by \in Methods,
         Open(w, op, S, by),
         op = "create" => \A p \in S : /\ status[p] = None
                                       /\ \A v \in Workers : p \notin txn[v].pays,
         op # "create" => S \subseteq InFlight
  PROVE  PaymentInv'
<1> USE DEF PaymentInv, Open
<1>1. /\ Stale \subseteq InFlight /\ InFlight \subseteq Payments
      /\ \A p \in InFlight : status[p] # None
  BY DEF Stale, InFlight, None
<1>2. TypeOK'
  BY <1>1 DEF TypeOK, Txns
<1>3. SettledAsOrdered' /\ RowsFirst' /\ RefundsCovered'
  BY DEF SettledAsOrdered, RowsFirst, RefundsCovered, WalletFree
<1>4. CreatesNew'
  BY DEF CreatesNew, TypeOK, Txns
<1>5. ReadsExisting' /\ ReadCreated'
  BY <1>1 DEF ReadsExisting, ReadCreated, TypeOK, Txns
<1>6. QED
  BY <1>2, <1>3, <1>4, <1>5

(* A transaction ends without writing.                                     *)
LEMMA IdleStep ==
  ASSUME PaymentInv, NEW w \in Workers, txn' = [txn EXCEPT ![w] = Idle],
         refused' \in SUBSET Payments,
         UNCHANGED <<status, method, order, trans, age, grace, credited,
                     balance, refunding, payout>>
  PROVE  PaymentInv'
<1> USE DEF PaymentInv
<1>1. TypeOK'
  BY DEF TypeOK, Txns, Idle, Methods
<1>2. SettledAsOrdered' /\ RowsFirst' /\ RefundsCovered'
  BY DEF SettledAsOrdered, RowsFirst, RefundsCovered, WalletFree
<1>3. CreatesNew'
  BY DEF CreatesNew, TypeOK, Txns, Idle, None
<1>4. ReadsExisting' /\ ReadCreated'
  BY DEF ReadsExisting, ReadCreated, TypeOK, Txns, Idle
<1>5. QED
  BY <1>1, <1>2, <1>3, <1>4

(* A transaction commits: it writes only rows it has read or created, so   *)
(* what the others hold is still as they assume.                           *)
LEMMA CloseStep ==
  ASSUME PaymentInv, NEW w \in Workers, NEW S \in SUBSET Payments, NEW s,
         S \subseteq txn[w].pays, \A p \in S : s[p] \in Statuses,
         Close(w, S, s)
  PROVE  /\ status' \in [Payments -> Statuses \cup {None}]
         /\ txn' \in [Workers -> Txns]
         /\ \A p \in Payments : status[p] # None => status'[p] # None
         /\ CreatesNew' /\ ReadsExisting' /\ ReadCreated'
<1> USE DEF PaymentInv, Close, TypeOK
<1>1. status' \in [Payments -> Statuses \cup {None}]
  BY DEF Statuses
<1>2. txn' \in [Workers -> Txns]
  BY DEF Txns, Idle, Methods
<1>3. \A p \in Payments : status[p] # None => status'[p] # None
  BY DEF Statuses, None
<1>4. ASSUME NEW v \in Workers, v # w
      PROVE  txn'[v] = txn[v] /\ txn[v] \in Txns
  BY <1>4
<1>5. txn'[w] = Idle
  OBVIOUS
<1>6. ASSUME NEW v \in Workers, v # w, txn[v].op = "create",
             NEW p \in txn[v].pays
      PROVE  status'[p] = None
  <2>1. p \in Payments /\ status[p] = None
    BY <1>4, <1>6 DEF CreatesNew, Txns
  <2>2. p \notin txn[w].stale
    BY <2>1 DEF ReadsExisting
  <2>3. p \notin S
    BY <1>6, <2>1 DEF ReadsExisting, CreatesNew
  <2>4. QED
    BY <2>1, <2>2, <2>3
<1>7. CreatesNew'
  BY <1>4, <1>5, <1>6 DEF CreatesNew, Idle, None
<1>8. ReadsExisting'
  <2>1. ASSUME NEW v \in Workers, NEW p \in txn'[v].stale
        PROVE  status'[p] # None
    BY <1>3, <1>4, <1>5, <2>1 DEF ReadsExisting, Idle, Txns
  <2>2. ASSUME NEW v \in Workers, txn'[v].op # "create", NEW p \in txn'[v].pays
        PROVE  status'[p] # None
    BY <1>3, <1>4, <1>5, <2>2 DEF ReadsExisting, Idle, Txns
  <2>3. QED
    BY <2>1, <2>2 DEF ReadsExisting
<1>9. ReadCreated'
  BY <1>4, <1>5 DEF ReadCreated, Idle
<1>10. QED
  BY <1>1, <1>2, <1>3, <1>7, <1>8, <1>9

(* A settlement adds a whole number of units to the wallet.                *)
LEMMA SettleStep ==
  ASSUME TypeOK, NEW S \in SUBSET Payments, Settle(S)
  PROVE  /\ credited' \in [TopUps -> Nat] /\ grace' \subseteq ParkRows
         /\ balance' \in Nat /\ balance' >= balance
         /\ S \cap TopUps # {} => WalletFree
         /\ \A p \in TopUps \ S : credited'[p] = credited[p]
<1>1. IsFiniteSet(S \cap TopUps)
  BY FS_Subset, S \cap TopUps \subseteq TopUps
<1>2. Cardinality(S \cap TopUps) \in Nat
  BY <1>1, FS_CardinalityType
<1>3. QED
  BY <1>2 DEF Settle, TypeOK

-----------------------------------------------------------------------------
(* create_payment.                                                         *)
LEMMA CreateStep == ASSUME PaymentInv, CreateNext PROVE PaymentInv'
<1>1. PICK w \in Callers, p \in Payments :
        \/ \E m \in Methods : BeginCreate(w, p, m)
        \/ FinishCreate(w, p) \/ RefuseCreate(w, p) \/ FinishWallet(w, p)
  BY DEF CreateNext
<1>2. w \in Workers /\ w # Cron
  BY DEF Workers
<1>3. ASSUME NEW m \in Methods, BeginCreate(w, p, m) PROVE PaymentInv'
  BY <1>2, <1>3, OpenStep DEF BeginCreate
<1>4. CASE RefuseCreate(w, p)
  BY <1>2, <1>4, IdleStep DEF RefuseCreate, PaymentInv, TypeOK
<1>5. CASE FinishCreate(w, p)
  <2> DEFINE s == [q \in {p} |-> "created"]
  <2>1. status' = [q \in Payments |-> IF q \in {p} THEN s[q]
                                   ELSE IF q \in txn[w].stale THEN "expired"
                                   ELSE status[q]]
    BY <1>5 DEF FinishCreate, Close
  <2>2. status[p] = None /\ p \notin refunding
    BY <1>2, <1>5 DEF FinishCreate, PaymentInv, CreatesNew, Close
  <2>3. order[p] = None
    BY <2>2 DEF PaymentInv, RowsFirst
  <2>4. /\ status' \in [Payments -> Statuses \cup {None}]
        /\ txn' \in [Workers -> Txns] /\ CreatesNew' /\ ReadsExisting' /\ ReadCreated'
    <3>1. /\ {p} \in SUBSET Payments /\ {p} \subseteq txn[w].pays
          /\ \A q \in {p} : s[q] \in Statuses /\ Close(w, {p}, s)
      BY <1>5 DEF FinishCreate, Statuses
    <3> HIDE DEF s
    <3>2. QED
      BY <1>2, <3>1, CloseStep
  <2>5. TypeOK'
    BY <1>5, <2>4 DEF FinishCreate, PaymentInv, TypeOK, Methods
  <2>6. SettledAsOrdered' /\ RowsFirst'
    BY <1>5, <2>1, <2>2, <2>3
    DEF FinishCreate, PaymentInv, TypeOK, SettledAsOrdered, RowsFirst, None
  <2>7. RefundsCovered'
    BY <1>5, <2>2 DEF FinishCreate, PaymentInv, TypeOK, RefundsCovered, WalletFree
  <2>8. QED
    BY <2>4, <2>5, <2>6, <2>7 DEF PaymentInv
<1>6. CASE FinishWallet(w, p)
  <2> DEFINE s == [q \in {p} |-> "paid"]
  <2>1. status' = [q \in Payments |-> IF q \in {p} THEN s[q]
                                   ELSE IF q \in txn[w].stale THEN "expired"
                                   ELSE status[q]]
    BY <1>6 DEF FinishWallet, Close
  <2>2. status[p] = None
    BY <1>2, <1>6 DEF FinishWallet, PaymentInv, CreatesNew
  <2>4. /\ status' \in [Payments -> Statuses \cup {None}]
        /\ txn' \in [Workers -> Txns] /\ CreatesNew' /\ ReadsExisting' /\ ReadCreated'
    <3>1. /\ {p} \in SUBSET Payments /\ {p} \subseteq txn[w].pays
          /\ \A q \in {p} : s[q] \in Statuses /\ Close(w, {p}, s)
      BY <1>6 DEF FinishWallet, Statuses
    <3> HIDE DEF s
    <3>2. QED
      BY <1>2, <3>1, CloseStep
  <2>5. TypeOK'
    <3>1. balance' \in Nat
      BY <1>6 DEF FinishWallet, PaymentInv, TypeOK, Affordable
    <3>2. grace' \subseteq ParkRows /\ method' \in [Payments -> Methods]
      BY <1>6 DEF FinishWallet, PaymentInv, TypeOK, Methods
    <3>3. QED
      BY <1>6, <2>4, <3>1, <3>2 DEF FinishWallet, PaymentInv, TypeOK
  <2>6. SettledAsOrdered' /\ RowsFirst'
    BY <1>6, <2>1, <2>2
    DEF FinishWallet, PaymentInv, TypeOK, SettledAsOrdered, RowsFirst, None
  <2>7. RefundsCovered'
    BY <1>6 DEF FinishWallet, PaymentInv, TypeOK, RefundsCovered, WalletFree
  <2>8. QED
    BY <2>4, <2>5, <2>6, <2>7 DEF PaymentInv
<1>7. QED
  BY <1>1, <1>3, <1>4, <1>5, <1>6

-----------------------------------------------------------------------------
(* list_payments, cancel_payment, get_payment and the reconcile job.  A    *)
(* commit that overwrites rows, locked by nobody, and settles only those   *)
(* whose orders are paid.                                                  *)
LEMMA OverwriteStep ==
  ASSUME PaymentInv, NEW w \in Workers, NEW S \in SUBSET Payments, NEW s,
         S \subseteq txn[w].pays, txn[w].op # "create", Close(w, S, s),
         \A p \in S : \/ s[p] \in {"cancelled", "failed"}
                      \/ s[p] = "paid" /\ order[p] = "paid",
         credited' \in [TopUps -> Nat], grace' \subseteq ParkRows,
         balance' \in Nat, balance' >= balance,
         \A p \in TopUps : credited'[p] # credited[p] => order[p] = "paid",
         UNCHANGED <<method, order, trans, age, refused, refunding, payout>>
  PROVE  PaymentInv'
<1>1. \A p \in S : s[p] \in Statuses
  BY DEF Statuses
<1>2. /\ status' \in [Payments -> Statuses \cup {None}]
      /\ txn' \in [Workers -> Txns] /\ CreatesNew' /\ ReadsExisting' /\ ReadCreated'
      /\ \A p \in Payments : status[p] # None => status'[p] # None
  BY <1>1, CloseStep
<1>3. TypeOK'
  BY <1>2 DEF PaymentInv, TypeOK
<1>4. \A p \in Payments : \/ status'[p] = status[p]
                          \/ status'[p] \in {"cancelled", "expired", "failed"}
                          \/ status'[p] = "paid" /\ order[p] = "paid"
  BY DEF Close
<1>5. SettledAsOrdered'
  BY <1>4 DEF PaymentInv, SettledAsOrdered, TypeOK
<1>6. RowsFirst'
  BY <1>2 DEF PaymentInv, RowsFirst
<1>7. RefundsCovered'
  BY DEF PaymentInv, RefundsCovered, WalletFree, TypeOK
<1>8. QED
  BY <1>2, <1>3, <1>5, <1>6, <1>7 DEF PaymentInv

LEMMA ReadStep == ASSUME PaymentInv, ReadNext PROVE PaymentInv'
<1> USE DEF Workers
<1>1. ASSUME NEW w \in Callers, BeginList(w) PROVE PaymentInv'
  <2>1. {} \in SUBSET Payments /\ "momo" \in Methods /\ Open(w, "list", {}, "momo")
    BY <1>1 DEF BeginList, Methods
  <2>2. QED
    BY <2>1, OpenStep
<1>2. ASSUME NEW w \in Callers, NEW p \in Payments, BeginCancel(w, p)
      PROVE  PaymentInv'
  <2>1. "momo" \in Methods /\ Open(w, "cancel", {p}, "momo") /\ {p} \subseteq InFlight
    BY <1>2 DEF BeginCancel, Methods
  <2>2. QED
    BY <2>1, OpenStep
<1>3. ASSUME NEW w \in Callers, NEW p \in Payments, BeginGet(w, p)
      PROVE  PaymentInv'
  <2>1. "momo" \in Methods /\ Open(w, "refresh", {p}, "momo") /\ {p} \subseteq InFlight
    BY <1>3 DEF BeginGet, Methods, Refreshable, InFlight
  <2>2. QED
    BY <2>1, OpenStep
<1>4. CASE BeginReconcile
  <2>1. PICK S \in SUBSET Due : Open(Cron, "refresh", S, "momo")
    BY <1>4 DEF BeginReconcile, Batches
  <2>2. /\ "momo" \in Methods /\ S \in SUBSET Payments /\ S \subseteq InFlight
    BY DEF Methods, Due, Refreshable, InFlight
  <2>3. QED
    BY <2>1, <2>2, OpenStep
<1>5. ASSUME NEW w \in Workers, Abort(w) PROVE PaymentInv'
  BY <1>5, IdleStep DEF Abort, PaymentInv, TypeOK
<1>6. ASSUME NEW w \in Callers, FinishList(w) PROVE PaymentInv'
  <2> DEFINE S == {}
             s == <<>>
  <2>1. /\ S \in SUBSET Payments /\ S \subseteq txn[w].pays
        /\ txn[w].op # "create" /\ Close(w, S, s)
        /\ \A p \in S : s[p] = "cancelled"
    BY <1>6 DEF FinishList
  <2>2. /\ UNCHANGED <<method, order, trans, age, grace, refused, credited,
                       balance, refunding, payout>>
        /\ credited \in [TopUps -> Nat] /\ grace \subseteq ParkRows
        /\ balance \in Nat
    BY <1>6 DEF FinishList, PaymentInv, TypeOK
  <2> HIDE DEF S, s
  <2>3. QED
    BY <2>1, <2>2, OverwriteStep
<1>7. ASSUME NEW w \in Callers, FinishCancel(w) PROVE PaymentInv'
  <2> DEFINE S == txn[w].pays
             s == [p \in S |-> "cancelled"]
  <2>1. /\ S \in SUBSET Payments /\ txn[w].op # "create" /\ Close(w, S, s)
        /\ \A p \in S : s[p] = "cancelled"
    BY <1>7 DEF FinishCancel, PaymentInv, TypeOK, Txns
  <2>2. /\ UNCHANGED <<method, order, trans, age, grace, refused, credited,
                       balance, refunding, payout>>
        /\ credited \in [TopUps -> Nat] /\ grace \subseteq ParkRows
        /\ balance \in Nat
    BY <1>7 DEF FinishCancel, PaymentInv, TypeOK
  <2> HIDE DEF s
  <2>3. QED
    BY <2>1, <2>2, OverwriteStep
<1>8. ASSUME NEW w \in Workers, NEW ans \in [txn[w].pays -> Verdicts],
             FinishRefresh(w, ans)
      PROVE  PaymentInv'
  <2> DEFINE paid == {p \in txn[w].pays : ans[p] = "paid"}
             failed == {p \in txn[w].pays : ans[p] = "failed"}
  <2>1. /\ txn[w].op # "create"
        /\ Close(w, paid \cup failed, ans) /\ Settle(paid)
        /\ UNCHANGED <<method, order, trans, age, refused, refunding, payout>>
    BY <1>8 DEF FinishRefresh
  <2>2. paid \in SUBSET Payments /\ paid \cup failed \in SUBSET Payments
    BY DEF PaymentInv, TypeOK, Txns
  <2>3. \A p \in paid \cup failed : \/ ans[p] \in {"cancelled", "failed"}
                                    \/ ans[p] = "paid" /\ order[p] = "paid"
    BY <1>8 DEF FinishRefresh, Answers
  <2>4. paid \cup failed \subseteq txn[w].pays
    OBVIOUS
  <2>5. \A p \in paid : order[p] = "paid"
    BY <2>3
  <2> HIDE DEF paid, failed
  <2>6. /\ credited' \in [TopUps -> Nat] /\ grace' \subseteq ParkRows
        /\ balance' \in Nat /\ balance' >= balance
        /\ \A p \in TopUps : credited'[p] # credited[p] => order[p] = "paid"
    BY <2>1, <2>2, <2>5, SettleStep DEF PaymentInv
  <2>7. QED
    BY <2>1, <2>2, <2>3, <2>4, <2>6, OverwriteStep
<1>9. QED
  BY <1>1, <1>2, <1>3, <1>4, <1>5, <1>6, <1>7, <1>8 DEF ReadNext

-----------------------------------------------------------------------------
(* handle_momo_ipn: the row exists, and is settled as its order was.       *)
LEMMA IpnStep == ASSUME PaymentInv, IpnNext PROVE PaymentInv'
<1>1. PICK p \in Payments : IpnPaid(p) \/ IpnFailed(p)
  BY DEF IpnNext
<1>2. status[p] # None
  BY <1>1 DEF IpnPaid, IpnFailed, IpnApplies
<1>3. /\ \E s \in {"paid", "failed"} :
           status' = [status EXCEPT ![p] = s] /\ order[p] = s
      /\ UNCHANGED <<method, order, txn, refunding>>
  BY <1>1 DEF IpnPaid, IpnFailed
<1>4. /\ credited' \in [TopUps -> Nat] /\ grace' \subseteq ParkRows
      /\ balance' \in Nat /\ balance' >= balance
      /\ \A q \in TopUps : credited'[q] # credited[q] => order[q] = "paid"
  <2>1. CASE IpnPaid(p)
    BY <2>1, SettleStep DEF IpnPaid, PaymentInv
  <2>2. CASE IpnFailed(p)
    BY <2>2 DEF IpnFailed, PaymentInv, TypeOK
  <2>3. QED
    BY <1>1, <2>1, <2>2
<1>5. TypeOK'
  BY <1>1, <1>3, <1>4 DEF IpnPaid, IpnFailed, PaymentInv, TypeOK, Statuses
<1>6. SettledAsOrdered'
  BY <1>3, <1>4 DEF PaymentInv, SettledAsOrdered, TypeOK
<1>7. RowsFirst' /\ RefundsCovered'
  BY <1>2, <1>3, <1>4
  DEF PaymentInv, RowsFirst, RefundsCovered, WalletFree, TypeOK
<1>8. CreatesNew' /\ ReadsExisting' /\ ReadCreated'
  BY <1>2, <1>3 DEF PaymentInv, CreatesNew, ReadsExisting, ReadCreated, TypeOK, Txns, None
<1>9. QED
  BY <1>5, <1>6, <1>7, <1>8 DEF PaymentInv

(* refund_payment and platform_refund_topup.                               *)
LEMMA RefundStep == ASSUME PaymentInv, RefundNext PROVE PaymentInv'
<1>1. PICK p \in Payments : RefundWallet(p) \/ BeginRefund(p) \/ RefundEnds(p)
  BY DEF RefundNext
<1>2. CASE RefundWallet(p)
  <2>1. status[p] = "paid" /\ status' = [status EXCEPT ![p] = "refunded"]
        /\ UNCHANGED <<method, order, txn, refunding, credited>>
    BY <1>2 DEF RefundWallet
  <2>2. TypeOK' /\ RefundsCovered'
    BY <1>2 DEF RefundWallet, PaymentInv, TypeOK, Statuses, RefundsCovered, WalletFree
  <2>3. SettledAsOrdered' /\ RowsFirst'
    BY <2>1 DEF PaymentInv, TypeOK, SettledAsOrdered, RowsFirst, None
  <2>4. CreatesNew' /\ ReadsExisting' /\ ReadCreated'
    BY <2>1 DEF PaymentInv, TypeOK, CreatesNew, ReadsExisting, ReadCreated, Txns, None
  <2>5. QED
    BY <2>2, <2>3, <2>4 DEF PaymentInv
<1>3. CASE BeginRefund(p)
  <2>1. order[p] = "paid"
    BY <1>3 DEF BeginRefund, PaymentInv, SettledAsOrdered
  <2>2. TypeOK'
    BY <1>3 DEF BeginRefund, PaymentInv, TypeOK
  <2>3. RefundsCovered'
    BY <1>3, <2>1
    DEF BeginRefund, PaymentInv, TypeOK, RefundsCovered, WalletFree, Affordable
  <2>4. SettledAsOrdered' /\ RowsFirst' /\ CreatesNew' /\ ReadsExisting' /\ ReadCreated'
    BY <1>3 DEF BeginRefund, PaymentInv, SettledAsOrdered, RowsFirst, CreatesNew,
                ReadsExisting, ReadCreated
  <2>5. QED
    BY <2>2, <2>3, <2>4 DEF PaymentInv
<1>4. CASE RefundDone(p)
  <2>1. /\ order[p] = "paid"
        /\ status' = [status EXCEPT ![p] = "refunded"]
        /\ UNCHANGED <<method, order, txn, credited>>
    BY <1>4 DEF RefundDone, PaymentInv, RefundsCovered
  <2>2. status[p] # None
    BY <2>1 DEF PaymentInv, RowsFirst, None
  <2>3. p \in TopUps => balance >= 1 /\ \A q \in refunding \cap TopUps : q = p
    BY <1>4 DEF RefundDone, PaymentInv, RefundsCovered, WalletFree
  <2>4. TypeOK'
    BY <1>4, <2>3 DEF RefundDone, PaymentInv, TypeOK, Statuses
  <2>5. RefundsCovered'
    BY <1>4, <2>3 DEF RefundDone, PaymentInv, TypeOK, RefundsCovered, WalletFree
  <2>6. SettledAsOrdered' /\ RowsFirst'
    BY <2>1, <2>2 DEF PaymentInv, TypeOK, SettledAsOrdered, RowsFirst, None
  <2>7. CreatesNew' /\ ReadsExisting' /\ ReadCreated'
    BY <2>1, <2>2 DEF PaymentInv, TypeOK, CreatesNew, ReadsExisting, ReadCreated, Txns, None
  <2>8. QED
    BY <2>4, <2>5, <2>6, <2>7 DEF PaymentInv
<1>5. CASE RefundRejected(p) \/ RefundLost(p)
  <2>1. /\ refunding' = refunding \ {p} /\ payout' \subseteq payout \cup {p}
        /\ UNCHANGED <<status, method, order, trans, age, grace, refused,
                       credited, balance, txn>>
    BY <1>5 DEF RefundRejected, RefundLost
  <2>2. TypeOK'
    BY <2>1 DEF PaymentInv, TypeOK
  <2>3. RefundsCovered'
    BY <2>1 DEF PaymentInv, TypeOK, RefundsCovered, WalletFree
  <2>4. SettledAsOrdered' /\ RowsFirst' /\ CreatesNew' /\ ReadsExisting' /\ ReadCreated'
    BY <2>1 DEF PaymentInv, SettledAsOrdered, RowsFirst, CreatesNew, ReadsExisting, ReadCreated
  <2>5. QED
    BY <2>2, <2>3, <2>4 DEF PaymentInv
<1>6. QED
  BY <1>1, <1>2, <1>3, <1>4, <1>5 DEF RefundEnds

(* The gateway and the clock: an order that has ended stays as it is.      *)
LEMMA OutsideStep == ASSUME PaymentInv, OutsideNext PROVE PaymentInv'
<1>1. PICK p \in Payments :
        (\E s \in {"paid", "failed"} : OrderEnds(p, s)) \/ Age(p) \/ GraceEnds(p)
  BY DEF OutsideNext
<1>2. ASSUME NEW s \in {"paid", "failed"}, OrderEnds(p, s) PROVE PaymentInv'
  <2>1. TypeOK'
    BY <1>2 DEF OrderEnds, PaymentInv, TypeOK
  <2>2. SettledAsOrdered' /\ RowsFirst'
    BY <1>2 DEF OrderEnds, PaymentInv, TypeOK, SettledAsOrdered, RowsFirst, None
  <2>3. RefundsCovered' /\ CreatesNew' /\ ReadsExisting' /\ ReadCreated'
    BY <1>2 DEF OrderEnds, PaymentInv, TypeOK, RefundsCovered, WalletFree,
                CreatesNew, ReadsExisting, ReadCreated
  <2>4. QED
    BY <2>1, <2>2, <2>3 DEF PaymentInv
<1>3. CASE Age(p) \/ GraceEnds(p)
  <2>1. TypeOK'
    BY <1>3 DEF Age, GraceEnds, PaymentInv, TypeOK
  <2>2. /\ SettledAsOrdered' /\ RowsFirst' /\ RefundsCovered' /\ CreatesNew'
        /\ ReadsExisting' /\ ReadCreated'
    BY <1>3 DEF Age, GraceEnds, PaymentInv, SettledAsOrdered, RowsFirst,
                RefundsCovered, WalletFree, CreatesNew, ReadsExisting, ReadCreated
  <2>3. QED
    BY <2>1, <2>2 DEF PaymentInv
<1>4. QED
  BY <1>1, <1>2, <1>3

-----------------------------------------------------------------------------
(* The invariant holds before the first payment.                           *)
LEMMA PaymentInit == Init => PaymentInv
<1> SUFFICES ASSUME Init PROVE PaymentInv
  OBVIOUS
<1>1. TypeOK
  BY DEF Init, TypeOK, Txns, Idle, Methods
<1>2. SettledAsOrdered /\ RowsFirst /\ RefundsCovered
  BY DEF Init, SettledAsOrdered, RowsFirst, RefundsCovered, WalletFree, None
<1>3. CreatesNew /\ ReadsExisting /\ ReadCreated
  BY DEF Init, CreatesNew, ReadsExisting, ReadCreated, Idle, None
<1>4. QED
  BY <1>1, <1>2, <1>3 DEF PaymentInv

(* Every step keeps it.                                                    *)
LEMMA PaymentKeeps == PaymentInv /\ [Next]_vars => PaymentInv'
<1> SUFFICES ASSUME PaymentInv, [Next]_vars PROVE PaymentInv'
  OBVIOUS
<1>1. CASE UNCHANGED vars
  BY <1>1 DEF vars, PaymentInv, TypeOK, SettledAsOrdered, RowsFirst, CreatesNew,
              ReadsExisting, ReadCreated, RefundsCovered, WalletFree
<1>2. QED
  BY <1>1, CreateStep, ReadStep, IpnStep, RefundStep, OutsideStep DEF Next

(* The inductive invariant holds in every reachable state.                 *)
LEMMA PaymentInvariant == Spec => []PaymentInv
  BY PaymentInit, PaymentKeeps, PTL DEF Spec

(* The types, and with them that the wallet's balance never goes below     *)
(* zero: no spending, and no refund that waits for the provider with the   *)
(* wallet locked, overdraws it (wallet_service._apply,                     *)
(* platform_refund_topup).                                                 *)
THEOREM PaymentTypeCorrect == Spec => []TypeOK
<1>1. PaymentInv => TypeOK
  BY DEF PaymentInv
<1>2. QED
  BY <1>1, PaymentInvariant, PTL

(* No payment is settled against its order, though the refresh, the job,   *)
(* the cancellation and the sweep overwrite rows they read without a lock  *)
(* (handle_momo_ipn, _refresh_from_gateway).                               *)
THEOREM SettlementSound == Spec => []SettledAsOrdered
<1>1. PaymentInv => SettledAsOrdered
  BY DEF PaymentInv
<1>2. QED
  BY <1>1, PaymentInvariant, PTL

-----------------------------------------------------------------------------
(* One payment of a session in flight, and rows that a refund has locked.  *)

(* A step that puts no row in flight, begins no creation and locks or      *)
(* changes no row under refund.                                            *)
LEMMA QuietSession ==
  ASSUME PaymentInv, SessionInv,
         \A p \in Payments : status'[p] = "created" => status[p] = "created",
         \A v \in Callers : txn'[v] = txn[v] \/ txn'[v].op # "create",
         refunding' \subseteq refunding,
         \A p \in refunding' : status'[p] = status[p] /\ method'[p] = method[p]
  PROVE  SessionInv'
<1>1. InFlight' \subseteq InFlight
  BY DEF InFlight
<1>2. OneInFlight'
  BY <1>1 DEF SessionInv, OneInFlight
<1>3. CreatesAlone'
  BY <1>1 DEF SessionInv, CreatesAlone
<1>4. RefundHeld'
  BY DEF SessionInv, RefundHeld
<1>5. QED
  BY <1>2, <1>3, <1>4 DEF SessionInv

(* A commit that writes no `created' row is such a step.                   *)
LEMMA CloseQuiet ==
  ASSUME PaymentInv, SessionInv, NEW w \in Workers,
         NEW S \in SUBSET Payments, NEW s, Close(w, S, s),
         \A p \in S : s[p] # "created",
         UNCHANGED refunding,
         \A p \in refunding : method'[p] = method[p]
  PROVE  SessionInv'
<1>1. \A p \in Payments : status'[p] = "created" => status[p] = "created"
  BY DEF Close
<1>2. \A v \in Callers : txn'[v] = txn[v] \/ txn'[v].op # "create"
  BY DEF Close, PaymentInv, TypeOK, Idle, None, Workers
<1>3. \A p \in refunding' : status'[p] = status[p]
  BY DEF Close, PaymentInv, TypeOK
<1>4. QED
  BY <1>1, <1>2, <1>3, QuietSession

(* create_payment.                                                         *)
LEMMA CreateSession == ASSUME PaymentInv, SessionInv, CreateNext PROVE SessionInv'
<1>1. PICK w \in Callers, p \in Payments :
        \/ \E m \in Methods : BeginCreate(w, p, m)
        \/ FinishCreate(w, p) \/ RefuseCreate(w, p) \/ FinishWallet(w, p)
  BY DEF CreateNext
<1>2. w \in Workers
  BY DEF Workers
<1>3. ASSUME NEW m \in Methods, BeginCreate(w, p, m) PROVE SessionInv'
  <2>1. /\ UNCHANGED <<status, method, refunding>>
        /\ txn'[w].op = "create" /\ txn'[w].pays = {p} /\ txn'[w].stale = Stale
        /\ \A v \in Callers \ {w} : txn'[v] = txn[v]
        /\ SessionFree(p) /\ Unpaid(p) /\ txn[w] = Idle
    BY <1>2, <1>3 DEF BeginCreate, Open, PaymentInv, TypeOK, Workers
  <2>2. OneInFlight' /\ RefundHeld' /\ InFlight' = InFlight
    BY <2>1 DEF SessionInv, OneInFlight, RefundHeld, InFlight
  <2>3. CreatesAlone'
    <3>1. CASE p \in ParkRows
      <4>1. InFlight \cap ParkRows \subseteq Stale
        BY <2>1, <3>1 DEF Unpaid
      <4>2. \A v \in Callers : ~(txn[v].op = "create" /\ txn[v].pays \subseteq ParkRows)
        BY <2>1, <3>1 DEF SessionFree
      <4>3. QED
        BY <2>1, <2>2, <4>1, <4>2 DEF CreatesAlone
    <3>2. CASE p \notin ParkRows
      BY <2>1, <2>2, <3>2 DEF SessionInv, CreatesAlone
    <3>3. QED
      BY <3>1, <3>2
  <2>4. QED
    BY <2>2, <2>3 DEF SessionInv
<1>4. CASE RefuseCreate(w, p)
  <2>1. \A v \in Callers : txn'[v] = txn[v] \/ txn'[v].op # "create"
    BY <1>4 DEF RefuseCreate, PaymentInv, TypeOK, Idle, None, Workers
  <2>2. UNCHANGED <<status, method, refunding>>
    BY <1>4 DEF RefuseCreate
  <2>3. QED
    BY <2>1, <2>2, QuietSession
<1>5. CASE FinishWallet(w, p)
  <2> DEFINE s == [q \in {p} |-> "paid"]
  <2>1. Close(w, {p}, s) /\ UNCHANGED refunding /\ \A q \in {p} : s[q] # "created"
    BY <1>5 DEF FinishWallet
  <2>2. \A q \in refunding : method'[q] = method[q]
    BY <1>5 DEF FinishWallet, Close, PaymentInv, TypeOK
  <2>3. {p} \in SUBSET Payments
    OBVIOUS
  <2> HIDE DEF s
  <2>4. QED
    BY <1>2, <2>1, <2>2, <2>3, CloseQuiet
<1>6. CASE FinishCreate(w, p)
  <2>1. /\ txn[w].op = "create" /\ txn[w].pays = {p}
        /\ ({p} \cup txn[w].stale) \cap refunding = {}
        /\ status' = [q \in Payments |-> IF q \in {p} THEN "created"
                                       ELSE IF q \in txn[w].stale THEN "expired"
                                       ELSE status[q]]
        /\ method' = [method EXCEPT ![p] = "momo"] /\ UNCHANGED refunding
        /\ txn' = [txn EXCEPT ![w] = Idle]
    BY <1>6 DEF FinishCreate, Close
  <2>2. RefundHeld'
    BY <2>1 DEF SessionInv, RefundHeld, PaymentInv, TypeOK
  <2>3. \A v \in Callers : \/ v # w /\ txn'[v] = txn[v]
                           \/ v = w /\ txn'[v].op # "create"
    BY <1>2, <2>1 DEF PaymentInv, TypeOK, Idle, None, Workers
  <2>4. CASE p \in ParkRows
    <3>1. InFlight \cap ParkRows \subseteq txn[w].stale
      BY <2>1, <2>4 DEF SessionInv, CreatesAlone
    <3>2. InFlight' \cap ParkRows \subseteq {p}
      BY <2>1, <3>1 DEF InFlight
    <3>3. OneInFlight'
      BY <3>2 DEF OneInFlight
    <3>4. CreatesAlone'
      BY <2>1, <2>3, <2>4 DEF SessionInv, CreatesAlone
    <3>5. QED
      BY <2>2, <3>3, <3>4 DEF SessionInv
  <2>5. CASE p \notin ParkRows
    <3>1. InFlight' \cap ParkRows \subseteq InFlight \cap ParkRows
      BY <2>1, <2>5 DEF InFlight
    <3>2. OneInFlight' /\ CreatesAlone'
      BY <2>3, <3>1 DEF SessionInv, OneInFlight, CreatesAlone
    <3>3. QED
      BY <2>2, <3>2 DEF SessionInv
  <2>6. QED
    BY <2>4, <2>5
<1>7. QED
  BY <1>1, <1>3, <1>4, <1>5, <1>6

(* The other handlers put no row in flight.                                *)
LEMMA ReadSession == ASSUME PaymentInv, SessionInv, ReadNext PROVE SessionInv'
<1> USE DEF Workers
<1>1. ASSUME NEW w \in Workers, NEW op \in {"list", "cancel", "refresh"},
             NEW S, NEW by, Open(w, op, S, by)
      PROVE  SessionInv'
  <2>1. UNCHANGED <<status, method, refunding>>
    BY <1>1 DEF Open
  <2>2. \A v \in Callers : txn'[v] = txn[v] \/ txn'[v].op # "create"
    BY <1>1 DEF Open, PaymentInv, TypeOK
  <2>3. QED
    BY <2>1, <2>2, QuietSession
<1>2. ASSUME NEW w \in Callers, BeginList(w) PROVE SessionInv'
  BY <1>1, <1>2 DEF BeginList
<1>3. ASSUME NEW w \in Callers, NEW p \in Payments, BeginCancel(w, p) \/ BeginGet(w, p)
      PROVE  SessionInv'
  BY <1>1, <1>3 DEF BeginCancel, BeginGet
<1>4. CASE BeginReconcile
  BY <1>1, <1>4 DEF BeginReconcile
<1>5. ASSUME NEW w \in Workers, Abort(w) PROVE SessionInv'
  <2>1. UNCHANGED <<status, method, refunding>>
    BY <1>5 DEF Abort
  <2>2. \A v \in Callers : txn'[v] = txn[v] \/ txn'[v].op # "create"
    BY <1>5 DEF Abort, PaymentInv, TypeOK, Idle, None
  <2>3. QED
    BY <2>1, <2>2, QuietSession
<1>6. ASSUME NEW w \in Callers, FinishList(w) PROVE SessionInv'
  <2> DEFINE S == {}
             s == <<>>
  <2>1. /\ S \in SUBSET Payments /\ Close(w, S, s) /\ UNCHANGED <<method, refunding>>
        /\ \A p \in S : s[p] # "created"
    BY <1>6 DEF FinishList
  <2> HIDE DEF S, s
  <2>2. QED
    BY <2>1, CloseQuiet
<1>7. ASSUME NEW w \in Callers, FinishCancel(w) PROVE SessionInv'
  <2> DEFINE S == txn[w].pays
             s == [p \in S |-> "cancelled"]
  <2>1. /\ S \in SUBSET Payments /\ Close(w, S, s) /\ UNCHANGED <<method, refunding>>
        /\ \A p \in S : s[p] # "created"
    BY <1>7 DEF FinishCancel, PaymentInv, TypeOK, Txns
  <2> HIDE DEF S, s
  <2>2. QED
    BY <2>1, CloseQuiet
<1>8. ASSUME NEW w \in Workers, NEW ans \in [txn[w].pays -> Verdicts],
             FinishRefresh(w, ans)
      PROVE  SessionInv'
  <2> DEFINE S == {p \in txn[w].pays : ans[p] = "paid"} \cup
                  {p \in txn[w].pays : ans[p] = "failed"}
  <2>1. /\ S \in SUBSET Payments /\ Close(w, S, ans) /\ UNCHANGED <<method, refunding>>
        /\ \A p \in S : ans[p] # "created"
    BY <1>8 DEF FinishRefresh, PaymentInv, TypeOK, Txns
  <2> HIDE DEF S
  <2>2. QED
    BY <2>1, CloseQuiet
<1>9. QED
  BY <1>2, <1>3, <1>4, <1>5, <1>6, <1>7, <1>8 DEF ReadNext

(* Notifications, refunds, the gateway and the clock.                      *)
LEMMA OtherSession ==
  ASSUME PaymentInv, SessionInv, IpnNext \/ RefundNext \/ OutsideNext
  PROVE  SessionInv'
<1>1. ASSUME NEW p \in Payments, IpnPaid(p) \/ IpnFailed(p) PROVE SessionInv'
  <2>1. /\ \E s \in {"paid", "failed"} : status' = [status EXCEPT ![p] = s]
        /\ p \notin refunding /\ UNCHANGED <<method, txn, refunding>>
    BY <1>1 DEF IpnPaid, IpnFailed
  <2>2. QED
    BY <2>1, QuietSession DEF PaymentInv, TypeOK
<1>2. ASSUME NEW p \in Payments, RefundWallet(p) PROVE SessionInv'
  <2>1. /\ status' = [status EXCEPT ![p] = "refunded"]
        /\ p \notin refunding /\ UNCHANGED <<method, txn, refunding>>
    BY <1>2 DEF RefundWallet, SessionInv, RefundHeld
  <2>2. QED
    BY <2>1, QuietSession DEF PaymentInv, TypeOK
<1>3. ASSUME NEW p \in Payments, BeginRefund(p) PROVE SessionInv'
  BY <1>3 DEF BeginRefund, SessionInv, OneInFlight, CreatesAlone, RefundHeld, InFlight
<1>4. ASSUME NEW p \in Payments, RefundEnds(p) PROVE SessionInv'
  <2>1. /\ refunding' = refunding \ {p} /\ UNCHANGED <<method, txn>>
        /\ status' = status \/ status' = [status EXCEPT ![p] = "refunded"]
    BY <1>4 DEF RefundEnds, RefundDone, RefundRejected, RefundLost
  <2>2. QED
    BY <2>1, QuietSession DEF PaymentInv, TypeOK
<1>5. CASE OutsideNext
  BY <1>5, QuietSession DEF OutsideNext, OrderEnds, Age, GraceEnds
<1>6. QED
  BY <1>1, <1>2, <1>3, <1>4, <1>5 DEF IpnNext, RefundNext

(* Both invariants hold in every reachable state.                          *)
LEMMA SessionInvariant == Spec => [](PaymentInv /\ SessionInv)
<1>1. Init => SessionInv
  BY DEF Init, SessionInv, OneInFlight, CreatesAlone, RefundHeld, InFlight, Idle,
         None, Workers
<1>2. PaymentInv /\ SessionInv /\ [Next]_vars => SessionInv'
  <2> SUFFICES ASSUME PaymentInv, SessionInv, [Next]_vars PROVE SessionInv'
    OBVIOUS
  <2>1. CASE UNCHANGED vars
    BY <2>1, QuietSession DEF vars
  <2>2. QED
    BY <2>1, CreateSession, ReadSession, OtherSession DEF Next
<1>3. QED
  BY <1>1, <1>2, PaymentInvariant, PTL DEF Spec

(* At most one payment of a session is payable, for any number of requests *)
(* that overlap: the lock of the entry event in _resolve_session, and the  *)
(* sweep of the same transaction (create_payment).                         *)
THEOREM OnePayable == Spec => []OneInFlight
<1>1. SessionInv => OneInFlight
  BY DEF SessionInv
<1>2. QED
  BY <1>1, SessionInvariant, PTL

-----------------------------------------------------------------------------
(* Terminal rows.                                                          *)

(* A commit overwrites rows that its transaction has read as `created', or *)
(* creates them.                                                           *)
LEMMA CloseTerminal ==
  ASSUME PaymentInv, NEW w \in Workers, NEW S \in SUBSET Payments, NEW s,
         S \subseteq txn[w].pays, Close(w, S, s),
         \A p \in S : \/ s[p] \in Terminal /\ txn[w].op # "create"
                      \/ status[p] \notin Terminal,
         NEW p \in Payments
  PROVE  TerminalStep(p)
<1>1. txn'[w] = Idle
  BY DEF Close, PaymentInv, TypeOK
<1>2. status[p] \in Terminal /\ status'[p] # status[p] => p \in txn[w].saw
  BY DEF Close, PaymentInv, ReadCreated
<1>3. status[p] \in Terminal /\ status'[p] # status[p] => status'[p] \in Terminal
  BY DEF Close, Terminal, Statuses
<1>4. QED
  BY <1>1, <1>2, <1>3 DEF TerminalStep

(* Every step of the specification.                                        *)
LEMMA TerminalNext ==
  ASSUME PaymentInv, SessionInv, Next, NEW p \in Payments
  PROVE  TerminalStep(p)
<1> USE DEF Workers
<1>1. ASSUME status' = status PROVE TerminalStep(p)
  BY <1>1 DEF TerminalStep
<1>2. CASE CreateNext
  <2>1. PICK w \in Callers, q \in Payments :
          \/ \E m \in Methods : BeginCreate(w, q, m)
          \/ FinishCreate(w, q) \/ RefuseCreate(w, q) \/ FinishWallet(w, q)
    BY <1>2 DEF CreateNext
  <2>2. CASE FinishCreate(w, q) \/ FinishWallet(w, q)
    <3>1. PICK s : Close(w, {q}, s)
      BY <2>2 DEF FinishCreate, FinishWallet
    <3>2. {q} \in SUBSET Payments /\ {q} \subseteq txn[w].pays /\ status[q] = None
      BY <2>2 DEF FinishCreate, FinishWallet, PaymentInv, CreatesNew
    <3>3. status[q] \notin Terminal
      BY <3>2 DEF Terminal, Statuses, None
    <3>4. QED
      BY <3>1, <3>2, <3>3, CloseTerminal
  <2>3. CASE RefuseCreate(w, q) \/ \E m \in Methods : BeginCreate(w, q, m)
    BY <1>1, <2>3 DEF RefuseCreate, BeginCreate, Open
  <2>4. QED
    BY <2>1, <2>2, <2>3
<1>3. CASE ReadNext
  <2>1. ASSUME NEW w \in Callers, FinishList(w) PROVE TerminalStep(p)
    <3> DEFINE S == {}
               s == <<>>
    <3>1. /\ S \in SUBSET Payments /\ S \subseteq txn[w].pays /\ Close(w, S, s)
          /\ txn[w].op # "create" /\ \A q \in S : s[q] \in Terminal
      BY <2>1 DEF FinishList
    <3> HIDE DEF S, s
    <3>2. QED
      BY <3>1, CloseTerminal
  <2>2. ASSUME NEW w \in Callers, FinishCancel(w) PROVE TerminalStep(p)
    <3> DEFINE S == txn[w].pays
               s == [q \in S |-> "cancelled"]
    <3>1. /\ S \in SUBSET Payments /\ Close(w, S, s)
          /\ txn[w].op # "create" /\ \A q \in S : s[q] \in Terminal
      BY <2>2 DEF FinishCancel, PaymentInv, TypeOK, Txns, Terminal, Statuses
    <3> HIDE DEF s
    <3>2. QED
      BY <3>1, CloseTerminal
  <2>3. ASSUME NEW w \in Workers, NEW ans \in [txn[w].pays -> Verdicts],
               FinishRefresh(w, ans)
        PROVE  TerminalStep(p)
    <3> DEFINE S == {q \in txn[w].pays : ans[q] = "paid"} \cup
                    {q \in txn[w].pays : ans[q] = "failed"}
    <3>1. /\ S \in SUBSET Payments /\ S \subseteq txn[w].pays /\ Close(w, S, ans)
          /\ txn[w].op # "create" /\ \A q \in S : ans[q] \in Terminal
      BY <2>3 DEF FinishRefresh, PaymentInv, TypeOK, Txns, Terminal, Statuses
    <3> HIDE DEF S
    <3>2. QED
      BY <3>1, CloseTerminal
  <2>4. CASE \/ \E w \in Callers : BeginList(w)
             \/ \E w \in Callers, q \in Payments : BeginCancel(w, q) \/ BeginGet(w, q)
             \/ BeginReconcile
             \/ \E w \in Workers : Abort(w)
    BY <1>1, <2>4 DEF BeginList, BeginCancel, BeginGet, BeginReconcile, Open, Abort
  <2>5. QED
    BY <1>3, <2>1, <2>2, <2>3, <2>4 DEF ReadNext
<1>4. CASE IpnNext
  <2>1. PICK q \in Payments : IpnPaid(q) \/ IpnFailed(q)
    BY <1>4 DEF IpnNext
  <2>2. status[q] \notin Terminal /\ \A r \in Payments \ {q} : status'[r] = status[r]
    BY <2>1 DEF IpnPaid, IpnFailed, IpnApplies, PaymentInv, TypeOK
  <2>3. QED
    BY <2>2 DEF TerminalStep
<1>5. CASE RefundNext
  <2>1. PICK q \in Payments : RefundWallet(q) \/ BeginRefund(q) \/ RefundEnds(q)
    BY <1>5 DEF RefundNext
  <2>2. CASE RefundWallet(q) \/ RefundDone(q)
    <3>1. status[q] = "paid" /\ status' = [status EXCEPT ![q] = "refunded"]
      BY <2>2 DEF RefundWallet, RefundDone, SessionInv, RefundHeld
    <3>2. QED
      BY <3>1 DEF TerminalStep, PaymentInv, TypeOK
  <2>3. CASE BeginRefund(q) \/ RefundRejected(q) \/ RefundLost(q)
    BY <1>1, <2>3 DEF BeginRefund, RefundRejected, RefundLost
  <2>4. QED
    BY <2>1, <2>2, <2>3 DEF RefundEnds
<1>6. CASE OutsideNext
  BY <1>1, <1>6 DEF OutsideNext, OrderEnds, Age, GraceEnds
<1>7. QED
  BY <1>2, <1>3, <1>4, <1>5, <1>6 DEF Next

(* A terminal row is changed by its refund or by a transaction that read   *)
(* it while it was `created': what is left of "terminal rows are never mutated again" for *)
(* handlers that check the status without a lock.                          *)
THEOREM TerminalRows == Spec => OverwrittenByReader
<1>1. PaymentInv /\ SessionInv /\ [Next]_vars => [\A p \in Payments : TerminalStep(p)]_vars
  BY TerminalNext
<1>2. QED
  BY <1>1, SessionInvariant, PTL DEF Spec, OverwrittenByReader

-----------------------------------------------------------------------------
(* Credits of a top-up.                                                    *)

(* The transactions that have read p as `created' and wait for the gateway *)
(* to tell them about it.                                                  *)
Readers(p) == {w \in Workers : txn[w].op = "refresh" /\ p \in txn[w].pays}

(* Why the credits are bounded: nothing is credited while the row is in    *)
(* flight, and once it has ended nobody reads it as `created' any more, so *)
(* that every further credit uses up a reader.                             *)
CreditInv ==
  \A p \in TopUps :
    /\ status[p] \notin Terminal => credited[p] = 0
    /\ credited[p] + Cardinality(Readers(p)) <= 1 + Cardinality(Workers)

(* What a step may do to the credits of p and to its readers.              *)
CreditShape(p) ==
  \/ /\ credited'[p] = credited[p]
     /\ \/ Readers(p)' \subseteq Readers(p)
        \/ status[p] = "created" /\ status' = status
  \/ /\ credited'[p] = credited[p] + 1
     /\ status[p] = "created" /\ status'[p] \in Terminal
  \/ /\ credited'[p] = credited[p] + 1 /\ status'[p] \in Terminal
     /\ \E w \in Readers(p) : Readers(p)' \subseteq Readers(p) \ {w}

(* There are finitely many workers, and a set of them is counted.          *)
LEMMA WorkersCounted ==
  /\ Cardinality(Workers) \in Nat
  /\ \A T \in SUBSET Workers :
       /\ IsFiniteSet(T) /\ Cardinality(T) \in Nat
       /\ Cardinality(T) <= Cardinality(Workers)
<1>1. IsFiniteSet(Workers)
  BY FS_Singleton, FS_Union DEF Workers
<1>2. QED
  BY <1>1, FS_Subset, FS_CardinalityType

(* What a transaction becomes decides who reads p.                         *)
LEMMA ReadersStep ==
  ASSUME PaymentInv, NEW w \in Workers, NEW t, NEW p \in TopUps,
         txn' = [txn EXCEPT ![w] = t]
  PROVE  /\ ~(t.op = "refresh" /\ p \in t.pays)
              => Readers(p)' \subseteq Readers(p) \ {w}
         /\ Readers(p)' \subseteq Readers(p) \cup {w}
<1>1. \A v \in Workers : txn'[v] = IF v = w THEN t ELSE txn[v]
  BY DEF PaymentInv, TypeOK
<1>2. Readers(p)' = {v \in Workers : txn'[v].op = "refresh" /\ p \in txn'[v].pays}
  BY DEF Readers
<1>3. QED
  BY <1>1, <1>2 DEF Readers

(* Every step is of that shape.                                            *)
LEMMA CreditNext ==
  ASSUME PaymentInv, Next, NEW p \in TopUps
  PROVE  CreditShape(p)
<1> USE DEF Workers
<1>1. p \in Payments /\ credited[p] \in Nat /\ credited \in [TopUps -> Nat]
  BY DEF PaymentInv, TypeOK, Payments
<1>2. ASSUME credited' = credited, txn' = txn PROVE CreditShape(p)
  <2>1. Readers(p)' = Readers(p)
    BY <1>2 DEF Readers
  <2>2. QED
    BY <1>2, <2>1 DEF CreditShape, Readers
<1>3. ASSUME credited' = credited, NEW w \in Workers, NEW t,
             txn' = [txn EXCEPT ![w] = t], t.op # "refresh"
      PROVE  CreditShape(p)
  <2>1. Readers(p)' \subseteq Readers(p)
    BY <1>3, ReadersStep
  <2>2. credited'[p] = credited[p]
    BY <1>3
  <2>3. QED
    BY <2>1, <2>2 DEF CreditShape
<1>4. Idle.op # "refresh"
  BY DEF Idle, None
<1>5. CASE CreateNext
  <2>1. PICK w \in Callers, q \in Payments :
          \/ \E m \in Methods : BeginCreate(w, q, m)
          \/ FinishCreate(w, q) \/ RefuseCreate(w, q) \/ FinishWallet(w, q)
    BY <1>5 DEF CreateNext
  <2>2. credited' = credited
    BY <2>1 DEF BeginCreate, Open, FinishCreate, RefuseCreate, FinishWallet
  <2>3. \E t : txn' = [txn EXCEPT ![w] = t] /\ t.op # "refresh"
    BY <2>1, <1>4 DEF BeginCreate, Open, FinishCreate, RefuseCreate, FinishWallet, Close
  <2>4. QED
    BY <1>3, <2>2, <2>3
<1>6. ASSUME NEW w \in Workers, NEW S, Open(w, "refresh", S, "momo"),
             \A q \in S : status[q] = "created"
      PROVE  CreditShape(p)
  <2> DEFINE swept == IF w = Cron THEN {} ELSE Stale
             t == [op |-> "refresh", pays |-> S, by |-> "momo", stale |-> swept,
                   saw |-> (S \cup swept) \cap InFlight]
  <2>1. txn' = [txn EXCEPT ![w] = t] /\ t.pays = S
    BY <1>6 DEF Open
  <2> HIDE DEF t
  <2>2. credited' = credited /\ status' = status
    BY <1>6 DEF Open
  <2>3. CASE p \in S
    BY <1>6, <2>2, <2>3 DEF CreditShape
  <2>4. CASE p \notin S
    <3>1. Readers(p)' \subseteq Readers(p)
      BY <2>1, <2>4, ReadersStep
    <3>2. QED
      BY <2>2, <3>1 DEF CreditShape
  <2>5. QED
    BY <2>3, <2>4
<1>7. CASE ReadNext
  <2>1. ASSUME NEW w \in Callers, BeginList(w) \/ FinishList(w) \/ FinishCancel(w)
        PROVE  CreditShape(p)
    <3>1. /\ credited' = credited
          /\ \E t : txn' = [txn EXCEPT ![w] = t] /\ t.op # "refresh"
      BY <1>4, <2>1 DEF BeginList, Open, FinishList, FinishCancel, Close
    <3>2. QED
      BY <1>3, <3>1
  <2>2. ASSUME NEW w \in Callers, NEW q \in Payments, BeginCancel(w, q)
        PROVE  CreditShape(p)
    <3> DEFINE swept == IF w = Cron THEN {} ELSE Stale
               t == [op |-> "cancel", pays |-> {q}, by |-> "momo", stale |-> swept,
                     saw |-> ({q} \cup swept) \cap InFlight]
    <3>1. credited' = credited /\ txn' = [txn EXCEPT ![w] = t] /\ t.op # "refresh"
      BY <2>2 DEF BeginCancel, Open
    <3> HIDE DEF t
    <3>2. QED
      BY <1>3, <3>1
  <2>3. ASSUME NEW w \in Callers, NEW q \in Payments, BeginGet(w, q)
        PROVE  CreditShape(p)
    BY <1>6, <2>3 DEF BeginGet, Refreshable
  <2>4. CASE BeginReconcile
    BY <1>6, <2>4 DEF BeginReconcile, Batches, Due, Refreshable
  <2>5. ASSUME NEW w \in Workers, NEW ans \in [txn[w].pays -> Verdicts],
               FinishRefresh(w, ans)
        PROVE  CreditShape(p)
    <3> DEFINE paid == {q \in txn[w].pays : ans[q] = "paid"}
               failed == {q \in txn[w].pays : ans[q] = "failed"}
    <3>1. /\ txn[w].op = "refresh" /\ txn' = [txn EXCEPT ![w] = Idle]
          /\ status' = [q \in Payments |-> IF q \in paid \cup failed THEN ans[q]
                                           ELSE IF q \in txn[w].stale THEN "expired"
                                           ELSE status[q]]
          /\ credited' = [q \in TopUps |-> credited[q] + (IF q \in paid THEN 1 ELSE 0)]
      BY <2>5 DEF FinishRefresh, Close, Settle
    <3>2. Readers(p)' \subseteq Readers(p) \ {w}
      BY <1>4, <3>1, ReadersStep
    <3>3. CASE p \in paid
      <4>1. w \in Readers(p) /\ status'[p] \in Terminal
        BY <1>1, <3>1, <3>3 DEF Readers, Terminal, Statuses
      <4>2. credited'[p] = credited[p] + 1
        BY <3>1, <3>3
      <4>3. QED
        BY <3>2, <4>1, <4>2 DEF CreditShape
    <3>4. CASE p \notin paid
      <4>1. credited'[p] = credited[p]
        BY <1>1, <3>1, <3>4
      <4>2. Readers(p)' \subseteq Readers(p)
        BY <3>2
      <4>3. QED
        BY <4>1, <4>2 DEF CreditShape
    <3>5. QED
      BY <3>3, <3>4
  <2>6. ASSUME NEW w \in Workers, Abort(w) PROVE CreditShape(p)
    BY <1>3, <1>4, <2>6 DEF Abort
  <2>7. QED
    BY <1>7, <2>1, <2>2, <2>3, <2>4, <2>5, <2>6 DEF ReadNext
<1>8. CASE IpnNext
  <2>1. PICK q \in Payments : IpnPaid(q) \/ IpnFailed(q)
    BY <1>8 DEF IpnNext
  <2>2. CASE IpnPaid(q)
    <3>1. /\ credited' = [x \in TopUps |-> credited[x] + (IF x \in {q} THEN 1 ELSE 0)]
          /\ status' = [status EXCEPT ![q] = "paid"] /\ txn' = txn
          /\ status[q] \notin Terminal \cup {None}
      BY <2>2 DEF IpnPaid, Settle, IpnApplies
    <3>2. CASE q = p
      <4>1. status[p] = "created" /\ status'[p] \in Terminal
        BY <1>1, <3>1, <3>2 DEF PaymentInv, TypeOK, Terminal, Statuses
      <4>2. credited'[p] = credited[p] + 1
        BY <3>1, <3>2
      <4>3. QED
        BY <4>1, <4>2 DEF CreditShape
    <3>3. CASE q # p
      <4>1. credited'[p] = credited[p]
        BY <1>1, <3>1, <3>3
      <4>2. Readers(p)' \subseteq Readers(p)
        BY <3>1 DEF Readers
      <4>3. QED
        BY <4>1, <4>2 DEF CreditShape
    <3>4. QED
      BY <3>2, <3>3
  <2>3. CASE IpnFailed(q)
    BY <1>2, <2>3 DEF IpnFailed
  <2>4. QED
    BY <2>1, <2>2, <2>3
<1>9. CASE RefundNext \/ OutsideNext
  BY <1>2, <1>9 DEF RefundNext, RefundWallet, BeginRefund, RefundEnds, RefundDone,
                    RefundRejected, RefundLost, OutsideNext, OrderEnds, Age, GraceEnds
<1>10. QED
  BY <1>5, <1>7, <1>8, <1>9 DEF Next

(* So every step keeps the bound.                                          *)
LEMMA CreditKeeps ==
  ASSUME PaymentInv, SessionInv, CreditInv, [Next]_vars
  PROVE  CreditInv'
<1>1. ASSUME NEW p \in TopUps
      PROVE  /\ status'[p] \notin Terminal => credited'[p] = 0
             /\ credited'[p] + Cardinality(Readers(p)') <= 1 + Cardinality(Workers)
  <2> DEFINE old == Readers(p)
             new == Readers(p)'
             all == Cardinality(Workers)
  <2>1. /\ credited[p] \in Nat /\ p \in Payments
        /\ status[p] \notin Terminal => credited[p] = 0
        /\ credited[p] + Cardinality(old) <= 1 + all
    BY DEF PaymentInv, TypeOK, CreditInv, Payments
  <2>2. CASE UNCHANGED vars
    <3>1. status' = status /\ credited' = credited /\ new = old
      BY <2>2 DEF vars, Readers
    <3>2. QED
      BY <2>1, <3>1
  <2>3. CASE Next
    <3>1. CreditShape(p)
      BY <2>3, CreditNext
    <3>2. status[p] \in Terminal => status'[p] \in Terminal
      <4>1. TerminalStep(p)
        BY <2>1, <2>3, TerminalNext
      <4>2. "refunded" \in Terminal
        BY DEF Terminal, Statuses
      <4>3. QED
        BY <4>1, <4>2 DEF TerminalStep
    <3>3. old \in SUBSET Workers /\ new \in SUBSET Workers
      BY DEF Readers, Workers
    <3> DEFINE Goal == /\ status'[p] \notin Terminal => credited'[p] = 0
                       /\ credited'[p] + Cardinality(new) <= 1 + all
    <3> HIDE DEF old, new, all
    <3>4. /\ Cardinality(old) \in Nat /\ Cardinality(new) \in Nat /\ all \in Nat
          /\ Cardinality(new) <= all /\ IsFiniteSet(old)
      BY <3>3, WorkersCounted DEF all
    <3>5. ASSUME credited'[p] = credited[p], new \subseteq old PROVE Goal
      <4>1. Cardinality(new) <= Cardinality(old)
        BY <3>4, <3>5, FS_Subset
      <4>2. QED
        BY <2>1, <3>2, <3>4, <3>5, <4>1
    <3>6. ASSUME credited'[p] = credited[p], status[p] = "created", status' = status
          PROVE  Goal
      <4>1. credited[p] = 0
        BY <2>1, <3>6 DEF Terminal, Statuses
      <4>2. QED
        BY <3>4, <3>6, <4>1
    <3>7. ASSUME credited'[p] = credited[p] + 1, status[p] = "created", status'[p] \in Terminal
          PROVE  Goal
      <4>1. credited[p] = 0
        BY <2>1, <3>7 DEF Terminal, Statuses
      <4>2. QED
        BY <3>4, <3>7, <4>1
    <3>8. ASSUME credited'[p] = credited[p] + 1, status'[p] \in Terminal,
                 \E w \in old : new \subseteq old \ {w}
          PROVE  Goal
      <4>1. PICK w \in old : new \subseteq old \ {w}
        BY <3>8
      <4>2. /\ IsFiniteSet(old \ {w})
            /\ Cardinality(old \ {w}) = Cardinality(old) - 1
        BY <3>4, <4>1, FS_RemoveElement
      <4>3. Cardinality(new) <= Cardinality(old \ {w})
        BY <4>1, <4>2, FS_Subset
      <4>4. QED
        BY <2>1, <3>4, <3>8, <4>2, <4>3
    <3>9. Goal
      <4> HIDE DEF Goal
      <4>1. QED
        BY <3>1, <3>5, <3>6, <3>7, <3>8 DEF CreditShape, old, new
    <3>10. QED
      BY <3>9 DEF new, all
  <2>4. QED
    BY <2>2, <2>3
<1>2. QED
  BY <1>1 DEF CreditInv, Workers

(* However many requests refresh a top-up while its notification arrives,  *)
(* it is credited at most once by the notification and once by every       *)
(* transaction that had read it as `created' (CreditsBounded): what is     *)
(* left of "credited once" for _refresh_from_gateway, which checks the     *)
(* status without a lock.                                                  *)
THEOREM CreditsLimited == Spec => []CreditsBounded
<1>1. Init => CreditInv
  <2>1. ASSUME Init, NEW p \in TopUps
        PROVE  credited[p] = 0 /\ Readers(p) = {}
    BY <2>1 DEF Init, Readers, Idle, None
  <2>2. QED
    BY <2>1, FS_EmptySet, WorkersCounted DEF CreditInv
<1>2. CreditInv /\ PaymentInv => CreditsBounded
  <2> SUFFICES ASSUME CreditInv, PaymentInv, NEW p \in TopUps
               PROVE  credited[p] <= 1 + Cardinality(Workers)
    BY DEF CreditsBounded
  <2>1. Readers(p) \in SUBSET Workers
    BY DEF Readers
  <2>2. Cardinality(Readers(p)) \in Nat /\ Cardinality(Workers) \in Nat
    BY <2>1, WorkersCounted
  <2>3. credited[p] \in Nat /\ credited[p] + Cardinality(Readers(p)) <= 1 + Cardinality(Workers)
    BY DEF CreditInv, PaymentInv, TypeOK
  <2>4. QED
    BY <2>2, <2>3
<1>3. QED
  BY <1>1, <1>2, CreditKeeps, SessionInvariant, PTL DEF Spec

-----------------------------------------------------------------------------
(* Pay-before-exit.                                                        *)

(* A row does not disappear, the order behind it is not reopened and what  *)
(* the wallet paid stays paid from the wallet.                             *)
LEMMA PaidStays ==
  ASSUME PaymentInv, [Next]_vars, NEW p \in PaidFor
  PROVE  p \in PaidFor'
<1> USE DEF Workers
<1>1. p \in Payments /\ p \in ParkRows
  BY DEF PaidFor, Payments
<1>2. ASSUME order'[p] = order[p], method'[p] = method[p],
             status'[p] = status[p] \/ status'[p] # None
      PROVE  p \in PaidFor'
  BY <1>1, <1>2 DEF PaidFor
<1>3. status[p] # None
  BY <1>1 DEF PaidFor, PaymentInv, RowsFirst, None
<1>4. ASSUME UNCHANGED <<order, method, status>> PROVE p \in PaidFor'
  BY <1>2, <1>4
<1>5. ASSUME NEW w \in Workers, NEW S, NEW s, Close(w, S, s),
             \A q \in S : s[q] # None
      PROVE  status'[p] = status[p] \/ status'[p] # None
  BY <1>1, <1>5 DEF Close, None
<1>6. CASE CreateNext
  <2>1. PICK w \in Callers, q \in Payments :
          \/ \E m \in Methods : BeginCreate(w, q, m)
          \/ FinishCreate(w, q) \/ RefuseCreate(w, q) \/ FinishWallet(w, q)
    BY <1>6 DEF CreateNext
  <2>2. CASE FinishCreate(w, q) \/ FinishWallet(w, q)
    <3>1. status[q] = None
      BY <2>2 DEF FinishCreate, FinishWallet, PaymentInv, CreatesNew
    <3>2. p # q
      BY <1>3, <3>1
    <3>3. order'[p] = order[p] /\ method'[p] = method[p]
      BY <1>1, <2>2, <3>2 DEF FinishCreate, FinishWallet, PaymentInv, TypeOK
    <3>4. PICK s : Close(w, {q}, s) /\ s[q] # None
      BY <2>2 DEF FinishCreate, FinishWallet, None
    <3>5. QED
      BY <1>2, <1>5, <3>3, <3>4
  <2>3. CASE RefuseCreate(w, q) \/ \E m \in Methods : BeginCreate(w, q, m)
    BY <1>4, <2>3 DEF RefuseCreate, BeginCreate, Open
  <2>4. QED
    BY <2>1, <2>2, <2>3
<1>7. CASE ReadNext
  <2>1. ASSUME NEW w \in Callers, FinishList(w) PROVE p \in PaidFor'
    <3> DEFINE S == {}
               s == <<>>
    <3>1. Close(w, S, s) /\ (\A q \in S : s[q] # None) /\ UNCHANGED <<order, method>>
      BY <2>1 DEF FinishList
    <3> HIDE DEF S, s
    <3>2. QED
      BY <1>2, <1>5, <3>1
  <2>2. ASSUME NEW w \in Callers, FinishCancel(w) PROVE p \in PaidFor'
    <3> DEFINE S == txn[w].pays
               s == [q \in S |-> "cancelled"]
    <3>1. Close(w, S, s) /\ (\A q \in S : s[q] # None) /\ UNCHANGED <<order, method>>
      BY <2>2 DEF FinishCancel, None
    <3> HIDE DEF S, s
    <3>2. QED
      BY <1>2, <1>5, <3>1
  <2>3. ASSUME NEW w \in Workers, NEW ans \in [txn[w].pays -> Verdicts],
               FinishRefresh(w, ans)
        PROVE  p \in PaidFor'
    <3> DEFINE S == {q \in txn[w].pays : ans[q] = "paid"} \cup
                    {q \in txn[w].pays : ans[q] = "failed"}
    <3>1. Close(w, S, ans) /\ (\A q \in S : ans[q] # None) /\ UNCHANGED <<order, method>>
      BY <2>3 DEF FinishRefresh, None
    <3> HIDE DEF S
    <3>2. QED
      BY <1>2, <1>5, <3>1
  <2>4. CASE \/ \E w \in Callers : BeginList(w)
             \/ \E w \in Callers, q \in Payments : BeginCancel(w, q) \/ BeginGet(w, q)
             \/ BeginReconcile
             \/ \E w \in Workers : Abort(w)
    BY <1>4, <2>4 DEF BeginList, BeginCancel, BeginGet, BeginReconcile, Open, Abort
  <2>5. QED
    BY <1>7, <2>1, <2>2, <2>3, <2>4 DEF ReadNext
<1>8. CASE IpnNext
  <2>1. PICK q \in Payments, s \in {"paid", "failed"} :
          status' = [status EXCEPT ![q] = s] /\ UNCHANGED <<order, method>>
    BY <1>8 DEF IpnNext, IpnPaid, IpnFailed
  <2>2. status'[p] = status[p] \/ status'[p] # None
    BY <1>1, <2>1 DEF PaymentInv, TypeOK, None
  <2>3. QED
    BY <1>2, <2>1, <2>2
<1>9. CASE RefundNext
  <2>1. PICK q \in Payments : RefundWallet(q) \/ BeginRefund(q) \/ RefundEnds(q)
    BY <1>9 DEF RefundNext
  <2>2. /\ status' = status \/ status' = [status EXCEPT ![q] = "refunded"]
        /\ UNCHANGED <<order, method>>
    BY <2>1 DEF RefundWallet, BeginRefund, RefundEnds, RefundDone, RefundRejected, RefundLost
  <2>3. status'[p] = status[p] \/ status'[p] # None
    BY <1>1, <2>2 DEF PaymentInv, TypeOK, None
  <2>4. QED
    BY <1>2, <2>2, <2>3
<1>10. CASE OutsideNext
  <2>1. PICK q \in Payments :
          (\E s \in {"paid", "failed"} : OrderEnds(q, s)) \/ Age(q) \/ GraceEnds(q)
    BY <1>10 DEF OutsideNext
  <2>2. CASE Age(q) \/ GraceEnds(q)
    BY <1>4, <2>2 DEF Age, GraceEnds
  <2>3. ASSUME NEW s \in {"paid", "failed"}, OrderEnds(q, s) PROVE p \in PaidFor'
    <3>1. /\ order[q] = "open" /\ order' = [order EXCEPT ![q] = s]
          /\ UNCHANGED <<status, method>>
      BY <2>3 DEF OrderEnds
    <3>2. order[p] = "paid" => order'[p] = "paid"
      BY <1>1, <3>1 DEF PaymentInv, TypeOK
    <3>3. QED
      BY <1>1, <3>1, <3>2 DEF PaidFor
  <2>4. QED
    BY <2>1, <2>2, <2>3
<1>11. CASE UNCHANGED vars
  BY <1>4, <1>11 DEF vars
<1>12. QED
  BY <1>6, <1>7, <1>8, <1>9, <1>10, <1>11 DEF Next

(* A transaction that has decided `paid_exit' has read a paid payment, and *)
(* that money does not go away while it waits.                             *)
ExitInv == PaymentInv /\ (deciding # {} \/ exits > 0 => PaidFor # {})

LEMMA ExitKeeps == ExitInv /\ [ExitNext]_allVars => ExitInv'
<1> SUFFICES ASSUME ExitInv, [ExitNext]_allVars PROVE ExitInv'
  OBVIOUS
<1> USE DEF ExitInv
<1>1. UNCHANGED vars \/ Next
  BY DEF ExitNext, PaymentStep, Decide, Record, Drop, PassbackEnds, allVars
<1>2. PaymentInv' /\ PaidFor \subseteq PaidFor'
  BY <1>1, PaymentKeeps, PaidStays
<1>3. ASSUME NEW g \in Gates, Decide(g) PROVE PaidFor # {}
  <2>1. PICK p \in ParkRows : status[p] = "paid"
    BY <1>3 DEF Decide, Grantable
  <2>2. p \in Payments /\ method[p] \in Methods
    BY DEF PaymentInv, TypeOK, Payments
  <2>3. p \in PaidFor
    BY <2>1, <2>2 DEF PaymentInv, SettledAsOrdered, PaidFor, Methods, None
  <2>4. QED
    BY <2>3
<1>4. deciding' # {} \/ exits' > 0 => PaidFor # {}
  <2>1. CASE \E g \in Gates : Decide(g)
    BY <1>3, <2>1
  <2>2. CASE \E g \in Gates : Record(g)
    BY <2>2 DEF Record
  <2>3. CASE \E g \in Gates : Drop(g)
    BY <2>3 DEF Drop
  <2>4. CASE PaymentStep \/ PassbackEnds \/ UNCHANGED allVars
    BY <2>4 DEF PaymentStep, PassbackEnds, allVars, exitVars
  <2>5. QED
    BY <2>1, <2>2, <2>3, <2>4 DEF ExitNext
<1>5. QED
  BY <1>2, <1>4

(* Nobody leaves on a payment that was never made, though event_service    *)
(* decides on a payment that it reads without a lock and does not decide   *)
(* again when it no longer finds one (ExitsPaidFor).                       *)
THEOREM ExitsArePaid == ExitSpec => []ExitsPaidFor
<1>1. ExitInit => ExitInv
  BY PaymentInit DEF ExitInit, ExitInv
<1>2. ExitInv => ExitsPaidFor
  BY DEF ExitInv, ExitsPaidFor
<1>3. QED
  BY <1>1, <1>2, ExitKeeps, PTL DEF ExitSpec
=============================================================================
