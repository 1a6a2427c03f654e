------------------------------ MODULE PaidExit ------------------------------
(***************************************************************************)
(* Pay-before-exit (event_service.py): an exit that would be denied is     *)
(* allowed by a paid payment of the session, once.                         *)
(*                                                                         *)
(* record_access_event first decides, with decide_access reading the       *)
(* payment without a lock, then inserts the event, and then looks for the  *)
(* payment again under a row lock to stamp exit_granted_at; the decision   *)
(* is not taken again when that second look finds nothing.  An exit is     *)
(* reported through the API or through the MQTT bridge, each in its own    *)
(* transaction.  The payments change under it as in Payments.              *)
(***************************************************************************)
EXTENDS Payments

CONSTANT Gates          \* exit gates where the plate is read

VARIABLES
  deciding,   \* gates whose transaction has decided `paid_exit'
  granted,    \* payments with exit_granted_at
  exits,      \* committed exit events with reason `paid_exit'
  passback    \* the plate's last event is an exit inside the passback window

exitVars == <<deciding, granted, exits, passback>>
allVars == <<vars, exitVars>>

ExitInit ==
  /\ Init
  /\ deciding = {} /\ granted = {} /\ exits = 0 /\ passback = FALSE

(* A mutant: a payment in flight matches.                                  *)
GrantableUnpaid == {p \in ParkRows : status[p] # None} \ granted

(* _paid_exit: the paid rows of plate and site inside the window that have *)
(* not granted an exit.                                                    *)
Grantable ==
  {p \in ParkRows : status[p] = "paid" /\ p \in grace /\ p \notin granted}

(* decide_access: the plate is not on the vehicle list, a payment matches, *)
(* no rule and no anti-passback denies.                                    *)
Decide(g) ==
  /\ g \notin deciding
  /\ Grantable # {} /\ ~passback
  /\ deciding' = deciding \cup {g}
  /\ UNCHANGED <<vars, granted, exits, passback>>

(* The rest of record_access_event, and the commit.  The row lock waits    *)
(* for a refund, and the WHERE clause is evaluated again after the wait.   *)
Record(g) ==
  /\ g \in deciding /\ Grantable \cap refunding = {}
  /\ deciding' = deciding \ {g}
  /\ \/ \E p \in Grantable : granted' = granted \cup {p}
     \/ Grantable = {} /\ UNCHANGED granted
  /\ exits' = exits + 1
  /\ passback' = TRUE
  /\ UNCHANGED vars

(* The transaction is rolled back.                                         *)
Drop(g) ==
  /\ g \in deciding
  /\ deciding' = deciding \ {g}
  /\ UNCHANGED <<vars, granted, exits, passback>>

(* anti_passback_window_minutes have passed.                               *)
PassbackEnds ==
  /\ passback
  /\ passback' = FALSE
  /\ UNCHANGED <<vars, deciding, granted, exits>>

PaymentStep == Next /\ UNCHANGED exitVars

ExitNext ==
  \/ PaymentStep
  \/ \E g \in Gates : Decide(g) \/ Record(g) \/ Drop(g)
  \/ PassbackEnds

ExitSpec == ExitInit /\ [][ExitNext]_allVars

(* Sessions paid at the gateway or from the wallet, whatever became of     *)
(* their rows.                                                             *)
PaidFor ==
  {p \in ParkRows : \/ order[p] = "paid"
                    \/ method[p] = "wallet" /\ status[p] # None}

(* Nobody leaves on a payment that was never made: an exit by `paid_exit'  *)
(* implies money received, whatever overlaps with refunds, cancellations,  *)
(* refreshes and expiry.                                                   *)
ExitsPaidFor == exits > 0 => PaidFor # {}

(* Expected violation.  decide_access says "an otherwise-denied exit is    *)
(* allowed once per paid session payment".                                 *)
ExitOncePerPayment == exits <= Cardinality(PaidFor)
=============================================================================
