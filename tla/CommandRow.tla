----------------------------- MODULE CommandRow -----------------------------
(***************************************************************************)
(* What the backend promises a client about a gate command it accepted.    *)
(*                                                                         *)
(* The row of the command (barrier_commands) is created `sent'; it may be  *)
(* settled, and settled again by a late ack or by a sweep that read it     *)
(* earlier, but it is never `sent' or absent again, and it is settled as   *)
(* `acknowledged' only once the gate's machine has accepted the command.   *)
(*                                                                         *)
(* GateCommand implements this specification; BarrierMap, the console's    *)
(* view of the commands, assumes no more than this.                        *)
(***************************************************************************)
CONSTANT Commands

VARIABLES
  row,     \* status of the row of each command, "none" without one
  acted    \* the commands that the gate's machine has accepted

rowVars == <<row, acted>>

Settled == {"acknowledged", "failed", "timeout"}

RowTypeOK ==
  /\ row \in [Commands -> Settled \cup {"none", "sent"}]
  /\ acted \subseteq Commands

RowInit == row = [c \in Commands |-> "none"] /\ acted = {}

(* POST /commands: the row is committed.                                   *)
Create(c) ==
  /\ row[c] = "none"
  /\ row' = [row EXCEPT ![c] = "sent"]
  /\ UNCHANGED acted

(* The machine on the edge accepts the command; the row may have been      *)
(* rolled back, so that there is none.                                     *)
Act(c) == acted' = acted \cup {c} /\ UNCHANGED row

(* An ack, a refusal or the sweep is committed.                            *)
Settle(c) ==
  /\ row[c] # "none"
  /\ \E s \in Settled :
       /\ s = "acknowledged" => c \in acted
       /\ row' = [row EXCEPT ![c] = s]
  /\ UNCHANGED acted

(* The sweep settles a set of rows in one transaction.                     *)
SettleAll ==
  /\ \E C \in SUBSET {c \in Commands : row[c] # "none"} :
       row' = [c \in Commands |-> IF c \in C THEN "timeout" ELSE row[c]]
  /\ UNCHANGED acted

RowNext == (\E c \in Commands : Create(c) \/ Act(c) \/ Settle(c)) \/ SettleAll

RowSpec == RowInit /\ [][RowNext]_rowVars

(* A row that is `sent' does not stay so for ever.                         *)
RowSettles == \A c \in Commands : row[c] = "sent" ~> row[c] # "sent"

RowFairSpec == RowSpec /\ RowSettles
=============================================================================
