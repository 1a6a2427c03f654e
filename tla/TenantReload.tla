---------------------------- MODULE TenantReload ----------------------------
(***************************************************************************)
(* How the console changes a collection of the tenant (PlatformContext):   *)
(* a request, and when it has succeeded loadTenantData, which fetches the  *)
(* collections and replaces what the pages show.  Requests of several      *)
(* operations are under way at once and answered in any order.             *)
(*                                                                         *)
(* `rows' are the server's, a set of records with an id; `view' is what    *)
(* was loaded last; an operation in `ops' is "sent", then its reload is    *)
(* asked for ("reload"), answered with the rows of that moment ("loaded")  *)
(* and applied.                                                            *)
(***************************************************************************)
EXTENDS Integers

CONSTANT MaxOps     \* operations under way at once (bound)

VARIABLES rows, view, ops

Row(id) == {r \in rows : r.id = id}
Free == {n \in 1..MaxOps : \A op \in ops : op.n # n}

Begin(kind, id, body) ==
  /\ Free # {}
  /\ LET n == CHOOSE n \in Free : \A m \in Free : n <= m
     IN  ops' = ops \cup {[n |-> n, kind |-> kind, id |-> id, body |-> body,
                           at |-> "sent", snap |-> {}]}
  /\ UNCHANGED <<rows, view>>

(* The server has done it and the answer arrives.                          *)
Served(op, new) ==
  /\ op.at = "sent"
  /\ rows' = new
  /\ ops' = (ops \ {op}) \cup {[op EXCEPT !.at = "reload"]}
  /\ UNCHANGED view

(* The server has done it, the answer is lost.                             *)
AnswerLost(op, new) == op.at = "sent" /\ rows' = new /\ ops' = ops \ {op} /\ UNCHANGED view

(* The server refuses, or the request never gets there.                    *)
Fails(op) == op.at = "sent" /\ ops' = ops \ {op} /\ UNCHANGED <<rows, view>>

LoadServed(op) ==
  /\ op.at = "reload"
  /\ ops' = (ops \ {op}) \cup {[op EXCEPT !.at = "loaded", !.snap = rows]}
  /\ UNCHANGED <<rows, view>>

(* setTenant...(...): whatever was loaded in the meantime.                 *)
LoadApplied(op) ==
  /\ op.at = "loaded"
  /\ view' = op.snap /\ ops' = ops \ {op} /\ UNCHANGED rows

(* loadTenantData reports its failure and returns.                         *)
LoadFails(op) == op.at \in {"reload", "loaded"} /\ ops' = ops \ {op} /\ UNCHANGED <<rows, view>>

(* The function that awaited the reload goes on.                           *)
LoadEnds(op) == LoadApplied(op) \/ LoadFails(op)
=============================================================================
