---------------------------- MODULE OutboxProofs ----------------------------
(***************************************************************************)
(* For a cap, a batch and a channel of any size, and any number of events, *)
(* restarts and SQL errors: no event leaves SQLite unseen, the table and   *)
(* the counter of dropped events are off by at most one per restart or     *)
(* error, and the flush hands stored events over in their order.           *)
(***************************************************************************)
EXTENDS EdgeOutbox, FiniteSetTheorems, TLAPS

-----------------------------------------------------------------------------
(* Rows and events come in their order: what is stored, waits in a batch   *)
(* or was deleted has been produced, and not by the call in progress; a    *)
(* row is removed for its cap or after its publish; the rows older than    *)
(* one that waits in the batch wait too, or were handed over.              *)
OrderInv ==
  /\ table \cup batch \cup evicted \subseteq 1..produced
  /\ pc \in {"publish", "insert"} => /\ produced # 0
                                     /\ produced \notin table \cup batch \cup evicted
  /\ table \cap evicted = {}
  /\ acking # 0 => acking \in flushed
  /\ \A b \in batch : Older(b, table) \subseteq batch \cup flushed

(* Rows above the cap that no call in progress is going to delete, and     *)
(* deleted rows that one cut short leaves uncounted, beyond the one that   *)
(* the cut itself stands for.                                              *)
Excess ==
  CASE pc = "evict" -> Cardinality(table) - MaxOutbox - 1
    [] pc = "count" -> over - 1
    [] OTHER -> IF Cardinality(table) > MaxOutbox THEN Cardinality(table) - MaxOutbox ELSE 0

(* A restart or error costs one row: above the cap until the next eviction *)
(* deletes it, and uncounted if that one is cut short as well.             *)
CapInv ==
  /\ pc # "count" => over = 0
  /\ pc = "evict" => Cardinality(table) > MaxOutbox
  /\ pc = "count" => over > 0 /\ Cardinality(table) = MaxOutbox
  /\ dropped + over <= Cardinality(evicted)
  /\ Cardinality(evicted) + Excess <= dropped + over + cuts

OutboxInv == TypeOK /\ OrderInv /\ Accounted /\ CapInv

USE OutboxAssumption

-----------------------------------------------------------------------------
(* Finite sets of events.                                                  *)

(* A set of events is finite.                                              *)
LEMMA EventsFinite ==
  ASSUME NEW S \in SUBSET Events
  PROVE  IsFiniteSet(S) /\ Cardinality(S) \in Nat
<1>1. IsFiniteSet(Events)
  BY FS_Interval DEF Events
<1>2. IsFiniteSet(S)
  BY <1>1, FS_Subset
<1>3. QED
  BY <1>2, FS_CardinalityType

(* A non-empty set of events has an oldest and a newest one: the fewest    *)
(* events are older than the oldest.                                       *)
LEMMA Extremes ==
  ASSUME NEW S \in SUBSET Events, S # {}
  PROVE  /\ \E e \in S : \A x \in S : e <= x
         /\ \E e \in S : \A x \in S : x <= e
<1> DEFINE R == StrictSubsetOrdering(S)
           Below == {Older(e, S) : e \in S}
           Above == {Newer(e, S) : e \in S}
<1>0. \A x \in S : x \in Int
  BY DEF Events
<1>1. IsWellFoundedOn(R, FiniteSubsetsOf(S))
  BY FS_StrictSubsetOrderingWellFounded
<1>2. FiniteSubsetsOf(S) = SUBSET S
  BY EventsFinite, FS_FiniteSubsetsOfFinite
<1>3. \E e \in S : \A x \in S : e <= x
  <2>1. Below \subseteq SUBSET S /\ Below # {}
    BY DEF Older
  <2>2. \E A \in Below : \A B \in Below : ~(<<B, A>> \in R)
    <3> HIDE DEF R, Below
    <3> QED BY <1>1, <1>2, <2>1, WFMin
  <2>3. PICK e \in S : \A x \in S : ~(<<Older(x, S), Older(e, S)>> \in R)
    BY <2>2
  <2>4. ASSUME NEW x \in S, x < e PROVE FALSE
    <3>1. Older(x, S) \subseteq Older(e, S) /\ x \in Older(e, S) /\ x \notin Older(x, S)
      BY <2>4, <1>0 DEF Older
    <3>2. <<Older(x, S), Older(e, S)>> \in R
      BY <3>1 DEF StrictSubsetOrdering, Older
    <3> QED BY <2>3, <3>2
  <2> QED BY <2>4, <1>0
<1>4. \E e \in S : \A x \in S : x <= e
  <2>1. Above \subseteq SUBSET S /\ Above # {}
    BY DEF Newer
  <2>2. \E A \in Above : \A B \in Above : ~(<<B, A>> \in R)
    <3> HIDE DEF R, Above
    <3> QED BY <1>1, <1>2, <2>1, WFMin
  <2>3. PICK e \in S : \A x \in S : ~(<<Newer(x, S), Newer(e, S)>> \in R)
    BY <2>2
  <2>4. ASSUME NEW x \in S, x > e PROVE FALSE
    <3>1. Newer(x, S) \subseteq Newer(e, S) /\ x \in Newer(e, S) /\ x \notin Newer(x, S)
      BY <2>4, <1>0 DEF Newer
    <3>2. <<Newer(x, S), Newer(e, S)>> \in R
      BY <3>1 DEF StrictSubsetOrdering, Newer
    <3> QED BY <2>3, <3>2
  <2> QED BY <2>4, <1>0
<1> QED
  BY <1>3, <1>4

(* The row the flush takes next.                                           *)
LEMMA OldestIs ==
  ASSUME NEW S \in SUBSET Events, S # {}
  PROVE  Oldest(S) \in S /\ \A x \in S : Oldest(S) <= x
<1>0. \A x \in S : x \in Int
  BY DEF Events
<1>1. \E e \in S : Older(e, S) = {}
  <2>1. PICK e \in S : \A x \in S : e <= x
    BY Extremes
  <2> QED BY <2>1, <1>0 DEF Older
<1>2. Oldest(S) \in S /\ Older(Oldest(S), S) = {}
  BY <1>1 DEF Oldest
<1>3. QED
  BY <1>0, <1>2 DEF Older

(* The rows that survive an eviction: exactly MaxOutbox, if there are more *)
(* than that.                                                              *)
LEMMA KeptCount ==
  ASSUME table \in SUBSET Events, Cardinality(table) > MaxOutbox
  PROVE  Cardinality(Kept) = MaxOutbox
<1>1. Kept \in SUBSET Events /\ IsFiniteSet(Kept) /\ Cardinality(Kept) \in Nat
  BY EventsFinite DEF Kept
<1>2. Cardinality(Kept) <= MaxOutbox
  <2>1. CASE Kept = {}
    BY <2>1, FS_EmptySet
  <2>2. CASE Kept # {}
    <3>1. PICK e \in Kept : \A x \in Kept : e <= x
      BY <1>1, <2>2, Extremes
    <3>2. Kept \ {e} \in SUBSET Newer(e, table)
      BY <1>1, <3>1 DEF Kept, Newer, Events
    <3>3. IsFiniteSet(Newer(e, table)) /\ Cardinality(Newer(e, table)) \in Nat
      BY EventsFinite DEF Newer
    <3>4. Cardinality(Newer(e, table)) < MaxOutbox
      BY DEF Kept
    <3>5. Cardinality(Kept \ {e}) <= Cardinality(Newer(e, table))
      BY <3>2, <3>3, FS_Subset
    <3>6. Cardinality(Kept \ {e}) = Cardinality(Kept) - 1
      BY <1>1, FS_RemoveElement
    <3> QED BY <1>1, <3>3, <3>4, <3>5, <3>6
  <2> QED BY <2>1, <2>2
<1>3. Cardinality(Kept) >= MaxOutbox
  <2>1. CASE table \ Kept = {}
    <3>1. Kept = table
      BY <2>1 DEF Kept
    <3> QED BY <1>1, <3>1
  <2>2. CASE table \ Kept # {}
    <3>1. PICK e \in table \ Kept : \A x \in table \ Kept : x <= e
      BY <2>2, Extremes
    <3>2. Newer(e, table) \in SUBSET Kept
      <4>1. \A x \in table : x \in Int
        BY DEF Events
      <4> QED BY <3>1, <4>1 DEF Newer
    <3>3. Cardinality(Newer(e, table)) \in Nat /\ ~(Cardinality(Newer(e, table)) < MaxOutbox)
      BY <3>1, EventsFinite DEF Kept, Newer
    <3>4. Cardinality(Newer(e, table)) <= Cardinality(Kept)
      BY <1>1, <3>2, FS_Subset
    <3> QED BY <1>1, <3>3, <3>4
  <2> QED BY <2>1, <2>2
<1> QED
  BY <1>1, <1>2, <1>3

-----------------------------------------------------------------------------
(* Every step keeps the types.                                             *)
LEMMA TypeStep == OutboxInv /\ [Next]_vars => TypeOK'
<1> SUFFICES ASSUME OutboxInv, [Next]_vars PROVE TypeOK'
  OBVIOUS
<1> USE DEF TypeOK, Events, pipelineVars
<1>0. /\ TypeOK
      /\ pc \in {"publish", "insert"} => produced \in Events
  BY DEF OutboxInv, OrderInv
<1>1. CASE Produce
  BY <1>0, <1>1 DEF Produce
<1>2. CASE PublishDirect
  BY <1>0, <1>2 DEF PublishDirect, HasSlot
<1>3. CASE Insert
  BY <1>0, <1>3 DEF Insert
<1>4. CASE InsertFails
  BY <1>0, <1>4 DEF InsertFails
<1>5. CASE Evict
  <2>1. Overflow \in Nat
    BY <1>0, <1>5, EventsFinite DEF Evict, Overflow, OutboxInv, CapInv
  <2> QED BY <1>0, <1>5, <2>1 DEF Evict, Kept
<1>6. CASE CountDropped
  BY <1>0, <1>6 DEF CountDropped, TotalDropped
<1>7. CASE CutShort
  BY <1>0, <1>7 DEF CutShort
<1>8. CASE Drain
  BY <1>0, <1>8 DEF Drain
<1>9. CASE FlushPublish
  <2>1. NextRow \in Events
    BY <1>0, <1>9, OldestIs DEF FlushPublish, NextRow
  <2> QED BY <1>0, <1>9, <2>1 DEF FlushPublish, HasSlot
<1>10. CASE FlushAck
  BY <1>0, <1>10 DEF FlushAck
<1>11. CASE FlushAckFails
  BY <1>0, <1>11 DEF FlushAckFails
<1>12. CASE Send
  <2>1. chan \in Seq(Events) /\ chan # <<>>
    BY <1>0, <1>12 DEF Send
  <2>2. Head(chan) \in Events /\ Tail(chan) \in Seq(Events) /\ Len(Tail(chan)) = Len(chan) - 1
    BY <2>1
  <2>3. Len(chan) \in Nat
    BY <2>1
  <2>4. chan' = Tail(chan) /\ received' = received \cup {Head(chan)}
        /\ UNCHANGED <<connected, pipelineVars, table, batch, acking, flushed, cuts>>
    BY <1>12 DEF Send
  <2> HIDE DEF Events
  <2> QED BY <1>0, <2>2, <2>3, <2>4
<1>13. CASE Link
  BY <1>0, <1>13 DEF Link
<1>14. CASE Crash
  <2>1. chan' \in Seq(Events) /\ Len(chan') <= QueueCap
    <3>1. chan' = <<>>
      BY <1>14 DEF Crash
    <3> HIDE DEF Events, TypeOK
    <3> QED BY <3>1
  <2>2. unsaved' \subseteq Events
    <3>1. unsaved' \subseteq unsaved \cup {produced} /\ (unsaved' = unsaved \/ produced \in Events)
      BY <1>0, <1>14 DEF Crash
    <3> QED BY <1>0, <3>1
  <2>3. cuts' \in 0..MaxCuts
    BY <1>0, <1>14 DEF Crash
  <2> HIDE DEF Events
  <2> QED BY <1>0, <1>14, <2>1, <2>2, <2>3 DEF Crash
<1>15. CASE UNCHANGED vars
  BY <1>0, <1>15 DEF vars
<1>16. CASE PublishFails
  BY <1>0, <1>16 DEF PublishFails
<1>17. CASE FlushPublishFails
  BY <1>0, <1>17 DEF FlushPublishFails
<1> QED
  BY <1>1, <1>2, <1>3, <1>4, <1>5, <1>6, <1>7, <1>8, <1>9, <1>10, <1>11,
     <1>12, <1>13, <1>14, <1>15, <1>16, <1>17 DEF Next, Pipeline, Flush

(* The rows of a batch are the oldest: who is older than one of them is    *)
(* one of them.                                                            *)
LEMMA DrainOldest ==
  ASSUME table \in SUBSET Events, NEW b \in table, Cardinality(Older(b, table)) < BatchSize,
         NEW x \in Older(b, table)
  PROVE  Cardinality(Older(x, table)) < BatchSize
<1>0. \A y \in table : y \in Int
  BY DEF Events
<1>1. x \in table /\ x < b
  BY DEF Older
<1>2. Older(x, table) \in SUBSET Older(b, table)
  BY <1>0, <1>1 DEF Older
<1>3. IsFiniteSet(Older(b, table)) /\ Older(b, table) \in SUBSET Events
  BY EventsFinite DEF Older
<1>4. Cardinality(Older(x, table)) <= Cardinality(Older(b, table))
  BY <1>2, <1>3, FS_Subset
<1>5. Cardinality(Older(x, table)) \in Nat /\ Cardinality(Older(b, table)) \in Nat
  BY <1>2, <1>3, EventsFinite
<1>6. QED
  BY <1>4, <1>5

(* Every step keeps the order of the rows and of the batch.                *)
LEMMA OrderStep == OutboxInv /\ [Next]_vars => OrderInv'
<1> SUFFICES ASSUME OutboxInv, [Next]_vars PROVE OrderInv'
  OBVIOUS
<1>0. TypeOK /\ OrderInv
  BY DEF OutboxInv
<1>a. /\ produced \in Int /\ \A e \in table \cup batch \cup evicted : e \in Int /\ e <= produced
      /\ table \subseteq Events /\ batch \subseteq Events
  BY <1>0 DEF TypeOK, OrderInv, Events
<1> USE DEF OrderInv, pipelineVars
<1>1. CASE Produce
  <2>1. 1..produced \subseteq 1..produced' /\ produced' \notin 1..produced /\ produced' # 0
    BY <1>0, <1>1 DEF Produce, TypeOK
  <2> QED BY <1>0, <1>1, <2>1 DEF Produce
<1>2. CASE PublishDirect
  BY <1>0, <1>2 DEF PublishDirect
<1>3. CASE Insert
  <2>1. \A b \in batch : b # produced /\ b <= produced /\ b \in Int
    BY <1>0, <1>3, <1>a DEF Insert
  <2>2. \A b \in batch : Older(b, table') = Older(b, table)
    BY <1>3, <1>a, <2>1 DEF Insert, Older
  <2>3. produced \in 1..produced
    BY <1>0, <1>3 DEF Insert, TypeOK
  <2> QED BY <1>0, <1>3, <2>2, <2>3 DEF Insert
<1>4. CASE InsertFails
  BY <1>0, <1>4 DEF InsertFails
<1>5. CASE Evict
  BY <1>0, <1>5 DEF Evict, Kept, Older
<1>6. CASE CountDropped
  BY <1>0, <1>6 DEF CountDropped
<1>7. CASE CutShort
  BY <1>0, <1>7 DEF CutShort
<1>8. CASE Drain
  <2>1. \A b \in batch' : Older(b, table) \subseteq batch'
    BY <1>8, <1>a, DrainOldest DEF Drain, Older
  <2>2. batch' \subseteq table
    BY <1>8 DEF Drain
  <2> QED BY <1>0, <1>8, <2>1, <2>2 DEF Drain
<1>9. CASE FlushPublish
  BY <1>0, <1>9 DEF FlushPublish
<1>10. CASE FlushAck
  BY <1>0, <1>10 DEF FlushAck, Older
<1>11. CASE FlushAckFails
  BY <1>0, <1>11 DEF FlushAckFails
<1>12. CASE Send
  BY <1>0, <1>12 DEF Send
<1>13. CASE Link
  BY <1>0, <1>13 DEF Link
<1>14. CASE Crash
  BY <1>0, <1>14 DEF Crash
<1>15. CASE UNCHANGED vars
  BY <1>0, <1>15 DEF vars
<1>16. CASE PublishFails
  BY <1>0, <1>16 DEF PublishFails
<1>17. CASE FlushPublishFails
  BY <1>0, <1>17 DEF FlushPublishFails
<1> QED
  BY <1>1, <1>2, <1>3, <1>4, <1>5, <1>6, <1>7, <1>8, <1>9, <1>10, <1>11,
     <1>12, <1>13, <1>14, <1>15, <1>16, <1>17 DEF Next, Pipeline, Flush

(* Every step keeps account of every event.                                *)
LEMMA AccountedStep == OutboxInv /\ [Next]_vars => Accounted'
<1> SUFFICES ASSUME OutboxInv, [Next]_vars PROVE Accounted'
  OBVIOUS
<1>0. Accounted /\ OrderInv /\ produced \in Nat
  BY DEF OutboxInv, TypeOK
<1> USE DEF Accounted, pipelineVars
<1>1. CASE Produce
  <2>1. \A e \in 1..produced' : e \in 1..produced \/ e = produced'
    BY <1>0, <1>1 DEF Produce
  <2> QED BY <1>0, <1>1, <2>1 DEF Produce
<1>2. CASE PublishDirect
  BY <1>0, <1>2 DEF PublishDirect
<1>3. CASE Insert
  BY <1>0, <1>3 DEF Insert
<1>4. CASE InsertFails
  BY <1>0, <1>4 DEF InsertFails
<1>5. CASE Evict
  BY <1>0, <1>5 DEF Evict
<1>6. CASE CountDropped
  BY <1>0, <1>6 DEF CountDropped
<1>7. CASE CutShort
  BY <1>0, <1>7 DEF CutShort
<1>8. CASE Drain
  BY <1>0, <1>8 DEF Drain
<1>9. CASE FlushPublish
  BY <1>0, <1>9 DEF FlushPublish
<1>10. CASE FlushAck
  BY <1>0, <1>10 DEF FlushAck, OrderInv
<1>11. CASE FlushAckFails
  BY <1>0, <1>11 DEF FlushAckFails
<1>12. CASE Send
  BY <1>0, <1>12 DEF Send
<1>13. CASE Link
  BY <1>0, <1>13 DEF Link
<1>14. CASE Crash
  BY <1>0, <1>14 DEF Crash
<1>15. CASE UNCHANGED vars
  BY <1>0, <1>15 DEF vars
<1>16. CASE PublishFails
  BY <1>0, <1>16 DEF PublishFails
<1>17. CASE FlushPublishFails
  BY <1>0, <1>17 DEF FlushPublishFails
<1> QED
  BY <1>1, <1>2, <1>3, <1>4, <1>5, <1>6, <1>7, <1>8, <1>9, <1>10, <1>11,
     <1>12, <1>13, <1>14, <1>15, <1>16, <1>17 DEF Next, Pipeline, Flush

(* Every step keeps the account of the cap: only Insert adds a row, only   *)
(* Evict deletes one unseen, and a call cut short pays with its cut.       *)
LEMMA CapStep == OutboxInv /\ [Next]_vars => CapInv'
<1> SUFFICES ASSUME OutboxInv, [Next]_vars PROVE CapInv'
  OBVIOUS
<1>0. CapInv /\ OrderInv /\ TypeOK
  BY DEF OutboxInv
<1>a. /\ dropped \in Nat /\ over \in Nat /\ cuts \in Nat
      /\ IsFiniteSet(table) /\ Cardinality(table) \in Nat
      /\ IsFiniteSet(evicted) /\ Cardinality(evicted) \in Nat
  BY <1>0, EventsFinite DEF TypeOK
<1> DEFINE n == Cardinality(table)
           m == Cardinality(evicted)
<1> USE DEF pipelineVars
<1>b. ASSUME UNCHANGED <<pc, over, table, dropped, evicted, cuts>> PROVE CapInv'
  BY <1>0, <1>b DEF CapInv, Excess
<1>c. ASSUME pc \notin {"evict", "count"}, pc' \notin {"evict", "count"},
             UNCHANGED <<over, table, dropped, evicted, cuts>>
      PROVE  CapInv'
  BY <1>0, <1>c DEF CapInv, Excess
<1>1. CASE Produce
  BY <1>1, <1>c DEF Produce
<1>2. CASE PublishDirect
  BY <1>2, <1>c DEF PublishDirect
<1>3. CASE Insert
  <2>1. Cardinality(table') \in Nat /\ Cardinality(table') <= n + 1
    <3>1. Cardinality(table \cup {produced}) = IF produced \in table THEN n ELSE n + 1
      BY <1>a, FS_AddElement
    <3>2. table' = table \cup {produced}
      BY <1>3 DEF Insert
    <3> QED BY <1>a, <3>1, <3>2
  <2>2. /\ pc = "insert" /\ UNCHANGED <<over, dropped, evicted, cuts>>
        /\ pc' = IF Cardinality(table') > MaxOutbox THEN "evict" ELSE "idle"
    BY <1>3 DEF Insert
  <2>3. over = 0 /\ dropped + over <= m /\ m + Excess <= dropped + over + cuts
    BY <1>0, <2>2 DEF CapInv
  <2>4. CASE Cardinality(table') > MaxOutbox
    <3>1. pc' = "evict"
      BY <2>2, <2>4
    <3>2. Excess' = Cardinality(table') - MaxOutbox - 1
      BY <3>1 DEF Excess
    <3>3. Excess' <= Excess /\ Excess \in Int /\ Excess' \in Int
      BY <1>a, <2>1, <2>2, <2>4, <3>2 DEF Excess
    <3> HIDE DEF Excess
    <3> QED BY <1>a, <2>2, <2>3, <2>4, <3>1, <3>3 DEF CapInv
  <2>5. CASE ~(Cardinality(table') > MaxOutbox)
    <3>1. pc' = "idle"
      BY <2>2, <2>5
    <3>2. Excess' = 0 /\ Excess >= 0 /\ Excess \in Int
      BY <1>a, <2>2, <2>5, <3>1 DEF Excess
    <3> HIDE DEF Excess
    <3> QED BY <1>a, <2>2, <2>3, <3>1, <3>2 DEF CapInv
  <2> QED BY <2>4, <2>5
<1>4. CASE InsertFails
  BY <1>4, <1>c DEF InsertFails
<1>5. CASE Evict
  <2>1. /\ pc = "evict" /\ pc' = "count" /\ over' = n - MaxOutbox
        /\ table' = Kept /\ evicted' = evicted \cup (table \ Kept)
        /\ UNCHANGED <<dropped, cuts>>
    BY <1>5 DEF Evict, Overflow
  <2>2. n > MaxOutbox /\ over = 0 /\ dropped + over <= m /\ m + (n - MaxOutbox - 1) <= dropped + over + cuts
    BY <1>0, <2>1 DEF CapInv, Excess
  <2>3. Cardinality(Kept) = MaxOutbox
    BY <1>0, <2>2, KeptCount DEF TypeOK
  <2>4. table \cap Kept = Kept
    BY DEF Kept
  <2>5. IsFiniteSet(table \ Kept) /\ Cardinality(table \ Kept) = n - MaxOutbox
    BY <1>a, <2>3, <2>4, FS_Difference
  <2>6. evicted \cap (table \ Kept) = {}
    BY <1>0 DEF OrderInv
  <2>7. Cardinality(evicted') = m + (n - MaxOutbox)
    <3>1. Cardinality(evicted \cup (table \ Kept))
            = m + (n - MaxOutbox) - Cardinality(evicted \cap (table \ Kept))
      BY <1>a, <2>5, FS_Union
    <3>2. Cardinality(evicted \cap (table \ Kept)) = 0
      BY <2>6, FS_EmptySet
    <3> QED BY <1>a, <2>1, <3>1, <3>2
  <2>8. Excess' = over' - 1
    BY <2>1 DEF Excess
  <2>9. QED
    BY <1>a, <2>1, <2>2, <2>3, <2>7, <2>8 DEF CapInv
<1>6. CASE CountDropped
  <2>1. /\ pc = "count" /\ pc' = "idle" /\ dropped' = dropped + over /\ over' = 0
        /\ UNCHANGED <<table, evicted, cuts>>
    BY <1>6 DEF CountDropped, TotalDropped
  <2>2. over > 0 /\ n = MaxOutbox /\ dropped + over <= m /\ m + (over - 1) <= dropped + over + cuts
    BY <1>0, <2>1 DEF CapInv, Excess
  <2>3. Excess' = 0
    BY <2>1, <2>2 DEF Excess
  <2>4. QED
    BY <1>a, <2>1, <2>2, <2>3 DEF CapInv
<1>d. ASSUME pc' = "idle", over' = 0, cuts' = cuts + 1, UNCHANGED <<table, dropped, evicted>>
      PROVE  CapInv'
  <2>1. dropped + over <= m /\ m + Excess <= dropped + over + cuts
    BY <1>0 DEF CapInv
  <2>2. Excess' = IF n > MaxOutbox THEN n - MaxOutbox ELSE 0
    BY <1>d DEF Excess
  <2>3. CASE pc = "evict"
    <3>1. Excess = n - MaxOutbox - 1 /\ n > MaxOutbox /\ over = 0
      BY <1>0, <2>3 DEF Excess, CapInv
    <3> QED BY <1>a, <1>d, <2>1, <2>2, <3>1 DEF CapInv
  <2>4. CASE pc = "count"
    <3>1. Excess = over - 1 /\ n = MaxOutbox /\ over > 0
      BY <1>0, <2>4 DEF Excess, CapInv
    <3> QED BY <1>a, <1>d, <2>1, <2>2, <3>1 DEF CapInv
  <2>5. CASE pc \notin {"evict", "count"}
    <3>1. Excess = Excess' /\ over = 0
      BY <1>0, <2>2, <2>5 DEF Excess, CapInv
    <3> QED BY <1>a, <1>d, <2>1, <2>2, <3>1 DEF CapInv
  <2> QED BY <2>3, <2>4, <2>5
<1>7. CASE CutShort
  BY <1>7, <1>d DEF CutShort
<1>8. CASE Drain
  BY <1>8, <1>b DEF Drain
<1>9. CASE FlushPublish
  BY <1>9, <1>b DEF FlushPublish
<1>10. CASE FlushAck
  <2>1. /\ pc \notin {"evict", "count"} /\ table' = table \ {acking}
        /\ UNCHANGED <<pc, over, dropped, evicted, cuts>>
    BY <1>10 DEF FlushAck, ConnFree
  <2>2. Cardinality(table') \in Nat /\ Cardinality(table') <= n
    <3>1. Cardinality(table \ {acking}) = IF acking \in table THEN n - 1 ELSE n
      BY <1>a, FS_RemoveElement
    <3>2. IsFiniteSet(table \ {acking})
      BY <1>a, FS_RemoveElement
    <3>3. Cardinality(table \ {acking}) \in Nat
      BY <3>2, FS_CardinalityType
    <3> QED BY <1>a, <2>1, <3>1, <3>3
  <2>3. over = 0 /\ dropped + over <= m /\ m + Excess <= dropped + over + cuts
    BY <1>0, <2>1 DEF CapInv
  <2>4. Excess' <= Excess /\ Excess \in Int /\ Excess' \in Int
    BY <1>a, <2>1, <2>2 DEF Excess
  <2> HIDE DEF Excess
  <2>5. QED
    BY <1>a, <2>1, <2>2, <2>3, <2>4 DEF CapInv
<1>11. CASE FlushAckFails
  BY <1>11, <1>b DEF FlushAckFails
<1>12. CASE Send
  BY <1>12, <1>b DEF Send
<1>13. CASE Link
  BY <1>13, <1>b DEF Link
<1>14. CASE Crash
  BY <1>14, <1>d DEF Crash
<1>15. CASE UNCHANGED vars
  BY <1>15, <1>b DEF vars
<1>16. CASE PublishFails
  BY <1>16, <1>c DEF PublishFails
<1>17. CASE FlushPublishFails
  BY <1>17, <1>b DEF FlushPublishFails
<1> QED
  BY <1>1, <1>2, <1>3, <1>4, <1>5, <1>6, <1>7, <1>8, <1>9, <1>10, <1>11,
     <1>12, <1>13, <1>14, <1>15, <1>16, <1>17 DEF Next, Pipeline, Flush

-----------------------------------------------------------------------------
(* The invariant holds at the start, and every step keeps it.              *)
LEMMA OutboxInductive == Spec => []OutboxInv
<1>1. Init => OutboxInv
  <2> SUFFICES ASSUME Init PROVE OutboxInv
    OBVIOUS
  <2>1. TypeOK
    <3>1. chan \in Seq(Events) /\ Len(chan) <= QueueCap
      BY DEF Init
    <3>2. produced \in 0..MaxEvents /\ cuts \in 0..MaxCuts
      BY DEF Init
    <3>3. table = {} /\ batch = {} /\ received = {} /\ direct = {} /\ flushed = {}
          /\ evicted = {} /\ unsaved = {} /\ dropped = 0 /\ over = 0 /\ acking = 0
          /\ pc = "idle" /\ connected = FALSE
      BY DEF Init
    <3> QED BY <3>1, <3>2, <3>3 DEF TypeOK
  <2>2. OrderInv /\ Accounted
    BY DEF Init, OrderInv, Accounted
  <2>3. CapInv
    BY FS_EmptySet DEF Init, CapInv, Excess
  <2>4. QED
    BY <2>1, <2>2, <2>3 DEF OutboxInv
<1>2. OutboxInv /\ [Next]_vars => OutboxInv'
  BY TypeStep, OrderStep, AccountedStep, CapStep DEF OutboxInv
<1>3. QED
  BY <1>1, <1>2, PTL DEF Spec

(* For any size of the outbox, its batch and its channel, the rows, the    *)
(* counter and the request channel keep their types, and the channel its   *)
(* capacity (store.rs, mqtt.rs).                                           *)
THEOREM OutboxTypeCorrect == Spec => []TypeOK
<1>1. OutboxInv => TypeOK
  BY DEF OutboxInv
<1>2. QED
  BY <1>1, OutboxInductive, PTL

(* Every event that the pipeline has dealt with is stored, was handed to   *)
(* the client, was deleted by the cap, or was lost with an error: ack_event*)
(* removes no row before its publish (runtime.rs, flush task).             *)
THEOREM EventsAccounted == Spec => []Accounted
<1>1. OutboxInv => Accounted
  BY DEF OutboxInv
<1>2. QED
  BY <1>1, OutboxInductive, PTL

(* Each restart or error between the statements of enqueue_event costs at  *)
(* most one row above the cap and one event that dropped_events misses.    *)
THEOREM CapKept == Spec => []LimitKept
<1>1. OutboxInv => LimitKept
  <2> SUFFICES ASSUME OutboxInv PROVE LimitKept
    OBVIOUS
  <2>1. /\ dropped \in Nat /\ over \in Nat /\ cuts \in Nat
        /\ Cardinality(table) \in Nat /\ Cardinality(evicted) \in Nat
    BY EventsFinite DEF OutboxInv, TypeOK
  <2>2. /\ dropped + over <= Cardinality(evicted)
        /\ Cardinality(evicted) + Excess <= dropped + over + cuts
        /\ pc = "count" => over > 0 /\ Cardinality(table) = MaxOutbox
        /\ pc = "evict" => Cardinality(table) > MaxOutbox
    BY DEF OutboxInv, CapInv
  <2>3. Excess >= 0 /\ Excess \in Int
    BY <2>1, <2>2 DEF Excess
  <2>4. Excess <= cuts
    <3> HIDE DEF Excess
    <3> QED BY <2>1, <2>2, <2>3
  <2>5. Cardinality(table) <= MaxOutbox + cuts + IF pc = "evict" THEN 1 ELSE 0
    BY <2>1, <2>2, <2>4 DEF Excess
  <2>6. Cardinality(evicted) <= dropped + over + cuts
    BY <2>1, <2>2, <2>3
  <2>7. QED
    BY <2>5, <2>6 DEF LimitKept
<1>2. QED
  BY <1>1, OutboxInductive, PTL

(* drain_events and the flush hand no stored event to the client before an *)
(* older one that is stored too, whatever is evicted, added, or fails to   *)
(* be deleted while a batch waits.                                         *)
THEOREM FlushOrdered == Spec => FlushInOrder
<1>1. OutboxInv /\ FlushPublish => \A x \in Older(NextRow, table) : x \in flushed
  <2> SUFFICES ASSUME OutboxInv, FlushPublish, NEW x \in Older(NextRow, table)
               PROVE  x \in flushed
    OBVIOUS
  <2>1. batch \in SUBSET Events /\ batch # {}
    BY DEF OutboxInv, TypeOK, FlushPublish
  <2>2. NextRow \in batch /\ \A b \in batch : NextRow <= b
    BY <2>1, OldestIs DEF NextRow
  <2>3. x \in batch \cup flushed
    BY <2>2 DEF OutboxInv, OrderInv
  <2>4. x < NextRow /\ NextRow \in Int
    BY <2>1, <2>2 DEF Older, Events
  <2>5. x \notin batch
    <3>1. \A b \in batch : b \in Int
      BY <2>1 DEF Events
    <3>2. x \in batch => NextRow <= x /\ x \in Int
      BY <2>2, <3>1
    <3> HIDE DEF NextRow
    <3> QED BY <2>4, <3>2
  <2>6. QED
    BY <2>3, <2>5
<1>2. QED
  BY <1>1, OutboxInductive, PTL DEF FlushInOrder
=============================================================================
