---------------------------- MODULE OutboxProofs ----------------------------
(***************************************************************************)
(* For any events, keys, hashes and batch size, and any number of relays:  *)
(* the types of Outbox, that the topic agrees with the table, that no two  *)
(* relays hold events of one key, and what may overtake what.              *)
(***************************************************************************)
EXTENDS Outbox, FiniteSetTheorems, TLAPS

----
(* The inductive invariant *)

\* What a relay has claimed is committed and under its locks, and once sent it is
\* in the topic.
BatchOK(r) ==
    /\ batch[r] \subseteq Committed
    /\ \A e \in batch[r] : Hash(e) \in held[r]
    /\ pc[r] = "sent" => batch[r] \subseteq Delivered

BatchInv == \A r \in Relays : BatchOK(r)

\* An advisory lock has one holder.
HeldInv == \A r, q \in Relays : r # q => held[r] \cap held[q] = {}

IInv == TypeOK /\ TopicAgrees /\ BatchInv /\ HeldInv

----
(* Numbers *)

LEMMA SetsOfEvents ==
    ASSUME NEW S \in SUBSET Events
    PROVE  IsFiniteSet(S) /\ Cardinality(S) \in Nat
BY EventsFinite, FS_Subset, FS_CardinalityType

\* Sending adds what is sent to the topic, and takes nothing out of it.
LEMMA SendStep ==
    ASSUME TypeOK, NEW sent \in SUBSET Events, Send(sent)
    PROVE  offset' \in [Events -> Nat] /\ Delivered' = Delivered \cup sent
<1> DEFINE new == sent \ Delivered
           Upto(e) == {d \in new : id[d] <= id[e]}
<1>1. Delivered \in SUBSET Events /\ new \in SUBSET Events
  BY DEF Delivered
<1>2. Cardinality(Delivered) \in Nat
  BY <1>1, SetsOfEvents
<1>3. ASSUME NEW e \in new
      PROVE  Cardinality(Upto(e)) \in Nat /\ Cardinality(Upto(e)) > 0
  <2>1. Upto(e) \in SUBSET Events /\ e \in Upto(e)
    BY <1>1, <1>3 DEF TypeOK
  <2>2. Cardinality(Upto(e)) # 0
    BY <2>1, SetsOfEvents, FS_EmptySet
  <2> QED
    BY <2>1, <2>2, SetsOfEvents
<1>4. \A e \in Events :
        offset'[e] = IF e \in new THEN Cardinality(Delivered) + Cardinality(Upto(e)) ELSE offset[e]
  BY DEF Send
<1>5. offset' = [e \in Events |-> offset'[e]]
  BY DEF Send
<1> HIDE DEF Upto, new
<1>6. \A e \in Events : offset'[e] \in Nat
  BY <1>2, <1>3, <1>4 DEF TypeOK
<1>7. \A e \in Events : offset'[e] > 0 <=> e \in Delivered \/ e \in sent
  <2>1. \A e \in Events : e \in new <=> e \in sent /\ e \notin Delivered
    BY DEF new
  <2>2. \A e \in Events : e \in Delivered <=> offset[e] > 0
    BY DEF Delivered
  <2> QED
    BY <1>2, <1>3, <1>4, <2>1, <2>2
<1> QED
  BY <1>5, <1>6, <1>7 DEF Delivered

----
(* Types *)

LEMMA TypeInit == Init => TypeOK
BY DEF Init, TypeOK

LEMMA EndType ==
    ASSUME TypeOK, NEW r \in Relays, EndSweep(r)
    PROVE  /\ pc' \in [Relays -> {"idle", "scan", "claimed", "sent", "failed"}]
           /\ rest' \in [Relays -> SUBSET Events]
           /\ batch' \in [Relays -> SUBSET Events]
           /\ held' \in [Relays -> SUBSET {HashOf[k] : k \in Keys}]
BY DEF TypeOK, EndSweep

LEMMA TypeStep == TypeOK /\ [Next]_vars => TypeOK'
<1> SUFFICES ASSUME TypeOK, [Next]_vars PROVE TypeOK'
  OBVIOUS
<1> USE DEF rowVars, markVars, sweepVars
<1>1. ASSUME NEW e \in Events, Insert(e) PROVE TypeOK'
  <2>1. Cardinality({d \in Events : id[d] > 0}) \in Nat
    BY SetsOfEvents
  <2> QED
    BY <1>1, <2>1 DEF TypeOK, Insert
<1>2. ASSUME NEW e \in Events, Commit(e) PROVE TypeOK'
  <2>1. Cardinality(Committed) \in Nat
    BY SetsOfEvents DEF Committed
  <2> QED
    BY <1>2, <2>1 DEF TypeOK, Commit
<1>3. ASSUME NEW e \in Events, Abort(e) \/ Prune(e) PROVE TypeOK'
  BY <1>3 DEF TypeOK, Abort, Prune
<1>4. ASSUME NEW r \in Relays, Begin(r) PROVE TypeOK'
  <2>1. Rows \ published \subseteq Events
    BY DEF Rows, Committed
  <2> QED
    BY <1>4, <2>1 DEF TypeOK, Begin
<1>5. ASSUME NEW r \in Relays, Visit(r) PROVE TypeOK'
  <2>1. PICK e \in NextOf(rest[r]) :
          /\ rest' = [rest EXCEPT ![r] = @ \ {e}]
          /\ IF MayLock(r, e)
             THEN /\ held' = [held EXCEPT ![r] = @ \cup {Hash(e)}]
                  /\ batch' = [batch EXCEPT ![r] = @ \cup ({e} \cap (Rows \ published))]
                  /\ skipped' = skipped \cup Left(r, e)
             ELSE UNCHANGED <<held, batch, skipped>>
    BY <1>5 DEF Visit
  <2>2. e \in Events /\ Hash(e) \in {HashOf[k] : k \in Keys}
    BY KeyOfIsKey DEF TypeOK, NextOf, Hash
  <2>3. held' \in [Relays -> SUBSET {HashOf[k] : k \in Keys}]
    BY <2>1, <2>2 DEF TypeOK
  <2>4. batch' \in [Relays -> SUBSET Events] /\ rest' \in [Relays -> SUBSET Events]
    BY <2>1, <2>2 DEF TypeOK
  <2>5. skipped' \subseteq Events
    BY <2>1 DEF TypeOK, Left, Rows, Committed
  <2> QED
    BY <1>5, <2>3, <2>4, <2>5 DEF TypeOK, Visit
<1>6. ASSUME NEW r \in Relays, Claimed(r) PROVE TypeOK'
  BY <1>6, EndType DEF TypeOK, Claimed
<1>7. ASSUME NEW r \in Relays, Publish(r) PROVE TypeOK'
  <2>1. offset' \in [Events -> Nat]
    BY <1>7, SendStep DEF TypeOK, Publish
  <2> QED
    BY <1>7, <2>1 DEF TypeOK, Publish
<1>8. ASSUME NEW r \in Relays, PublishFails(r) PROVE TypeOK'
  <2>1. PICK sent \in SUBSET batch[r] : Send(sent)
    BY <1>8 DEF PublishFails
  <2>2. offset' \in [Events -> Nat]
    BY <2>1, SendStep DEF TypeOK
  <2> QED
    BY <1>8, <2>2 DEF TypeOK, PublishFails
<1>9. ASSUME NEW r \in Relays, MarkPublished(r) \/ MarkFailed(r) \/ Rollback(r) PROVE TypeOK'
  BY <1>9, EndType DEF TypeOK, MarkPublished, MarkFailed, Rollback
<1>10. CASE UNCHANGED vars
  BY <1>10 DEF TypeOK, vars
<1> QED
  BY <1>1, <1>2, <1>3, <1>4, <1>5, <1>6, <1>7, <1>8, <1>9, <1>10 DEF Next

\* Only published rows are ever pruned, and relays claim rows of the table.
THEOREM TypeCorrect == Spec => []TypeOK
<1> QED
  BY TypeInit, TypeStep, PTL DEF Spec

----
(* The table, the topic and the locks *)

LEMMA InvInit == Init => IInv
<1> SUFFICES ASSUME Init PROVE IInv
  OBVIOUS
<1>1. TypeOK
  BY TypeInit
<1>2. Delivered = {} /\ published = {}
  BY DEF Init, Delivered
<1>3. \A r \in Relays : batch[r] = {} /\ held[r] = {}
  BY DEF Init
<1> QED
  BY <1>1, <1>2, <1>3 DEF IInv, TopicAgrees, BatchInv, BatchOK, HeldInv

\* No step takes a row back from the committed ones, or an event out of the topic.
LEMMA Lasting ==
    ASSUME TypeOK, Next
    PROVE  Committed \subseteq Committed' /\ Delivered \subseteq Delivered'
<1> USE DEF rowVars, markVars, sweepVars
<1>1. ASSUME NEW e \in Events, Insert(e) \/ Commit(e) \/ Abort(e) \/ Prune(e)
      PROVE  Committed \subseteq Committed' /\ Delivered' = Delivered
  <2>1. Cardinality(Committed) \in Nat
    BY SetsOfEvents DEF Committed
  <2> QED
    BY <1>1, <2>1 DEF TypeOK, Committed, Delivered, Insert, Commit, Abort, Prune
<1>2. ASSUME NEW r \in Relays, Publish(r) \/ PublishFails(r)
      PROVE  Committed' = Committed /\ Delivered \subseteq Delivered'
  <2>1. PICK sent \in SUBSET batch[r] : Send(sent)
    BY <1>2 DEF Publish, PublishFails
  <2>2. sent \in SUBSET Events
    BY <2>1 DEF TypeOK
  <2> QED
    BY <1>2, <2>1, <2>2, SendStep DEF Committed, Publish, PublishFails
<1>3. ASSUME NEW r \in Relays,
             Begin(r) \/ Visit(r) \/ Claimed(r) \/ MarkPublished(r) \/ MarkFailed(r) \/ Rollback(r)
      PROVE  Committed' = Committed /\ Delivered' = Delivered
  BY <1>3 DEF Committed, Delivered, Begin, Visit, Claimed, MarkPublished, MarkFailed, Rollback
<1> QED
  BY <1>1, <1>2, <1>3 DEF Next

\* A step that leaves all sweeps as they are, and publishes and marks nothing.
LEMMA QuietStep ==
    ASSUME IInv, TypeOK', UNCHANGED <<sweepVars, published, offset>>,
           Committed \subseteq Committed'
    PROVE  IInv'
BY DEF IInv, TopicAgrees, BatchInv, BatchOK, HeldInv, Delivered, Hash, sweepVars

\* The end of a sweep gives up its rows and its locks, whatever it has marked.
LEMMA EndStep ==
    ASSUME IInv, TypeOK', NEW r \in Relays, EndSweep(r), UNCHANGED <<rowVars, offset>>,
           published' \subseteq Delivered
    PROVE  IInv'
<1>1. batch'[r] = {} /\ held'[r] = {}
  BY DEF IInv, TypeOK, EndSweep
<1>2. \A q \in Relays \ {r} : batch'[q] = batch[q] /\ held'[q] = held[q] /\ pc'[q] = pc[q]
  BY DEF IInv, TypeOK, EndSweep
<1>3. Committed' = Committed /\ Delivered' = Delivered
  BY DEF Committed, Delivered, rowVars
<1>4. BatchInv'
  BY <1>1, <1>2, <1>3 DEF IInv, BatchInv, BatchOK, Hash
<1>5. HeldInv'
  BY <1>1, <1>2 DEF IInv, HeldInv
<1> QED
  BY <1>3, <1>4, <1>5 DEF IInv, TopicAgrees

LEMMA VisitStep ==
    ASSUME IInv, TypeOK', NEW r \in Relays, Visit(r)
    PROVE  IInv'
<1>1. PICK e \in Events :
        IF MayLock(r, e)
        THEN /\ held' = [held EXCEPT ![r] = @ \cup {Hash(e)}]
             /\ batch' = [batch EXCEPT ![r] = @ \cup ({e} \cap (Rows \ published))]
        ELSE UNCHANGED <<held, batch>>
  BY DEF Visit, NextOf, IInv, TypeOK
<1>2. Committed' = Committed /\ Delivered' = Delivered /\ published' = published /\ pc' = pc
  BY DEF Visit, Committed, Delivered, rowVars, markVars
<1>3. pc[r] = "scan" /\ Rows \subseteq Committed
  BY DEF Visit, Rows
<1>4. CASE MayLock(r, e)
  <2>1. /\ held'[r] = held[r] \cup {Hash(e)}
        /\ batch'[r] = batch[r] \cup ({e} \cap (Rows \ published))
        /\ \A q \in Relays \ {r} : held'[q] = held[q] /\ batch'[q] = batch[q]
    BY <1>1, <1>4 DEF IInv, TypeOK
  <2>2. \A q \in Relays : BatchOK(q)'
    BY <1>2, <1>3, <2>1 DEF IInv, BatchInv, BatchOK, Hash
  <2>3. \A q \in Relays \ {r} : held'[r] \cap held'[q] = {}
    BY <1>4, <2>1 DEF IInv, HeldInv, MayLock
  <2>4. HeldInv'
    BY <2>1, <2>3 DEF IInv, HeldInv
  <2> QED
    BY <1>2, <2>2, <2>4 DEF IInv, TopicAgrees, BatchInv
<1>5. CASE ~MayLock(r, e)
  BY <1>1, <1>2, <1>5 DEF IInv, TopicAgrees, BatchInv, BatchOK, HeldInv, Hash
<1> QED
  BY <1>4, <1>5

LEMMA SendKeeps ==
    ASSUME IInv, TypeOK', NEW r \in Relays, NEW sent \in SUBSET batch[r], Send(sent),
           NEW p, pc' = [pc EXCEPT ![r] = p], p = "sent" => sent = batch[r],
           UNCHANGED <<rowVars, published, batch, held>>
    PROVE  IInv'
<1>1. Delivered' = Delivered \cup sent
  BY SendStep DEF IInv, TypeOK
<1>2. Committed' = Committed
  BY DEF Committed, rowVars
<1>3. pc'[r] = p /\ \A q \in Relays \ {r} : pc'[q] = pc[q]
  BY DEF IInv, TypeOK
<1>4. BatchInv'
  BY <1>1, <1>2, <1>3 DEF IInv, BatchInv, BatchOK, Hash
<1>5. TopicAgrees'
  BY <1>1, <1>2 DEF IInv, TopicAgrees, BatchInv, BatchOK
<1> QED
  BY <1>4, <1>5 DEF IInv, HeldInv

LEMMA InvStep == IInv /\ [Next]_vars => IInv'
<1> SUFFICES ASSUME IInv, [Next]_vars PROVE IInv'
  OBVIOUS
<1> USE DEF rowVars, markVars, sweepVars
<1>1. TypeOK /\ TypeOK'
  BY TypeStep DEF IInv
<1>2. ASSUME NEW e \in Events, Insert(e) \/ Commit(e) \/ Abort(e) \/ Prune(e) PROVE IInv'
  <2>1. Committed \subseteq Committed'
    BY <1>1, <1>2, Lasting DEF Next
  <2> QED
    BY <1>1, <1>2, <2>1, QuietStep DEF Insert, Commit, Abort, Prune
<1>3. ASSUME NEW r \in Relays, Begin(r) PROVE IInv'
  <2>1. Committed' = Committed /\ Delivered' = Delivered /\ pc'[r] # "sent"
        /\ \A q \in Relays \ {r} : pc'[q] = pc[q]
    BY <1>1, <1>3 DEF Begin, Committed, Delivered, TypeOK
  <2> QED
    BY <1>1, <1>3, <2>1 DEF IInv, TopicAgrees, BatchInv, BatchOK, HeldInv, Hash, Begin
<1>4. ASSUME NEW r \in Relays, Visit(r) PROVE IInv'
  BY <1>1, <1>4, VisitStep
<1>5. ASSUME NEW r \in Relays, Claimed(r) PROVE IInv'
  <2>1. CASE batch[r] = {}
    BY <1>1, <1>5, <2>1, EndStep DEF Claimed, IInv, TopicAgrees
  <2>2. CASE batch[r] # {}
    <3>1. Committed' = Committed /\ Delivered' = Delivered /\ pc'[r] # "sent"
          /\ \A q \in Relays \ {r} : pc'[q] = pc[q]
      BY <1>1, <1>5, <2>2 DEF Claimed, Committed, Delivered, TypeOK
    <3> QED
      BY <1>1, <1>5, <2>2, <3>1
         DEF IInv, TopicAgrees, BatchInv, BatchOK, HeldInv, Hash, Claimed
  <2> QED
    BY <2>1, <2>2
<1>6. ASSUME NEW r \in Relays, Publish(r) PROVE IInv'
  BY <1>1, <1>6, SendKeeps DEF Publish
<1>7. ASSUME NEW r \in Relays, PublishFails(r) PROVE IInv'
  <2>1. PICK sent \in SUBSET batch[r] : Send(sent)
    BY <1>7 DEF PublishFails
  <2> QED
    BY <1>1, <1>7, <2>1, SendKeeps DEF PublishFails
<1>8. ASSUME NEW r \in Relays, MarkPublished(r) PROVE IInv'
  <2>1. published' \subseteq Delivered
    BY <1>8 DEF MarkPublished, IInv, TopicAgrees, BatchInv, BatchOK
  <2> QED
    BY <1>1, <1>8, <2>1, EndStep DEF MarkPublished
<1>9. ASSUME NEW r \in Relays, MarkFailed(r) \/ Rollback(r) PROVE IInv'
  BY <1>1, <1>9, EndStep DEF MarkFailed, Rollback, IInv, TopicAgrees
<1>10. CASE UNCHANGED vars
  BY <1>1, <1>10, QuietStep DEF vars, Committed
<1> QED
  BY <1>2, <1>3, <1>4, <1>5, <1>6, <1>7, <1>8, <1>9, <1>10 DEF Next

\* Crashes, retries and concurrent relays never put an event in the topic whose
\* transaction did not commit, and never mark a row that was not sent.
THEOREM TopicIsTrue == Spec => []TopicAgrees
<1>1. IInv => TopicAgrees
  BY DEF IInv
<1> QED
  BY <1>1, InvInit, InvStep, PTL DEF Spec

\* However many relays sweep at once, the advisory locks keep each key to one of
\* them, also when hashes of keys collide.
THEOREM RelaysShareNoKey == Spec => []OneRelayPerKey
<1>1. IInv => OneRelayPerKey
  BY DEF IInv, BatchInv, BatchOK, HeldInv, OneRelayPerKey, Hash
<1> QED
  BY <1>1, InvInit, InvStep, PTL DEF Spec

----
(* The order within a key *)

\* d was there to be claimed before e.
Before(d, e) == KeyOf[e] = KeyOf[d] /\ id[d] < id[e] /\ commitNo[d] <= commitNo[e]

OffsetBound == \A e \in Events : offset[e] <= Cardinality(Delivered)

CommitBound == \A e \in Events : commitNo[e] <= Cardinality(Committed)

HasId == \A e \in Committed : id[e] > 0

\* What a relay has claimed comes after the whole of its key that was there before,
\* but for what a scan left.
ClaimsInTurn ==
    \A r \in Relays : \A e \in batch[r], d \in Committed :
        Before(d, e) => d \in Delivered \cup batch[r] \cup skipped

OrderInv == OffsetBound /\ CommitBound /\ HasId /\ ClaimsInTurn /\ OnlyLateCommitsOvertaken

LEMMA OrderInit == Init => OrderInv
<1> SUFFICES ASSUME Init PROVE OrderInv
  OBVIOUS
<1>1. Delivered = {} /\ Committed = {} /\ \A r \in Relays : batch[r] = {}
  BY DEF Init, Delivered, Committed
<1>2. Cardinality({}) = 0
  BY FS_EmptySet
<1> QED
  BY <1>1, <1>2
     DEF Init, OrderInv, OffsetBound, CommitBound, HasId, ClaimsInTurn, OnlyLateCommitsOvertaken

\* Where Send puts what is new: behind the topic as it was, in the order of the ids.
LEMMA SendOrder ==
    ASSUME TypeOK, OffsetBound, NEW sent \in SUBSET Events, Send(sent)
    PROVE  /\ OffsetBound'
           /\ \A e \in Delivered : offset'[e] = offset[e]
           /\ \A e \in sent \ Delivered, d \in Delivered : offset'[d] < offset'[e]
           /\ \A e, d \in sent \ Delivered : id[d] < id[e] => offset'[d] < offset'[e]
<1> DEFINE new == sent \ Delivered
           Upto(e) == {d \in new : id[d] <= id[e]}
<1>1. Delivered \in SUBSET Events /\ new \in SUBSET Events
  BY DEF Delivered
<1>2. Cardinality(Delivered) \in Nat /\ Cardinality(new) \in Nat
  BY <1>1, SetsOfEvents
<1>3. \A e \in Events :
        offset'[e] = IF e \in new THEN Cardinality(Delivered) + Cardinality(Upto(e)) ELSE offset[e]
  BY DEF Send
<1>4. Delivered' = Delivered \cup new
  BY SendStep
<1>5. Cardinality(Delivered') = Cardinality(Delivered) + Cardinality(new)
  <2>1. IsFiniteSet(Delivered) /\ IsFiniteSet(new) /\ Delivered \cap new = {}
    BY <1>1, SetsOfEvents
  <2>2. Cardinality(Delivered \cup new) = Cardinality(Delivered) + Cardinality(new) - Cardinality(Delivered \cap new)
    BY <2>1, FS_Union
  <2> QED
    BY <1>2, <1>4, <2>1, <2>2, FS_EmptySet
<1>6. ASSUME NEW e \in new
      PROVE  /\ Cardinality(Upto(e)) \in Nat /\ Cardinality(Upto(e)) > 0
             /\ Cardinality(Upto(e)) <= Cardinality(new)
  <2>1. Upto(e) \in SUBSET Events /\ e \in Upto(e) /\ Upto(e) \subseteq new
    BY <1>1, <1>6 DEF TypeOK
  <2>2. Cardinality(Upto(e)) # 0
    BY <2>1, SetsOfEvents, FS_EmptySet
  <2> QED
    BY <1>1, <2>1, <2>2, SetsOfEvents, FS_Subset
<1>7. ASSUME NEW e \in new, NEW d \in new, id[d] < id[e]
      PROVE  Cardinality(Upto(d)) < Cardinality(Upto(e))
  <2>1. Upto(d) \subseteq Upto(e) /\ e \in Upto(e) /\ e \notin Upto(d)
    BY <1>1, <1>7 DEF TypeOK
  <2>2. Upto(d) # Upto(e) /\ IsFiniteSet(Upto(e))
    BY <1>1, <2>1, SetsOfEvents
  <2>3. Cardinality(Upto(d)) # Cardinality(Upto(e)) /\ Cardinality(Upto(d)) <= Cardinality(Upto(e))
    BY <2>1, <2>2, FS_Subset
  <2> QED
    BY <1>6, <2>3
<1> HIDE DEF Upto, new
<1>8. \A e \in new : e \in Events
  BY <1>1
<1>9. \A d \in Delivered : d \in Events /\ d \notin new /\ offset'[d] = offset[d]
  BY <1>1, <1>3 DEF new
<1>10. OffsetBound'
  BY <1>2, <1>3, <1>5, <1>6 DEF OffsetBound, TypeOK
<1>11. \A e \in new, d \in Delivered : offset'[d] < offset'[e]
  BY <1>2, <1>3, <1>6, <1>8, <1>9 DEF OffsetBound, TypeOK
<1>12. \A e, d \in new : id[d] < id[e] => offset'[d] < offset'[e]
  BY <1>2, <1>3, <1>6, <1>7, <1>8
<1> QED
  BY <1>9, <1>10, <1>11, <1>12 DEF new

\* A publish, of a whole claim or of a beginning of each key of it.
LEMMA SendInOrder ==
    ASSUME IInv, OrderInv, TypeOK', NEW r \in Relays, NEW sent \in SUBSET batch[r], Send(sent),
           \A e \in sent, d \in batch[r] : KeyOf[d] = KeyOf[e] /\ id[d] < id[e] => d \in sent,
           UNCHANGED <<rowVars, batch, skipped>>
    PROVE  OrderInv'
<1>1. TypeOK /\ sent \in SUBSET Events /\ sent \subseteq Committed
  BY DEF IInv, TypeOK, BatchInv, BatchOK
<1>2. Delivered' = Delivered \cup sent /\ Committed' = Committed
  BY <1>1, SendStep DEF Committed, rowVars
<1>3. /\ OffsetBound'
      /\ \A e \in Delivered : offset'[e] = offset[e]
      /\ \A e \in sent \ Delivered, d \in Delivered : offset'[d] < offset'[e]
      /\ \A e, d \in sent \ Delivered : id[d] < id[e] => offset'[d] < offset'[e]
  BY <1>1, SendOrder DEF OrderInv
<1>4. CommitBound' /\ HasId'
  BY <1>2 DEF OrderInv, CommitBound, HasId, rowVars
<1>5. ClaimsInTurn'
  BY <1>2 DEF OrderInv, ClaimsInTurn, Before, rowVars
<1>6. ASSUME NEW e \in Delivered', NEW d \in Committed', KeyOf[e] = KeyOf[d], id[d] < id[e]
      PROVE  (d \in Delivered' /\ offset'[d] < offset'[e]) \/ commitNo[d] > commitNo[e] \/ d \in skipped
  <2>1. e \in Events /\ d \in Events /\ commitNo[e] \in Nat /\ commitNo[d] \in Nat
    BY <1>1, <1>2, <1>6 DEF Delivered, Committed, TypeOK
  <2>2. CASE e \in Delivered
    <3>1. (d \in Delivered /\ offset[d] < offset[e]) \/ commitNo[d] > commitNo[e] \/ d \in skipped
      BY <1>2, <1>6, <2>2 DEF OrderInv, OnlyLateCommitsOvertaken
    <3> QED
      BY <1>2, <1>3, <2>2, <3>1
  <2>3. CASE e \notin Delivered /\ commitNo[d] <= commitNo[e]
    <3>1. e \in sent /\ e \in batch[r] /\ Before(d, e)
      BY <1>2, <1>6, <2>3 DEF Before
    <3>2. d \in Delivered \cup batch[r] \cup skipped
      BY <1>2, <1>6, <3>1 DEF OrderInv, ClaimsInTurn
    <3>3. d \in Delivered \cup sent \cup skipped
      BY <1>6, <3>1, <3>2
    <3> QED
      BY <1>2, <1>3, <1>6, <2>3, <3>1, <3>3
  <2> QED
    BY <2>1, <2>2, <2>3
<1>7. OnlyLateCommitsOvertaken'
  BY <1>6 DEF OnlyLateCommitsOvertaken, rowVars
<1> QED
  BY <1>3, <1>4, <1>5, <1>7 DEF OrderInv

\* A step of a sweep that sends nothing and claims nothing more.
LEMMA QuietOrder ==
    ASSUME IInv, OrderInv, UNCHANGED <<rowVars, offset, skipped>>,
           \A r \in Relays : batch'[r] \subseteq batch[r] /\ (batch'[r] = {} \/ batch'[r] = batch[r])
    PROVE  OrderInv'
<1>1. Committed' = Committed /\ Delivered' = Delivered
  BY DEF Committed, Delivered, rowVars
<1>2. ClaimsInTurn'
  BY <1>1 DEF OrderInv, ClaimsInTurn, Before, rowVars
<1> QED
  BY <1>1, <1>2
     DEF OrderInv, OffsetBound, CommitBound, HasId, OnlyLateCommitsOvertaken, rowVars

LEMMA VisitInOrder ==
    ASSUME IInv, OrderInv, NEW r \in Relays, Visit(r)
    PROVE  OrderInv'
<1>1. PICK e \in NextOf(rest[r]) :
        IF MayLock(r, e)
        THEN /\ held' = [held EXCEPT ![r] = @ \cup {Hash(e)}]
             /\ batch' = [batch EXCEPT ![r] = @ \cup ({e} \cap (Rows \ published))]
             /\ skipped' = skipped \cup Left(r, e)
        ELSE UNCHANGED <<held, batch, skipped>>
  BY DEF Visit
<1>2. UNCHANGED <<rowVars, offset>>
  BY DEF Visit
<1>3. CASE ~MayLock(r, e)
  BY <1>1, <1>2, <1>3, QuietOrder
<1>4. CASE MayLock(r, e)
  <2>1. Committed' = Committed /\ Delivered' = Delivered
    BY <1>2 DEF Committed, Delivered, rowVars
  <2>2. /\ skipped' = skipped \cup Left(r, e)
        /\ batch'[r] = batch[r] \cup ({e} \cap (Rows \ published))
        /\ \A q \in Relays \ {r} : batch'[q] = batch[q]
    BY <1>1, <1>4 DEF IInv, TypeOK
  <2>3. ASSUME NEW d \in Committed, Before(d, e)
        PROVE  d \in Delivered \cup batch[r] \cup Left(r, e)
    <3>1. d \in Rows \/ d \in Delivered
      BY DEF Rows, IInv, TypeOK, TopicAgrees
    <3>2. d \notin rest[r]
      <4>1. d \in Events /\ e \in Events /\ id[d] \in Nat /\ id[e] \in Nat
        BY DEF Committed, NextOf, IInv, TypeOK
      <4>2. \A c \in rest[r] : id[e] <= id[c]
        BY DEF NextOf
      <4> QED
        BY <2>3, <4>1, <4>2 DEF Before
    <3> QED
      BY <2>3, <3>1, <3>2 DEF Before, Left, IInv, TopicAgrees
  <2>4. \A c \in Events, d \in Events : Before(d, c)' <=> Before(d, c)
    BY <1>2 DEF Before, rowVars
  <2>5. ClaimsInTurn'
    <3>1. ASSUME NEW q \in Relays, NEW c \in batch'[q], NEW d \in Committed, Before(d, c)
          PROVE  d \in Delivered \cup batch'[q] \cup skipped'
      <4>1. CASE c \in batch[q]
        <5>1. batch[q] \subseteq batch'[q] /\ skipped \subseteq skipped'
          BY <2>2
        <5>2. d \in Delivered \cup batch[q] \cup skipped
          BY <3>1, <4>1 DEF OrderInv, ClaimsInTurn
        <5> QED
          BY <5>1, <5>2
      <4>2. CASE c \notin batch[q]
        BY <2>2, <2>3, <3>1, <4>2
      <4> QED
        BY <4>1, <4>2
    <3> QED
      BY <1>2, <2>1, <3>1 DEF ClaimsInTurn, Before, rowVars
  <2>6. OnlyLateCommitsOvertaken'
    BY <1>2, <2>1, <2>2 DEF OrderInv, OnlyLateCommitsOvertaken, rowVars
  <2> QED
    BY <1>2, <2>1, <2>5, <2>6 DEF OrderInv, OffsetBound, CommitBound, HasId, rowVars
<1> QED
  BY <1>3, <1>4

\* An event that commits now commits after all that have committed.
LEMMA CommitInOrder ==
    ASSUME IInv, OrderInv, NEW e \in Events, Commit(e)
    PROVE  OrderInv'
<1>1. TypeOK /\ Cardinality(Committed) \in Nat /\ IsFiniteSet(Committed)
  BY SetsOfEvents DEF IInv, Committed
<1>2. /\ commitNo'[e] = 1 + Cardinality(Committed) /\ id[e] > 0 /\ e \notin Committed
      /\ \A d \in Events \ {e} : commitNo'[d] = commitNo[d]
      /\ UNCHANGED <<id, batch, offset, skipped>>
  BY <1>1 DEF Commit, InDoubt, TypeOK, Committed, sweepVars
<1>3. Committed' = Committed \cup {e} /\ Delivered' = Delivered
  BY <1>1, <1>2 DEF Committed, Delivered, TypeOK
<1>4. Cardinality(Committed') = Cardinality(Committed) + 1
  BY <1>1, <1>2, <1>3, FS_AddElement
<1>5. CommitBound'
  BY <1>1, <1>2, <1>4 DEF OrderInv, CommitBound, TypeOK
<1>6. \A c \in Committed : c \in Events /\ c # e /\ commitNo'[c] = commitNo[c] /\ commitNo'[c] < commitNo'[e]
  BY <1>1, <1>2 DEF OrderInv, CommitBound, Committed, TypeOK
<1>7. (\A r \in Relays : batch[r] \subseteq Committed) /\ Delivered \subseteq Committed
  BY DEF IInv, BatchInv, BatchOK, TopicAgrees
<1>8. commitNo'[e] \in Nat /\ \A c \in Committed : commitNo'[c] \in Nat
  BY <1>1, <1>2, <1>6 DEF TypeOK
<1>9. ClaimsInTurn'
  <2>1. ASSUME NEW r \in Relays, NEW c \in batch[r], NEW d \in Committed',
               KeyOf[c] = KeyOf[d], id[d] < id[c], commitNo'[d] <= commitNo'[c]
        PROVE  d \in Delivered \cup batch[r] \cup skipped
    <3>1. c \in Committed
      BY <1>7
    <3>2. d \in Committed
      BY <1>3, <1>6, <1>8, <2>1, <3>1
    <3> QED
      BY <1>6, <2>1, <3>1, <3>2 DEF OrderInv, ClaimsInTurn, Before
  <2> QED
    BY <1>2, <1>3, <2>1 DEF ClaimsInTurn, Before
<1>10. OnlyLateCommitsOvertaken'
  <2>1. ASSUME NEW c \in Delivered, NEW d \in Committed', KeyOf[c] = KeyOf[d], id[d] < id[c]
        PROVE  (d \in Delivered /\ offset[d] < offset[c]) \/ commitNo'[d] > commitNo'[c] \/ d \in skipped
    <3>1. CASE d = e
      BY <1>6, <1>7, <1>8, <3>1
    <3>2. CASE d \in Committed
      BY <1>6, <1>7, <2>1, <3>2 DEF OrderInv, OnlyLateCommitsOvertaken
    <3> QED
      BY <1>3, <3>1, <3>2
  <2> QED
    BY <1>2, <1>3, <2>1 DEF OnlyLateCommitsOvertaken
<1>11. HasId' /\ OffsetBound'
  BY <1>2, <1>3 DEF OrderInv, HasId, OffsetBound
<1> QED
  BY <1>5, <1>9, <1>10, <1>11 DEF OrderInv

\* A row gets its id before it is committed.
LEMMA InsertInOrder ==
    ASSUME IInv, OrderInv, NEW e \in Events, Insert(e)
    PROVE  OrderInv'
<1>1. /\ e \notin Committed /\ \A d \in Events \ {e} : id'[d] = id[d]
      /\ UNCHANGED <<commitNo, batch, offset, skipped>>
  BY DEF Insert, OrderInv, HasId, IInv, TypeOK, Committed, sweepVars
<1>2. Committed' = Committed /\ Delivered' = Delivered
  BY <1>1 DEF Committed, Delivered
<1>3. (\A r \in Relays : batch[r] \subseteq Committed) /\ Delivered \subseteq Committed
  BY DEF IInv, BatchInv, BatchOK, TopicAgrees
<1>4. \A d \in Committed : id'[d] = id[d]
  BY <1>1 DEF Committed
<1>5. ClaimsInTurn'
  BY <1>1, <1>2, <1>3, <1>4 DEF OrderInv, ClaimsInTurn, Before
<1>6. OnlyLateCommitsOvertaken'
  BY <1>1, <1>2, <1>3, <1>4 DEF OrderInv, OnlyLateCommitsOvertaken
<1> QED
  BY <1>1, <1>2, <1>4, <1>5, <1>6 DEF OrderInv, OffsetBound, CommitBound, HasId

LEMMA OrderStep == IInv /\ OrderInv /\ [Next]_vars => OrderInv'
<1> SUFFICES ASSUME IInv, OrderInv, [Next]_vars PROVE OrderInv'
  OBVIOUS
<1> USE DEF rowVars, markVars, sweepVars
<1>1. TypeOK /\ TypeOK'
  BY TypeStep DEF IInv
<1>2. ASSUME NEW e \in Events, Insert(e) \/ Commit(e) PROVE OrderInv'
  BY <1>2, InsertInOrder, CommitInOrder
<1>3. ASSUME NEW e \in Events, Abort(e) \/ Prune(e) PROVE OrderInv'
  <2>1. UNCHANGED <<id, commitNo, offset, skipped, batch>>
    BY <1>3 DEF Abort, Prune
  <2> QED
    BY <2>1
       DEF OrderInv, OffsetBound, CommitBound, HasId, ClaimsInTurn, OnlyLateCommitsOvertaken,
           Before, Committed, Delivered
<1>4. ASSUME NEW r \in Relays,
             Begin(r) \/ Claimed(r) \/ MarkPublished(r) \/ MarkFailed(r) \/ Rollback(r)
      PROVE  OrderInv'
  <2>1. \A q \in Relays : batch'[q] \subseteq batch[q] /\ (batch'[q] = {} \/ batch'[q] = batch[q])
    BY <1>1, <1>4 DEF Begin, Claimed, MarkPublished, MarkFailed, Rollback, EndSweep, TypeOK
  <2>2. UNCHANGED <<rowVars, offset, skipped>>
    BY <1>4 DEF Begin, Claimed, MarkPublished, MarkFailed, Rollback
  <2> QED
    BY <2>1, <2>2, QuietOrder
<1>5. ASSUME NEW r \in Relays, Visit(r) PROVE OrderInv'
  BY <1>5, VisitInOrder
<1>6. ASSUME NEW r \in Relays, Publish(r) PROVE OrderInv'
  BY <1>1, <1>6, SendInOrder DEF Publish
<1>7. ASSUME NEW r \in Relays, PublishFails(r) PROVE OrderInv'
  <2>1. PICK sent \in SUBSET batch[r] :
          /\ \A e \in sent, d \in batch[r] :
                KeyOf[d] = KeyOf[e] /\ id[d] < id[e] => d \in sent
          /\ Send(sent)
    BY <1>7 DEF PublishFails
  <2> QED
    BY <1>1, <1>7, <2>1, SendInOrder DEF PublishFails
<1>8. CASE UNCHANGED vars
  BY <1>8, QuietOrder DEF vars
<1> QED
  BY <1>2, <1>3, <1>4, <1>5, <1>6, <1>7, <1>8 DEF Next

\* Within a key only late commits, and events a scan left to another relay, are ever
\* overtaken: for any number of events, keys and relays, with hashes that collide or not.
THEOREM OnlyLateOvertaken == Spec => []OnlyLateCommitsOvertaken
<1>1. OrderInv => OnlyLateCommitsOvertaken
  BY DEF OrderInv
<1> QED
  BY <1>1, InvInit, InvStep, OrderInit, OrderStep, PTL DEF Spec
=============================================================================
