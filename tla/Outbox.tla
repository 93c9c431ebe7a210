------------------------------- MODULE Outbox -------------------------------
(***************************************************************************)
(* The transactional outbox: events written in the transaction that moves  *)
(* the money, and the relays that publish them to Kafka.                   *)
(*                                                                         *)
(* A row gets its id when it is inserted and is seen by others when its    *)
(* transaction commits.  A sweep is one transaction of a relay: it claims  *)
(* unpublished rows under an advisory lock per partition key, publishes    *)
(* them, marks them and commits.  A sweep that is cut short, by a crash or *)
(* by the 30 seconds of a worker step, is rolled back: its locks and its   *)
(* marks are gone, what it published is not.                               *)
(***************************************************************************)
EXTENDS Naturals, FiniteSets

CONSTANTS
    Events,     \* rows that are ever inserted, each by a transaction of its own
    Keys,       \* partition keys
    KeyOf,      \* the partition key of each event
    HashOf,     \* hashtext of each key: two keys may collide
    Relays,     \* relays, one in each process that runs the workers
    BatchSize   \* rows claimed by a sweep at most

ASSUME EventsFinite == IsFiniteSet(Events)
ASSUME KeyOfIsKey == KeyOf \in [Events -> Keys]
ASSUME HashOfHasHash == DOMAIN HashOf = Keys
ASSUME BatchSizeIsPositive == BatchSize \in Nat \ {0}

VARIABLES
    id,         \* the BIGSERIAL of each row, 0 before its INSERT
    commitNo,   \* when its transaction committed, counted from 1; 0 if it has not
    aborted,    \* the events whose transaction was rolled back
    published,  \* the rows with a published_at
    pruned,     \* the rows deleted from the published history
    pc,         \* idle, scan, claimed, sent or failed: how far the sweep of each relay is
    rest,       \* the rows the scan of each sweep has still to visit
    batch,      \* the rows each relay has claimed
    held,       \* the advisory locks each relay holds
    offset,     \* where each event first stands in the topic, counted from 1; 0 if nowhere
    skipped     \* history: the events a scan left to another relay before it got their key

rowVars   == <<id, commitNo, aborted>>
markVars  == <<published, pruned>>
sweepVars == <<pc, rest, batch, held>>
vars == <<id, commitNo, aborted, published, pruned, pc, rest, batch, held, offset, skipped>>

Hash(e) == HashOf[KeyOf[e]]

Committed == {e \in Events : commitNo[e] > 0}
Delivered == {e \in Events : offset[e] > 0}

\* Faulty variant: the event is inserted in a transaction of its own, before the one
\* that moves the money has committed.
EarlyRows == {e \in Events : id[e] > 0} \ pruned

\* What a statement of another transaction sees.
Rows == Committed \ pruned

----
(* Writers *)

\* outbox.Write, within a transaction that goes on.
Insert(e) ==
    /\ id[e] = 0
    /\ id' = [id EXCEPT ![e] = 1 + Cardinality({d \in Events : id[d] > 0})]
    /\ UNCHANGED <<commitNo, aborted, markVars, sweepVars, offset, skipped>>

InDoubt(e) == id[e] > 0 /\ commitNo[e] = 0 /\ e \notin aborted

Commit(e) ==
    /\ InDoubt(e)
    /\ commitNo' = [commitNo EXCEPT ![e] = 1 + Cardinality(Committed)]
    /\ UNCHANGED <<id, aborted, markVars, sweepVars, offset, skipped>>

Abort(e) ==
    /\ InDoubt(e)
    /\ aborted' = aborted \cup {e}
    /\ UNCHANGED <<id, commitNo, markVars, sweepVars, offset, skipped>>

----
(* A sweep *)

\* The statement's snapshot: rows committed and unpublished when it starts.  A sweep
\* that finds none commits at once.
Begin(r) ==
    /\ pc[r] = "idle"
    /\ Rows \ published # {}
    /\ rest' = [rest EXCEPT ![r] = Rows \ published]
    /\ pc' = [pc EXCEPT ![r] = "scan"]
    /\ UNCHANGED <<rowVars, markVars, batch, held, offset, skipped>>

\* Faulty variant: rows locked by another relay are skipped, keys are not locked.
MayLockRow(r, e) == \A q \in Relays \ {r} : e \notin batch[q]

\* pg_try_advisory_xact_lock(hashtext(partition_key)), which never waits.
MayLock(r, e) == \A q \in Relays \ {r} : Hash(e) \notin held[q]

\* ORDER BY id.
NextOf(S) == {e \in S : \A d \in S : id[e] <= id[d]}

\* What the scan of r has left behind of the key of e: it saw the rows before e, and
\* another relay had the key then.
Left(r, e) ==
    {d \in Rows \ (published \cup rest[r] \cup batch[r]) :
        KeyOf[d] = KeyOf[e] /\ id[d] < id[e] /\ commitNo[d] <= commitNo[e]}

\* The scan visits one row after the other and tries the lock at each of them, so a
\* key that another relay lets go in between is claimed from the middle.  FOR UPDATE
\* reads the row anew: one that was published or pruned meanwhile is left out.
Visit(r) ==
    /\ pc[r] = "scan"
    /\ rest[r] # {}
    /\ Cardinality(batch[r]) < BatchSize
    /\ \E e \in NextOf(rest[r]) :
          /\ rest' = [rest EXCEPT ![r] = @ \ {e}]
          /\ IF MayLock(r, e)
             THEN /\ held' = [held EXCEPT ![r] = @ \cup {Hash(e)}]
                  /\ batch' = [batch EXCEPT ![r] = @ \cup ({e} \cap (Rows \ published))]
                  /\ skipped' = skipped \cup Left(r, e)
             ELSE UNCHANGED <<held, batch, skipped>>
    /\ UNCHANGED <<rowVars, markVars, pc, offset>>

\* The sweep is over: its transaction ends and lets the advisory locks go.
EndSweep(r) ==
    /\ pc' = [pc EXCEPT ![r] = "idle"]
    /\ rest' = [rest EXCEPT ![r] = {}]
    /\ batch' = [batch EXCEPT ![r] = {}]
    /\ held' = [held EXCEPT ![r] = {}]

\* The scan has its LIMIT or has seen every row.
Claimed(r) ==
    /\ pc[r] = "scan"
    /\ rest[r] = {} \/ Cardinality(batch[r]) = BatchSize
    /\ IF batch[r] = {}
       THEN EndSweep(r)
       ELSE /\ pc' = [pc EXCEPT ![r] = "claimed"]
            /\ rest' = [rest EXCEPT ![r] = {}]
            /\ UNCHANGED <<batch, held>>
    /\ UNCHANGED <<rowVars, markVars, offset, skipped>>

\* Faulty variant: ORDER BY id DESC.
SendLatestFirst(sent) ==
    LET new == sent \ Delivered IN
    offset' = [e \in Events |->
        IF e \in new THEN Cardinality(Delivered) + Cardinality({d \in new : id[d] >= id[e]})
                     ELSE offset[e]]

\* The events in `sent` reach the topic in the order of their ids; a second copy of
\* one that is there already is for its consumers to drop.
Send(sent) ==
    LET new == sent \ Delivered IN
    offset' = [e \in Events |->
        IF e \in new THEN Cardinality(Delivered) + Cardinality({d \in new : id[d] <= id[e]})
                     ELSE offset[e]]

Publish(r) ==
    /\ pc[r] = "claimed"
    /\ Send(batch[r])
    /\ pc' = [pc EXCEPT ![r] = "sent"]
    /\ UNCHANGED <<rowVars, markVars, rest, batch, held, skipped>>

\* ProduceSync reports the first error: what was produced before it stays, and of
\* one key that is always a beginning.
PublishFails(r) ==
    /\ pc[r] = "claimed"
    /\ \E sent \in SUBSET batch[r] :
          /\ \A e \in sent, d \in batch[r] :
                KeyOf[d] = KeyOf[e] /\ id[d] < id[e] => d \in sent
          /\ Send(sent)
    /\ pc' = [pc EXCEPT ![r] = "failed"]
    /\ UNCHANGED <<rowVars, markVars, rest, batch, held, skipped>>

\* markPublished and the commit of the sweep.
MarkPublished(r) ==
    /\ pc[r] = "sent"
    /\ published' = published \cup batch[r]
    /\ EndSweep(r)
    /\ UNCHANGED <<rowVars, pruned, offset, skipped>>

\* Faulty variant: a failed publish is marked as if it had succeeded.
MarkFailedPublished(r) ==
    /\ pc[r] = "failed"
    /\ published' = published \cup batch[r]
    /\ EndSweep(r)
    /\ UNCHANGED <<rowVars, pruned, offset, skipped>>

\* markFailed and the commit of the sweep: the rows stay unpublished.  Their attempts
\* and last_error, which only people read, are left out.
MarkFailed(r) ==
    /\ pc[r] = "failed"
    /\ EndSweep(r)
    /\ UNCHANGED <<rowVars, markVars, offset, skipped>>

Rollback(r) ==
    /\ pc[r] # "idle"
    /\ EndSweep(r)
    /\ UNCHANGED <<rowVars, markVars, offset, skipped>>

\* Prune deletes rows published long enough ago, whatever the relays do.
Prune(e) ==
    /\ e \in Rows \cap published
    /\ pruned' = pruned \cup {e}
    /\ UNCHANGED <<rowVars, published, sweepVars, offset, skipped>>

----
Init ==
    /\ id = [e \in Events |-> 0]
    /\ commitNo = [e \in Events |-> 0]
    /\ aborted = {}
    /\ published = {}
    /\ pruned = {}
    /\ pc = [r \in Relays |-> "idle"]
    /\ rest = [r \in Relays |-> {}]
    /\ batch = [r \in Relays |-> {}]
    /\ held = [r \in Relays |-> {}]
    /\ offset = [e \in Events |-> 0]
    /\ skipped = {}

Next ==
    \/ \E e \in Events : Insert(e) \/ Commit(e) \/ Abort(e) \/ Prune(e)
    \/ \E r \in Relays :
          \/ Begin(r)
          \/ Visit(r)
          \/ Claimed(r)
          \/ Publish(r)
          \/ PublishFails(r)
          \/ MarkPublished(r)
          \/ MarkFailed(r)
          \/ Rollback(r)

\* A worker loop sweeps again after every error.  Relays are not cut short for ever,
\* and a publish that is tried again and again succeeds some time.
Fairness ==
    /\ <>[][\A r \in Relays : ~Rollback(r)]_vars
    /\ \A r \in Relays :
          /\ WF_vars(Begin(r) \/ Visit(r) \/ Claimed(r))
          /\ SF_vars(Publish(r))
          /\ WF_vars(MarkPublished(r))
          /\ WF_vars(MarkFailed(r))

Spec == Init /\ [][Next]_vars /\ Fairness

----
(* Properties *)

\* Only published rows are ever pruned, and relays claim rows of the table.
TypeOK ==
    /\ id \in [Events -> Nat]
    /\ commitNo \in [Events -> Nat]
    /\ aborted \subseteq Events
    /\ published \subseteq Events
    /\ pruned \subseteq published
    /\ pc \in [Relays -> {"idle", "scan", "claimed", "sent", "failed"}]
    /\ rest \in [Relays -> SUBSET Events]
    /\ batch \in [Relays -> SUBSET Events]
    /\ held \in [Relays -> SUBSET {HashOf[k] : k \in Keys}]
    /\ offset \in [Events -> Nat]
    /\ skipped \subseteq Events

\* Neither half of a dual write: what the topic says has happened in the ledger,
\* and what a row says was published, and may be pruned, is in the topic.
TopicAgrees ==
    /\ Delivered \subseteq Committed
    /\ published \subseteq Delivered

\* Two relays never split the stream of one key.
OneRelayPerKey ==
    \A r, q \in Relays : r # q =>
        \A e \in batch[r], d \in batch[q] : KeyOf[e] # KeyOf[d]

\* Within a key an event overtakes one with a smaller id only if that one's
\* transaction committed after its own, or if a scan left that one while another
\* relay had the key, and the key came free before the scan was over: retries and
\* crashes never change the order of what there was to be claimed.
OnlyLateCommitsOvertaken ==
    \A e \in Delivered, d \in Committed :
        KeyOf[e] = KeyOf[d] /\ id[d] < id[e] =>
            \/ d \in Delivered /\ offset[d] < offset[e]
            \/ commitNo[d] > commitNo[e]
            \/ d \in skipped

\* At least once: a committed event reaches the topic.
EveryEventDelivered == \A e \in Events : (commitNo[e] > 0) ~> (offset[e] > 0)
=============================================================================
