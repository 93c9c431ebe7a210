------------------------------ MODULE Webhooks ------------------------------
(***************************************************************************)
(* Webhook deliveries: an event is queued once for each endpoint that      *)
(* subscribes to it, and dispatchers post what is due.                     *)
(*                                                                         *)
(* A step of a dispatcher is one transaction: it locks a batch of due      *)
(* rows, posts them one after the other, writes down each answer and       *)
(* commits.  A step that does not commit is rolled back: its attempts are  *)
(* not counted, but the endpoints have had them.  A statement that fails,  *)
(* or a lost connection, rolls it back at once and frees its rows, and the *)
(* dispatcher, which ignores the error, posts the rest of its batch none   *)
(* the less.  The worker gives a step 30 seconds, and each answer that     *)
(* does not come uses up the timeout of its endpoint.                      *)
(***************************************************************************)
EXTENDS Naturals, FiniteSets

CONSTANTS
    Events,
    Endpoints,
    Subscribers,    \* the enabled endpoints that want each event when it is queued
    Dispatchers,    \* one in each process that runs the workers
    BatchSize,      \* MARSPAY_WEBHOOK_BATCH
    Backoff,        \* how many waits schedule.go lists
    StepTimeouts,   \* answers that fail to come in time and use up a step
    MaxReplays      \* bound: how often an operator replays a delivery

ASSUME SubscribersAreEndpoints == Subscribers \in [Events -> SUBSET Endpoints]
ASSUME DeliveriesFinite == IsFiniteSet(Events) /\ IsFiniteSet(Endpoints)
ASSUME SizesAreNatural ==
    /\ BatchSize \in Nat \ {0}
    /\ Backoff \in Nat
    /\ StepTimeouts \in Nat \ {0}
    /\ MaxReplays \in Nat

Deliveries == {d \in Events \X Endpoints : d[2] \in Subscribers[d[1]]}

VARIABLES
    status,     \* none before the row is there, then pending, retrying, delivered, dead_letter
    attempt,    \* attempts the row counts
    due,        \* the rows whose next_retry_at has come
    born,       \* created_at, counted from 1; 0 if there is no row
    replays,    \* how often each row was replayed
    pc,         \* idle, posting in an open transaction, or broken: posting after its end
    batch,      \* the rows each dispatcher has locked, or, without locks, those it has yet to post
    answer,     \* what each dispatcher has written for the rows it posted: none, taken, failed
    timeouts,   \* answers each dispatcher has waited for in vain
    taken,      \* the deliveries an endpoint has answered with 2xx
    lost,       \* the deliveries with an attempt that was never written down
    again,      \* of the others, those answered with 2xx more than once
    posts       \* of the others, the attempts made since the row was queued or replayed

rowVars  == <<status, attempt, due, born, replays>>
stepVars == <<pc, batch, answer, timeouts>>
history  == <<taken, lost, again, posts>>
vars == <<rowVars, stepVars, history>>

\* One first try and a retry after each wait.
MaxAttempts == Backoff + 1

\* Of the first attempts that failed, those that are followed by a wait.
NextRetry(made) == made \in 1..Backoff

----
(* Enqueue *)

Queued(e) == \E d \in Deliveries : d[1] = e /\ status[d] # "none"

\* One transaction: the event and a row for each endpoint, due at once.  An event
\* that nobody wants has no row.
Enqueue(e) ==
    LET new == {d \in Deliveries : d[1] = e} IN
    /\ new # {}
    /\ ~Queued(e)
    /\ status' = [d \in Deliveries |-> IF d \in new THEN "pending" ELSE status[d]]
    /\ born' = [d \in Deliveries |->
          IF d \in new THEN 1 + Cardinality({f \in Events : Queued(f)}) ELSE born[d]]
    /\ due' = due \cup new
    /\ UNCHANGED <<attempt, replays, stepVars, history>>

----
(* DispatchBatch *)

\* The rows whose locks an open transaction holds.
Locked == UNION {batch[w] : w \in {v \in Dispatchers : pc[v] = "posting"}}

\* Faulty variant: the rows are read without a lock.
ClaimableUnlocked == {d \in due : status[d] \in {"pending", "retrying"}}

\* Faulty variant: retries are left to a sweep that does not exist.
ClaimablePending == {d \in due \ Locked : status[d] = "pending"}

Claimable == {d \in due \ Locked : status[d] \in {"pending", "retrying"}}

Oldest(B, S) == \A b \in B, d \in S \ B : born[b] <= born[d]

\* ORDER BY created_at LIMIT ... FOR UPDATE SKIP LOCKED.  A step that finds nothing
\* commits at once and leaves no trace.
Claim(w) ==
    LET S == Claimable IN
    /\ pc[w] = "idle"
    /\ \E B \in SUBSET S \ {{}} :
          /\ Cardinality(B) <= BatchSize
          /\ B = S \/ Cardinality(B) = BatchSize
          /\ Oldest(B, S)
          /\ batch' = [batch EXCEPT ![w] = B]
    /\ pc' = [pc EXCEPT ![w] = "posting"]
    /\ answer' = [answer EXCEPT ![w] = [d \in Deliveries |-> "none"]]
    /\ timeouts' = [timeouts EXCEPT ![w] = 0]
    /\ UNCHANGED <<rowVars, history>>

Posted(w) == {d \in batch[w] : answer[w][d] # "none"}

\* The request reaches the endpoint, whatever it answers.
Count(d) ==
    posts' = IF d \in lost THEN posts ELSE [posts EXCEPT ![d] = @ + 1]

Took(w, d) ==
    /\ answer' = [answer EXCEPT ![w][d] = "taken"]
    /\ taken' = taken \cup {d}
    /\ again' = again \cup (({d} \cap taken) \ lost)
    /\ UNCHANGED timeouts

\* Another code, or no connection.
Refused(w, d) ==
    /\ answer' = [answer EXCEPT ![w][d] = "failed"]
    /\ UNCHANGED <<taken, again, timeouts>>

\* The endpoint does not answer in time; it may have taken the delivery none the
\* less, which nobody is told.
TimedOut(w, d) ==
    /\ answer' = [answer EXCEPT ![w][d] = "failed"]
    /\ timeouts' = [timeouts EXCEPT ![w] = @ + 1]
    /\ UNCHANGED <<taken, again>>

\* deliver: post, and write the answer in the open transaction.
Deliver(w) ==
    /\ pc[w] = "posting"
    /\ timeouts[w] < StepTimeouts
    /\ \E d \in batch[w] \ Posted(w) :
          /\ Oldest({d}, batch[w] \ Posted(w))
          /\ Count(d)
          /\ Took(w, d) \/ Refused(w, d) \/ TimedOut(w, d)
    /\ UNCHANGED <<rowVars, pc, batch, lost>>

\* Attempts of D are not written down, and no more is counted of D.
Lose(D) ==
    /\ lost' = lost \cup D
    /\ posts' = [d \in Deliveries |-> IF d \in D THEN 0 ELSE posts[d]]
    /\ again' = again \ D

\* A statement fails or the connection is lost: Postgres ends the transaction and
\* frees the rows, but the dispatcher goes on with its batch.
LoseLocks(w) ==
    /\ pc[w] = "posting"
    /\ pc' = [pc EXCEPT ![w] = "broken"]
    /\ batch' = [batch EXCEPT ![w] = @ \ Posted(w)]
    /\ answer' = [answer EXCEPT ![w] = [d \in Deliveries |-> "none"]]
    /\ Lose(Posted(w))
    /\ UNCHANGED <<rowVars, timeouts, taken>>

\* deliver: post; the answer can no longer be written, which is noted in a result
\* nobody looks at.
DeliverInVain(w) ==
    /\ pc[w] = "broken"
    /\ timeouts[w] < StepTimeouts
    /\ \E d \in batch[w] :
          /\ Oldest({d}, batch[w])
          /\ batch' = [batch EXCEPT ![w] = @ \ {d}]
          /\ Lose({d})
          /\ \/ taken' = taken \cup {d} /\ UNCHANGED timeouts
             \/ taken' = taken /\ timeouts' \in {timeouts, [timeouts EXCEPT ![w] = @ + 1]}
    /\ UNCHANGED <<rowVars, pc, answer>>

EndStep(w) ==
    /\ pc' = [pc EXCEPT ![w] = "idle"]
    /\ batch' = [batch EXCEPT ![w] = {}]
    /\ answer' = [answer EXCEPT ![w] = [d \in Deliveries |-> "none"]]
    /\ timeouts' = [timeouts EXCEPT ![w] = 0]

\* Faulty variant: any answer will do.
OutcomeAnyAnswer(a, no) == "delivered"

\* The status an answer leads to, by the number of this attempt.
Outcome(a, no) ==
    CASE a = "taken"                         -> "delivered"
      [] a # "taken" /\ no >= MaxAttempts    -> "dead_letter"
      [] OTHER                               -> IF NextRetry(no) THEN "retrying" ELSE "dead_letter"

\* The commit of the step: all its records become visible together.  A retry is due
\* later, the others never again.
Commit(w) ==
    /\ pc[w] = "posting"
    /\ Posted(w) = batch[w]
    /\ timeouts[w] < StepTimeouts
    /\ status' = [d \in Deliveries |->
          IF d \in batch[w] THEN Outcome(answer[w][d], attempt[d] + 1) ELSE status[d]]
    /\ attempt' = [d \in Deliveries |->
          IF d \in batch[w] THEN attempt[d] + 1 ELSE attempt[d]]
    /\ due' = due \ batch[w]
    /\ EndStep(w)
    /\ UNCHANGED <<born, replays, history>>

Rollback(w) ==
    /\ Lose(Posted(w))
    /\ EndStep(w)
    /\ UNCHANGED <<rowVars, taken>>

\* The whole batch is posted, and there is nothing to commit.
FailToCommit(w) ==
    /\ pc[w] = "broken"
    /\ batch[w] = {}
    /\ timeouts[w] < StepTimeouts
    /\ Rollback(w)

\* The step has used up its time: every further request and statement fails.
OutOfTime(w) ==
    /\ pc[w] # "idle"
    /\ timeouts[w] >= StepTimeouts
    /\ Rollback(w)

\* The process dies or is stopped.
CutShort(w) ==
    /\ pc[w] # "idle"
    /\ timeouts[w] < StepTimeouts
    /\ Rollback(w)

\* next_retry_at has come.
BackoffEnds(d) ==
    /\ status[d] = "retrying"
    /\ d \notin due
    /\ due' = due \cup {d}
    /\ UNCHANGED <<status, attempt, born, replays, stepVars, history>>

----
(* Replay *)

\* An UPDATE guarded by the status; a locked row is never a dead letter.
Replay(d) ==
    /\ status[d] = "dead_letter"
    /\ replays[d] < MaxReplays
    /\ replays' = [replays EXCEPT ![d] = @ + 1]
    /\ status' = [status EXCEPT ![d] = "pending"]
    /\ attempt' = [attempt EXCEPT ![d] = 0]
    /\ due' = due \cup {d}
    /\ posts' = IF d \in lost THEN posts ELSE [posts EXCEPT ![d] = 0]
    /\ UNCHANGED <<born, stepVars, taken, again, lost>>

----
Init ==
    /\ status = [d \in Deliveries |-> "none"]
    /\ attempt = [d \in Deliveries |-> 0]
    /\ due = {}
    /\ born = [d \in Deliveries |-> 0]
    /\ replays = [d \in Deliveries |-> 0]
    /\ pc = [w \in Dispatchers |-> "idle"]
    /\ batch = [w \in Dispatchers |-> {}]
    /\ answer = [w \in Dispatchers |-> [d \in Deliveries |-> "none"]]
    /\ timeouts = [w \in Dispatchers |-> 0]
    /\ taken = {}
    /\ again = {}
    /\ posts = [d \in Deliveries |-> 0]
    /\ lost = {}

Next ==
    \/ \E e \in Events : Enqueue(e)
    \/ \E w \in Dispatchers :
          \/ Claim(w) \/ Deliver(w) \/ LoseLocks(w) \/ DeliverInVain(w)
          \/ Commit(w) \/ FailToCommit(w) \/ OutOfTime(w) \/ CutShort(w)
    \/ \E d \in Deliveries : BackoffEnds(d) \/ Replay(d)

\* A worker loop runs its step again after every error, and time passes.  From some
\* time on no step is cut short, and no transaction broken, but by slowness, which the
\* code does nothing against: the same rows are claimed and posted again.
Fairness ==
    /\ <>[][\A w \in Dispatchers : ~CutShort(w) /\ ~LoseLocks(w)]_vars
    /\ \A w \in Dispatchers :
          /\ WF_vars(Claim(w))
          /\ WF_vars(Deliver(w) \/ DeliverInVain(w) \/ Commit(w) \/ FailToCommit(w))
          /\ WF_vars(OutOfTime(w))
    /\ \A d \in Deliveries : WF_vars(BackoffEnds(d))

Spec == Init /\ [][Next]_vars /\ Fairness

\* The endpoints of a batch do not always use up the time of a step.
SpecInTime == Spec /\ <>[][\A w \in Dispatchers : ~OutOfTime(w)]_vars

----
(* Properties *)

\* Only rows that exist are locked, due or posted.
TypeOK ==
    /\ status \in [Deliveries -> {"none", "pending", "retrying", "delivered", "dead_letter"}]
    /\ attempt \in [Deliveries -> 0..MaxAttempts]
    /\ due \subseteq Deliveries
    /\ born \in [Deliveries -> Nat]
    /\ replays \in [Deliveries -> 0..MaxReplays]
    /\ pc \in [Dispatchers -> {"idle", "posting", "broken"}]
    /\ batch \in [Dispatchers -> SUBSET Deliveries]
    /\ answer \in [Dispatchers -> [Deliveries -> {"none", "taken", "failed"}]]
    /\ timeouts \in [Dispatchers -> 0..StepTimeouts]
    /\ taken \subseteq Deliveries
    /\ again \subseteq taken
    /\ posts \in [Deliveries -> Nat]
    /\ lost \subseteq Deliveries

\* However many dispatchers run (TestConcurrentDispatchersNeverDoubleDeliver), an
\* endpoint is asked again after it has taken a delivery, or more than 9 times for a
\* turn, only if an attempt was rolled back; and a dead letter had all its attempts.
RepeatNeedsRollback ==
    \A d \in Deliveries \ lost :
        /\ d \notin again
        /\ posts[d] <= MaxAttempts
        /\ status[d] = "dead_letter" => posts[d] = MaxAttempts /\ d \notin taken

\* At least once, dead after the last attempt, manual replay only (docs/api.md); what
\* a dispatcher whose transaction is gone has yet to post is loose.
Promise ==
    INSTANCE DeliveryPromise WITH
        Tries <- MaxAttempts,
        status <- [d \in Deliveries |->
            CASE status[d] \in {"pending", "retrying"} -> "waiting"
              [] status[d] = "dead_letter"             -> "dead"
              [] OTHER                                 -> status[d]],
        tries <- attempt,
        loose <- [w \in Dispatchers |-> IF pc[w] = "broken" THEN batch[w] ELSE {}]

DeliveriesKeepPromise == Promise!Spec

\* Every queued delivery is taken or becomes a dead letter, whatever the endpoints
\* of the other deliveries do.
DeliveriesEnd ==
    \A d \in Deliveries :
        (status[d] # "none") ~> (status[d] \in {"delivered", "dead_letter"})
=============================================================================
