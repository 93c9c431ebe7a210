--------------------------- MODULE WebhooksProofs ---------------------------
(***************************************************************************)
(* For any events, endpoints and dispatchers, and any batch size, backoff  *)
(* and time limit: the types of Webhooks, that an endpoint is asked too    *)
(* often only after a rollback, and that the dispatcher implements         *)
(* DeliveryPromise.                                                        *)
(***************************************************************************)
EXTENDS Webhooks, FiniteSetTheorems, TLAPS

----
(* The inductive invariant *)

Waiting == {"pending", "retrying"}

Answered(d) == \E w \in Dispatchers : answer[w][d] # "none"

\* A row is locked by one dispatcher, while it waits; only who has locked it writes.
BatchInv ==
    \A w \in Dispatchers :
        /\ pc[w] = "idle" => batch[w] = {}
        /\ \A d \in Deliveries : answer[w][d] # "none" => pc[w] = "posting" /\ d \in batch[w]
        /\ \A d \in batch[w] : status[d] # "none"
        /\ pc[w] = "posting" => \A d \in batch[w] : status[d] \in Waiting
        /\ \A v \in Dispatchers :
              v # w /\ pc[v] = "posting" /\ pc[w] = "posting" => batch[v] \cap batch[w] = {}

\* What a status says about the attempts, and about the endpoint.
RowInv ==
    \A d \in Deliveries :
        /\ status[d] = "none" => attempt[d] = 0 /\ posts[d] = 0 /\ d \notin taken
        /\ status[d] \in Waiting => attempt[d] < MaxAttempts
        /\ status[d] = "dead_letter" => attempt[d] = MaxAttempts
        /\ status[d] = "delivered" => d \in taken

\* An answer an open step has written was given.
AnswerInv ==
    \A w \in Dispatchers : \A d \in Deliveries : answer[w][d] = "taken" => d \in taken

\* While no attempt of a delivery is rolled back, its row and the open step together
\* account for all of them.
CountInv ==
    \A d \in Deliveries \ lost :
        /\ d \notin again
        /\ d \in taken => \/ status[d] = "delivered"
                          \/ \E w \in Dispatchers : answer[w][d] = "taken"
        /\ Answered(d) => posts[d] = attempt[d] + 1
        /\ ~Answered(d) => posts[d] = attempt[d]

IInv == TypeOK /\ BatchInv /\ RowInv /\ AnswerInv /\ CountInv

LEMMA AttemptsPositive == MaxAttempts \in Nat /\ MaxAttempts > 0
BY SizesAreNatural DEF MaxAttempts

LEMMA OutcomeOf ==
    ASSUME NEW a, NEW no \in Nat, no > 0
    PROVE  /\ a = "taken" => Outcome(a, no) = "delivered"
           /\ a # "taken" /\ no >= MaxAttempts => Outcome(a, no) = "dead_letter"
           /\ a # "taken" /\ no < MaxAttempts => Outcome(a, no) = "retrying"
<1>1. no < MaxAttempts => no \in 1..Backoff
  BY SizesAreNatural DEF MaxAttempts
<1>2. CASE a = "taken"
  BY <1>2 DEF Outcome
<1>3. CASE a # "taken" /\ no >= MaxAttempts
  BY <1>3, AttemptsPositive DEF Outcome
<1>4. CASE a # "taken" /\ no < MaxAttempts
  <2>1. ~(no >= MaxAttempts)
    BY <1>4, AttemptsPositive
  <2> QED
    BY <1>1, <1>4, <2>1 DEF Outcome, NextRetry
<1> QED
  BY <1>2, <1>3, <1>4, AttemptsPositive

LEMMA QueuedCount == Cardinality({f \in Events : Queued(f)}) \in Nat
<1>1. {f \in Events : Queued(f)} \subseteq Events
  OBVIOUS
<1> QED
  BY <1>1, DeliveriesFinite, FS_Subset, FS_CardinalityType

----
(* The invariant holds *)

LEMMA InvInit == Init => IInv
<1> SUFFICES ASSUME Init PROVE IInv
  OBVIOUS
<1>1. TypeOK
  BY AttemptsPositive, SizesAreNatural DEF Init, TypeOK
<1>2. BatchInv
  BY DEF Init, BatchInv
<1>3. RowInv
  BY DEF Init, RowInv, Waiting
<1>4. AnswerInv /\ CountInv
  BY DEF Init, AnswerInv, CountInv, Answered
<1> QED
  BY <1>1, <1>2, <1>3, <1>4 DEF IInv

LEMMA EnqueueStep ==
    ASSUME IInv, NEW e \in Events, Enqueue(e)
    PROVE  IInv'
<1> DEFINE new == {d \in Deliveries : d[1] = e}
<1>1. \A d \in new : status[d] = "none"
  BY DEF Enqueue, Queued, IInv, TypeOK
<1> USE DEF IInv, stepVars, history
<1>2. TypeOK'
  BY QueuedCount DEF TypeOK, Enqueue
<1>3. /\ \A d \in Deliveries \ new : status'[d] = status[d]
      /\ \A d \in new : status'[d] = "pending"
      /\ UNCHANGED <<attempt, posts, taken, again, lost, batch, answer, pc>>
  BY DEF Enqueue, TypeOK
<1> HIDE DEF new
<1>4. BatchInv'
  BY <1>3 DEF BatchInv, Waiting, TypeOK
<1>5. RowInv'
  BY <1>1, <1>3, AttemptsPositive DEF RowInv, Waiting, TypeOK
<1>6. AnswerInv' /\ CountInv'
  BY <1>1, <1>3 DEF AnswerInv, CountInv, Answered
<1> QED
  BY <1>2, <1>4, <1>5, <1>6

LEMMA ClaimStep ==
    ASSUME IInv, NEW w \in Dispatchers, Claim(w)
    PROVE  IInv'
<1>1. PICK B \in SUBSET Claimable : batch' = [batch EXCEPT ![w] = B]
  BY DEF Claim
<1>2. B \subseteq Deliveries /\ \A d \in B : d \notin Locked /\ status[d] \in Waiting
  BY <1>1 DEF Claimable, IInv, TypeOK, Waiting
<1>3. /\ pc' = [pc EXCEPT ![w] = "posting"]
      /\ answer' = [answer EXCEPT ![w] = [d \in Deliveries |-> "none"]]
      /\ timeouts' = [timeouts EXCEPT ![w] = 0]
      /\ UNCHANGED <<status, attempt, due, born, replays, taken, again, posts, lost>>
      /\ pc[w] = "idle"
  BY DEF Claim, rowVars, history
<1>4. \A v \in Dispatchers : pc[v] = "posting" => batch[v] \cap B = {}
  BY <1>2 DEF Locked
<1>5. answer' = answer
  BY <1>3 DEF IInv, TypeOK, BatchInv
<1> USE DEF IInv
<1>6. TypeOK'
  BY <1>1, <1>2, <1>3, SizesAreNatural DEF TypeOK
<1>7. BatchInv'
  <2>1. /\ pc'[w] = "posting" /\ batch'[w] = B
        /\ \A v \in Dispatchers \ {w} : pc'[v] = pc[v] /\ batch'[v] = batch[v]
        /\ \A d \in B : status'[d] \in Waiting /\ status'[d] # "none"
    BY <1>1, <1>2, <1>3 DEF TypeOK, Waiting
  <2>2. \A d \in Deliveries : answer[w][d] = "none"
    BY <1>3 DEF BatchInv
  <2> QED
    BY <1>3, <1>4, <1>5, <2>1, <2>2 DEF BatchInv
<1>8. RowInv' /\ AnswerInv' /\ CountInv'
  BY <1>3, <1>5 DEF RowInv, AnswerInv, CountInv, Answered
<1> QED
  BY <1>6, <1>7, <1>8

LEMMA DeliverStep ==
    ASSUME IInv, NEW w \in Dispatchers, Deliver(w)
    PROVE  IInv'
<1>1. PICK d \in batch[w] :
        /\ answer[w][d] = "none"
        /\ Count(d)
        /\ Took(w, d) \/ Refused(w, d) \/ TimedOut(w, d)
  BY DEF Deliver, Posted
<1>2. PICK a \in {"taken", "failed"} :
        /\ answer' = [answer EXCEPT ![w][d] = a]
        /\ taken' = taken \cup (IF a = "taken" THEN {d} ELSE {})
        /\ again' = again \cup (IF a = "taken" THEN ({d} \cap taken) \ lost ELSE {})
  BY <1>1 DEF Took, Refused, TimedOut
<1>3. timeouts' \in [Dispatchers -> 0..StepTimeouts]
  BY <1>1, SizesAreNatural DEF IInv, TypeOK, Took, Refused, TimedOut, Deliver
<1>4. UNCHANGED <<status, attempt, due, born, replays, pc, batch, lost>> /\ pc[w] = "posting"
  BY DEF Deliver, rowVars
<1>5. d \in Deliveries /\ status[d] \in Waiting /\ ~Answered(d)
  <2>1. d \in Deliveries /\ status[d] \in Waiting
    BY <1>4 DEF IInv, TypeOK, BatchInv
  <2>2. \A v \in Dispatchers : answer[v][d] # "none" => v = w
    BY <1>4, <2>1 DEF IInv, BatchInv
  <2> QED
    BY <1>1, <2>1, <2>2 DEF Answered
<1>6. posts' = IF d \in lost THEN posts ELSE [posts EXCEPT ![d] = @ + 1]
  BY <1>1 DEF Count
<1> USE DEF IInv
<1>7. TypeOK'
  <2>1. answer' \in [Dispatchers -> [Deliveries -> {"none", "taken", "failed"}]]
    BY <1>2, <1>5 DEF TypeOK
  <2>2. posts' \in [Deliveries -> Nat]
    BY <1>5, <1>6 DEF TypeOK
  <2>3. taken' \subseteq Deliveries /\ again' \subseteq taken'
    BY <1>2, <1>5 DEF TypeOK
  <2> QED
    BY <1>3, <1>4, <2>1, <2>2, <2>3 DEF TypeOK
<1>8. /\ \A v \in Dispatchers, f \in Deliveries :
            (v # w \/ f # d) => answer'[v][f] = answer[v][f]
      /\ answer'[w][d] = a
  BY <1>2, <1>5 DEF TypeOK
<1>9. BatchInv'
  BY <1>1, <1>4, <1>8 DEF BatchInv
<1>10. RowInv'
  BY <1>2, <1>4, <1>5, <1>6 DEF RowInv, TypeOK, Waiting
<1>11. AnswerInv'
  BY <1>2, <1>8 DEF AnswerInv
<1>12. Answered(d)' /\ \A f \in Deliveries \ {d} : Answered(f)' <=> Answered(f)
  BY <1>2, <1>8 DEF Answered
<1>13. d \notin lost => d \notin taken
  BY <1>5 DEF CountInv, Answered, Waiting
<1>14. ASSUME NEW f \in Deliveries \ lost PROVE
          /\ f \notin again'
          /\ f \in taken' => \/ status[f] = "delivered"
                             \/ \E v \in Dispatchers : answer'[v][f] = "taken"
  <2>1. CASE f = d
    BY <1>2, <1>8, <1>13, <2>1 DEF CountInv
  <2>2. CASE f # d
    BY <1>2, <1>8, <2>2 DEF CountInv
  <2> QED
    BY <2>1, <2>2
<1>15. ASSUME NEW f \in Deliveries \ lost PROVE
          /\ Answered(f)' => posts'[f] = attempt[f] + 1
          /\ ~Answered(f)' => posts'[f] = attempt[f]
  <2>1. CASE f = d
    BY <1>5, <1>6, <1>12, <2>1 DEF CountInv, TypeOK
  <2>2. CASE f # d
    BY <1>6, <1>12, <2>2 DEF CountInv, TypeOK
  <2> QED
    BY <2>1, <2>2
<1>16. CountInv'
  BY <1>4, <1>14, <1>15 DEF CountInv
<1> QED
  BY <1>7, <1>9, <1>10, <1>11, <1>16

\* The step of w is over: it holds nothing, and the others are as they were.
LEMMA EndedStep ==
    ASSUME TypeOK, BatchInv, NEW w \in Dispatchers, EndStep(w)
    PROVE  /\ pc' \in [Dispatchers -> {"idle", "posting", "broken"}]
           /\ batch' \in [Dispatchers -> SUBSET Deliveries]
           /\ answer' \in [Dispatchers -> [Deliveries -> {"none", "taken", "failed"}]]
           /\ timeouts' \in [Dispatchers -> 0..StepTimeouts]
           /\ batch'[w] = {} /\ \A d \in Deliveries : answer'[w][d] = "none"
           /\ \A v \in Dispatchers \ {w} :
                 batch'[v] = batch[v] /\ answer'[v] = answer[v] /\ pc'[v] = pc[v]
           /\ \A d \in Deliveries \ batch[w] :
                 \A v \in Dispatchers : answer'[v][d] = answer[v][d]
           /\ pc'[w] = "idle"
           /\ pc[w] = "posting" => \A d \in batch[w] : ~Answered(d)'
<1>1. /\ pc' = [pc EXCEPT ![w] = "idle"]
      /\ batch' = [batch EXCEPT ![w] = {}]
      /\ answer' = [answer EXCEPT ![w] = [d \in Deliveries |-> "none"]]
      /\ timeouts' = [timeouts EXCEPT ![w] = 0]
  BY DEF EndStep
<1>2. /\ \A d \in Deliveries \ batch[w] : answer[w][d] = "none"
      /\ pc[w] = "posting" =>
            \A d \in batch[w], v \in Dispatchers \ {w} : d \in Deliveries /\ answer[v][d] = "none"
  BY DEF BatchInv, TypeOK
<1>3. pc[w] = "posting" => \A d \in batch[w] : ~Answered(d)'
  BY <1>1, <1>2 DEF Answered, TypeOK
<1> QED
  BY <1>1, <1>2, <1>3, SizesAreNatural DEF TypeOK

LEMMA CommitStep ==
    ASSUME IInv, NEW w \in Dispatchers, Commit(w)
    PROVE  IInv'
<1>1. /\ \A d \in batch[w] :
            /\ d \in Deliveries
            /\ answer[w][d] \in {"taken", "failed"}
            /\ status[d] \in Waiting
            /\ attempt[d] \in Nat /\ attempt[d] < MaxAttempts
            /\ status'[d] = Outcome(answer[w][d], attempt[d] + 1)
            /\ attempt'[d] = attempt[d] + 1
      /\ \A d \in Deliveries \ batch[w] : status'[d] = status[d] /\ attempt'[d] = attempt[d]
      /\ DOMAIN status' = Deliveries /\ DOMAIN attempt' = Deliveries
      /\ status' = [d \in Deliveries |-> status'[d]]
      /\ attempt' = [d \in Deliveries |-> attempt'[d]]
  BY AttemptsPositive DEF Commit, Posted, IInv, TypeOK, BatchInv, RowInv
<1>2. pc[w] = "posting" /\ due' = due \ batch[w] /\ UNCHANGED <<born, replays, taken, again, posts, lost>> /\ EndStep(w)
  BY DEF Commit, history
<1>3. \A d \in batch[w] :
         /\ answer[w][d] = "taken" => status'[d] = "delivered"
         /\ answer[w][d] = "failed" /\ attempt'[d] = MaxAttempts => status'[d] = "dead_letter"
         /\ answer[w][d] = "failed" /\ attempt'[d] < MaxAttempts => status'[d] = "retrying"
         /\ attempt'[d] <= MaxAttempts
  <2> SUFFICES ASSUME NEW d \in batch[w]
               PROVE  /\ answer[w][d] = "taken" => status'[d] = "delivered"
                      /\ answer[w][d] = "failed" /\ attempt'[d] = MaxAttempts => status'[d] = "dead_letter"
                      /\ answer[w][d] = "failed" /\ attempt'[d] < MaxAttempts => status'[d] = "retrying"
                      /\ attempt'[d] <= MaxAttempts
    OBVIOUS
  <2>1. attempt[d] + 1 \in Nat /\ attempt[d] + 1 > 0 /\ attempt[d] + 1 <= MaxAttempts
    BY <1>1, AttemptsPositive
  <2>2. /\ answer[w][d] = "taken" => Outcome(answer[w][d], attempt[d] + 1) = "delivered"
        /\ answer[w][d] # "taken" /\ attempt[d] + 1 >= MaxAttempts =>
              Outcome(answer[w][d], attempt[d] + 1) = "dead_letter"
        /\ answer[w][d] # "taken" /\ attempt[d] + 1 < MaxAttempts =>
              Outcome(answer[w][d], attempt[d] + 1) = "retrying"
    BY <2>1, OutcomeOf
  <2> QED
    BY <1>1, <2>1, <2>2, AttemptsPositive
<1>4. /\ pc' \in [Dispatchers -> {"idle", "posting", "broken"}]
      /\ batch' \in [Dispatchers -> SUBSET Deliveries]
      /\ answer' \in [Dispatchers -> [Deliveries -> {"none", "taken", "failed"}]]
      /\ timeouts' \in [Dispatchers -> 0..StepTimeouts]
      /\ batch'[w] = {} /\ \A d \in Deliveries : answer'[w][d] = "none"
      /\ \A v \in Dispatchers \ {w} :
            batch'[v] = batch[v] /\ answer'[v] = answer[v] /\ pc'[v] = pc[v]
      /\ \A d \in Deliveries \ batch[w] : \A v \in Dispatchers : answer'[v][d] = answer[v][d]
      /\ pc'[w] = "idle"
      /\ \A d \in batch[w] : ~Answered(d)'
  BY <1>2, EndedStep DEF IInv
<1> USE DEF IInv
<1>5. TypeOK'
  <2>1. \A d \in Deliveries : status'[d] \in {"none", "pending", "retrying", "delivered", "dead_letter"}
    <3>1. ASSUME NEW d \in batch[w]
          PROVE  status'[d] \in {"retrying", "delivered", "dead_letter"}
      <4>1. attempt'[d] = MaxAttempts \/ attempt'[d] < MaxAttempts
        BY <1>1, AttemptsPositive
      <4> QED
        BY <1>1, <1>3, <4>1
    <3> QED
      BY <1>1, <3>1 DEF TypeOK
  <2>2. \A d \in Deliveries : attempt'[d] \in 0..MaxAttempts
    BY <1>1, <1>3, AttemptsPositive DEF TypeOK
  <2>3. due' \subseteq Deliveries
    BY <1>2 DEF TypeOK
  <2> QED
    BY <1>1, <1>2, <1>4, <2>1, <2>2, <2>3 DEF TypeOK
<1>6. BatchInv'
  <2>1. \A v \in Dispatchers \ {w} :
           pc[v] = "posting" => \A d \in batch[v] : d \in Deliveries \ batch[w]
    BY <1>2 DEF BatchInv, TypeOK
  <2>2. ASSUME NEW v \in Dispatchers
        PROVE  /\ pc'[v] = "idle" => batch'[v] = {}
               /\ \A d \in Deliveries :
                     answer'[v][d] # "none" => pc'[v] = "posting" /\ d \in batch'[v]
               /\ \A d \in batch'[v] : status'[d] # "none"
               /\ pc'[v] = "posting" => \A d \in batch'[v] : status'[d] \in Waiting
               /\ \A u \in Dispatchers :
                     u # v /\ pc'[u] = "posting" /\ pc'[v] = "posting" =>
                        batch'[u] \cap batch'[v] = {}
    <3>1. CASE v = w
      BY <1>4, <3>1
    <3>2. CASE v # w
      <4>1. batch'[v] = batch[v] /\ answer'[v] = answer[v] /\ pc'[v] = pc[v]
        BY <1>4, <3>2
      <4>2. \A u \in Dispatchers :
               batch'[u] \subseteq batch[u] /\ (pc'[u] = "posting" => pc[u] = "posting")
        BY <1>4
      <4>3. \A u \in Dispatchers :
               u # v /\ pc[u] = "posting" /\ pc[v] = "posting" => batch[u] \cap batch[v] = {}
        BY DEF BatchInv
      <4>4. pc[v] = "posting" => \A d \in batch[v] : status'[d] \in Waiting
        BY <1>1, <2>1, <3>2 DEF BatchInv
      <4>5. \A d \in batch[v] : status'[d] # "none"
        <5>1. \A d \in batch[w] : status'[d] # "none"
          BY <1>1, <1>3, AttemptsPositive
        <5> QED
          BY <1>1, <5>1 DEF BatchInv, TypeOK
      <4> QED
        BY <4>1, <4>2, <4>3, <4>4, <4>5 DEF BatchInv
    <3> QED
      BY <3>1, <3>2
  <2> QED
    BY <2>2 DEF BatchInv
<1>7. RowInv'
  <2>1. ASSUME NEW d \in batch[w]
        PROVE  /\ status'[d] # "none"
               /\ status'[d] \in Waiting => attempt'[d] < MaxAttempts
               /\ status'[d] = "dead_letter" => attempt'[d] = MaxAttempts
               /\ status'[d] = "delivered" => d \in taken
    <3>1. attempt'[d] = MaxAttempts \/ attempt'[d] < MaxAttempts
      BY <1>1, <1>3, AttemptsPositive
    <3>2. answer[w][d] = "taken" => d \in taken
      BY <1>1 DEF AnswerInv
    <3> QED
      BY <1>1, <1>3, <3>1, <3>2 DEF Waiting
  <2> QED
    BY <1>1, <1>2, <2>1 DEF RowInv
<1>8. AnswerInv'
  BY <1>2, <1>4 DEF AnswerInv
<1>9. CountInv'
  <2>1. ASSUME NEW d \in batch[w], d \notin lost
        PROVE  /\ d \in taken => status'[d] = "delivered"
               /\ posts[d] = attempt'[d]
    <3>1. Answered(d) /\ \A v \in Dispatchers : v # w => answer[v][d] = "none"
      BY <1>1 DEF Answered, BatchInv
    <3> QED
      BY <1>1, <1>3, <2>1, <3>1 DEF CountInv, Waiting
  <2>2. \A d \in Deliveries \ batch[w] : Answered(d)' <=> Answered(d)
    BY <1>4 DEF Answered
  <2>3. \A d \in Deliveries \ batch[w] : \A v \in Dispatchers :
           answer[v][d] = "taken" <=> answer'[v][d] = "taken"
    BY <1>4
  <2> QED
    BY <1>1, <1>2, <1>4, <2>1, <2>2, <2>3 DEF CountInv
<1> QED
  BY <1>5, <1>6, <1>7, <1>8, <1>9

\* Nothing else is counted of deliveries whose attempts are not written down.
LEMMA LostStep ==
    ASSUME TypeOK, NEW D \in SUBSET Deliveries, Lose(D)
    PROVE  /\ lost' = lost \cup D
           /\ lost' \subseteq Deliveries
           /\ posts' \in [Deliveries -> Nat]
           /\ again' \subseteq again
           /\ \A d \in Deliveries \ lost' : d \notin lost /\ d \notin D /\ posts'[d] = posts[d]
           /\ \A d \in Deliveries : posts[d] = 0 => posts'[d] = 0
BY DEF Lose, TypeOK

LEMMA RollbackStep ==
    ASSUME IInv, NEW w \in Dispatchers, Rollback(w)
    PROVE  IInv'
<1>0. Posted(w) \in SUBSET Deliveries
  BY DEF Posted, IInv, TypeOK
<1>1. /\ lost' = lost \cup Posted(w)
      /\ lost' \subseteq Deliveries
      /\ posts' \in [Deliveries -> Nat]
      /\ again' \subseteq again
      /\ \A d \in Deliveries \ lost' : d \notin lost /\ posts'[d] = posts[d]
      /\ \A d \in Deliveries : posts[d] = 0 => posts'[d] = 0
      /\ EndStep(w)
      /\ UNCHANGED <<status, attempt, due, born, replays, taken>>
  BY <1>0, LostStep DEF Rollback, rowVars, IInv
<1>2. /\ pc' \in [Dispatchers -> {"idle", "posting", "broken"}]
      /\ batch' \in [Dispatchers -> SUBSET Deliveries]
      /\ answer' \in [Dispatchers -> [Deliveries -> {"none", "taken", "failed"}]]
      /\ timeouts' \in [Dispatchers -> 0..StepTimeouts]
      /\ batch'[w] = {} /\ \A d \in Deliveries : answer'[w][d] = "none"
      /\ \A v \in Dispatchers \ {w} :
            batch'[v] = batch[v] /\ answer'[v] = answer[v] /\ pc'[v] = pc[v]
      /\ \A d \in Deliveries \ batch[w] : \A v \in Dispatchers : answer'[v][d] = answer[v][d]
      /\ pc'[w] = "idle"
  BY <1>1, EndedStep DEF IInv
<1> USE DEF IInv
<1>3. TypeOK'
  BY <1>1, <1>2 DEF TypeOK, Posted
<1>4. BatchInv'
  <2>1. ASSUME NEW v \in Dispatchers
        PROVE  /\ pc'[v] = "idle" => batch'[v] = {}
               /\ \A d \in Deliveries :
                     answer'[v][d] # "none" => pc'[v] = "posting" /\ d \in batch'[v]
               /\ \A d \in batch'[v] : status'[d] # "none"
               /\ pc'[v] = "posting" => \A d \in batch'[v] : status'[d] \in Waiting
               /\ \A u \in Dispatchers :
                     u # v /\ pc'[u] = "posting" /\ pc'[v] = "posting" =>
                        batch'[u] \cap batch'[v] = {}
    <3>1. CASE v = w
      BY <1>2, <3>1
    <3>2. CASE v # w
      <4>1. batch'[v] = batch[v] /\ answer'[v] = answer[v] /\ pc'[v] = pc[v]
        BY <1>2, <3>2
      <4>2. \A u \in Dispatchers :
               batch'[u] \subseteq batch[u] /\ (pc'[u] = "posting" => pc[u] = "posting")
        BY <1>2
      <4>3. \A u \in Dispatchers :
               u # v /\ pc[u] = "posting" /\ pc[v] = "posting" => batch[u] \cap batch[v] = {}
        BY DEF BatchInv
      <4>4. pc[v] = "posting" => \A d \in batch[v] : status'[d] \in Waiting
        BY <1>1 DEF BatchInv
      <4>5. \A d \in batch[v] : status'[d] # "none"
        BY <1>1 DEF BatchInv
      <4> QED
        BY <4>1, <4>2, <4>3, <4>4, <4>5 DEF BatchInv
    <3> QED
      BY <3>1, <3>2
  <2> QED
    BY <2>1 DEF BatchInv
<1>6. RowInv' /\ AnswerInv'
  BY <1>1, <1>2 DEF RowInv, AnswerInv
<1>5. CountInv'
  <2>1. ASSUME NEW d \in Deliveries \ lost'
        PROVE  \A v \in Dispatchers : answer'[v][d] = answer[v][d]
    <3>1. answer[w][d] = "none"
      BY <1>1, <2>1 DEF Posted, BatchInv
    <3> QED
      BY <1>2, <3>1
  <2> QED
    BY <1>1, <2>1 DEF CountInv, Answered
<1> QED
  BY <1>3, <1>4, <1>5, <1>6

LEMMA LoseLocksStep ==
    ASSUME IInv, NEW w \in Dispatchers, LoseLocks(w)
    PROVE  IInv'
<1>0. Posted(w) \in SUBSET Deliveries
  BY DEF Posted, IInv, TypeOK
<1>1. /\ lost' = lost \cup Posted(w)
      /\ lost' \subseteq Deliveries
      /\ posts' \in [Deliveries -> Nat]
      /\ again' \subseteq again
      /\ \A d \in Deliveries \ lost' : d \notin lost /\ posts'[d] = posts[d]
      /\ \A d \in Deliveries : posts[d] = 0 => posts'[d] = 0
      /\ UNCHANGED <<status, attempt, due, born, replays, timeouts, taken>>
  BY <1>0, LostStep DEF LoseLocks, rowVars, IInv
<1> USE DEF IInv
<1>2. /\ pc' = [pc EXCEPT ![w] = "broken"]
      /\ pc[w] = "posting"
      /\ batch' = [batch EXCEPT ![w] = @ \ Posted(w)]
      /\ answer' = [answer EXCEPT ![w] = [d \in Deliveries |-> "none"]]
  BY DEF LoseLocks
<1>3. /\ pc'[w] = "broken" /\ \A d \in Deliveries : answer'[w][d] = "none"
      /\ \A v \in Dispatchers \ {w} :
            batch'[v] = batch[v] /\ answer'[v] = answer[v] /\ pc'[v] = pc[v]
      /\ batch'[w] \subseteq batch[w]
  BY <1>2 DEF TypeOK
<1>4. TypeOK'
  BY <1>1, <1>2 DEF TypeOK
<1>5. BatchInv'
  BY <1>1, <1>3 DEF BatchInv
<1>6. RowInv' /\ AnswerInv'
  BY <1>1, <1>3 DEF RowInv, AnswerInv
<1>7. CountInv'
  <2>1. ASSUME NEW d \in Deliveries \ lost'
        PROVE  \A v \in Dispatchers : answer'[v][d] = answer[v][d]
    <3>1. answer[w][d] = "none"
      BY <1>1, <2>1 DEF Posted, BatchInv
    <3> QED
      BY <1>3, <2>1, <3>1
  <2> QED
    BY <1>1, <2>1 DEF CountInv, Answered
<1> QED
  BY <1>4, <1>5, <1>6, <1>7

LEMMA DeliverInVainStep ==
    ASSUME IInv, NEW w \in Dispatchers, DeliverInVain(w)
    PROVE  IInv'
<1> USE DEF IInv
<1>1. PICK d \in batch[w] :
        /\ batch' = [batch EXCEPT ![w] = @ \ {d}]
        /\ Lose({d})
        /\ taken \subseteq taken' /\ taken' \subseteq taken \cup {d}
  BY DEF DeliverInVain
<1>2. /\ pc[w] = "broken"
      /\ timeouts' \in [Dispatchers -> 0..StepTimeouts]
      /\ UNCHANGED <<status, attempt, due, born, replays, pc, answer>>
  BY SizesAreNatural DEF DeliverInVain, rowVars, TypeOK
<1>3. d \in Deliveries /\ {d} \in SUBSET Deliveries
  BY <1>1 DEF TypeOK
<1>4. /\ lost' = lost \cup {d}
      /\ lost' \subseteq Deliveries
      /\ posts' \in [Deliveries -> Nat]
      /\ again' \subseteq again
      /\ \A f \in Deliveries \ lost' : f \notin lost /\ f # d /\ posts'[f] = posts[f]
      /\ \A f \in Deliveries : posts[f] = 0 => posts'[f] = 0
  BY <1>1, <1>3, LostStep
<1>5. TypeOK'
  BY <1>1, <1>2, <1>3, <1>4 DEF TypeOK
<1>6. BatchInv'
  BY <1>1, <1>2 DEF BatchInv, TypeOK
<1>7. RowInv' /\ AnswerInv'
  BY <1>1, <1>2, <1>3, <1>4 DEF RowInv, AnswerInv, BatchInv
<1>8. CountInv'
  BY <1>1, <1>2, <1>4 DEF CountInv, Answered
<1> QED
  BY <1>5, <1>6, <1>7, <1>8

LEMMA BackoffStep ==
    ASSUME IInv, NEW d \in Deliveries, BackoffEnds(d)
    PROVE  IInv'
BY DEF IInv, BackoffEnds, stepVars, history, TypeOK, BatchInv, RowInv, AnswerInv, CountInv,
       Answered, MaxAttempts

LEMMA ReplayStep ==
    ASSUME IInv, NEW d \in Deliveries, Replay(d)
    PROVE  IInv'
<1>1. /\ status[d] = "dead_letter"
      /\ status' = [status EXCEPT ![d] = "pending"]
      /\ attempt' = [attempt EXCEPT ![d] = 0]
      /\ posts' = IF d \in lost THEN posts ELSE [posts EXCEPT ![d] = 0]
      /\ UNCHANGED <<born, pc, batch, answer, timeouts, taken, again, lost>>
  BY DEF Replay, stepVars
<1> USE DEF IInv
<1>2. TypeOK'
  BY <1>1, AttemptsPositive, SizesAreNatural DEF TypeOK, Replay
<1>3. \A w \in Dispatchers : answer[w][d] = "none"
  BY <1>1 DEF BatchInv, Waiting
<1>4. BatchInv'
  BY <1>1, <1>3 DEF BatchInv, Waiting, TypeOK
<1>5. RowInv' /\ AnswerInv'
  BY <1>1, AttemptsPositive DEF RowInv, AnswerInv, Waiting, TypeOK
<1>6. CountInv'
  <2>1. d \notin lost => d \notin taken
    BY <1>1, <1>3 DEF CountInv
  <2>2. ~Answered(d)
    BY <1>3 DEF Answered
  <2> QED
    BY <1>1, <2>1, <2>2 DEF CountInv, Answered, TypeOK
<1> QED
  BY <1>2, <1>4, <1>5, <1>6

LEMMA InvStep == IInv /\ [Next]_vars => IInv'
<1> SUFFICES ASSUME IInv, [Next]_vars PROVE IInv'
  OBVIOUS
<1>1. ASSUME NEW e \in Events, Enqueue(e) PROVE IInv'
  BY <1>1, EnqueueStep
<1>2. ASSUME NEW w \in Dispatchers, Claim(w) PROVE IInv'
  BY <1>2, ClaimStep
<1>3. ASSUME NEW w \in Dispatchers, Deliver(w) PROVE IInv'
  BY <1>3, DeliverStep
<1>4. ASSUME NEW w \in Dispatchers, Commit(w) PROVE IInv'
  BY <1>4, CommitStep
<1>5. ASSUME NEW w \in Dispatchers, FailToCommit(w) \/ OutOfTime(w) \/ CutShort(w) PROVE IInv'
  BY <1>5, RollbackStep DEF FailToCommit, OutOfTime, CutShort
<1>6. ASSUME NEW d \in Deliveries, BackoffEnds(d) PROVE IInv'
  BY <1>6, BackoffStep
<1>7. ASSUME NEW d \in Deliveries, Replay(d) PROVE IInv'
  BY <1>7, ReplayStep
<1>8. ASSUME NEW w \in Dispatchers, LoseLocks(w) \/ DeliverInVain(w) PROVE IInv'
  BY <1>8, LoseLocksStep, DeliverInVainStep
<1>9. CASE UNCHANGED vars
  BY <1>9 DEF vars, rowVars, stepVars, history, IInv, TypeOK, BatchInv, RowInv, AnswerInv,
              CountInv, Answered
<1> QED
  BY <1>1, <1>2, <1>3, <1>4, <1>5, <1>6, <1>7, <1>8, <1>9 DEF Next

LEMMA Invariant == Spec => []IInv
<1>1. Init /\ [][Next]_vars => []IInv
  BY InvInit, InvStep, PTL
<1> QED
  BY <1>1, PTL DEF Spec

----
(* The theorems *)

\* The types of every variable, and that nothing is due, locked or lost but deliveries.
THEOREM TypeCorrect == Spec => []TypeOK
<1>1. IInv => TypeOK
  BY DEF IInv
<1> QED
  BY <1>1, Invariant, PTL

\* An endpoint is asked again after it took a delivery, or too often, only if an
\* attempt was rolled back; a dead letter had all its attempts.
THEOREM RepeatsAreRollbacks == Spec => []RepeatNeedsRollback
<1>1. IInv => RepeatNeedsRollback
  <2> SUFFICES ASSUME IInv, NEW d \in Deliveries, d \notin lost
               PROVE  /\ d \notin again
                      /\ posts[d] <= MaxAttempts
                      /\ status[d] = "dead_letter" => posts[d] = MaxAttempts /\ d \notin taken
    BY DEF RepeatNeedsRollback
  <2>1. attempt[d] \in 0..MaxAttempts /\ posts[d] \in Nat
    BY DEF IInv, TypeOK
  <2>2. Answered(d) => status[d] \in Waiting /\ attempt[d] < MaxAttempts
    BY DEF Answered, IInv, BatchInv, RowInv
  <2>3. CASE Answered(d)
    BY <2>1, <2>2, <2>3, AttemptsPositive DEF IInv, CountInv, Waiting
  <2>4. CASE ~Answered(d)
    BY <2>1, <2>4, AttemptsPositive DEF IInv, CountInv, RowInv, Answered
  <2> QED
    BY <2>3, <2>4
<1> QED
  BY <1>1, Invariant, PTL

----
(* The dispatcher implements DeliveryPromise *)

Shown == [d \in Deliveries |->
            CASE status[d] \in {"pending", "retrying"} -> "waiting"
              [] status[d] = "dead_letter"             -> "dead"
              [] OTHER                                 -> status[d]]

LEMMA ShownValue ==
    ASSUME NEW d \in Deliveries
    PROVE  /\ status[d] \in Waiting => Shown[d] = "waiting"
           /\ status[d] = "dead_letter" => Shown[d] = "dead"
           /\ status[d] \notin Waiting /\ status[d] # "dead_letter" => Shown[d] = status[d]
BY DEF Shown, Waiting

LEMMA ShownValueNext ==
    ASSUME NEW d \in Deliveries
    PROVE  /\ status'[d] \in Waiting => Shown'[d] = "waiting"
           /\ status'[d] = "dead_letter" => Shown'[d] = "dead"
           /\ status'[d] \notin Waiting /\ status'[d] # "dead_letter" => Shown'[d] = status'[d]
BY DEF Shown, Waiting

Loose == [w \in Dispatchers |-> IF pc[w] = "broken" THEN batch[w] ELSE {}]

\* The step of one dispatcher leaves what is loose of the others.
LEMMA LooseNext ==
    ASSUME NEW w \in Dispatchers, NEW D,
           \A v \in Dispatchers \ {w} : pc'[v] = pc[v] /\ batch'[v] = batch[v],
           D = IF pc'[w] = "broken" THEN batch'[w] ELSE {}
    PROVE  Loose' = [Loose EXCEPT ![w] = D]
BY DEF Loose

LEMMA RefineInit == Init => Promise!Init
<1> SUFFICES ASSUME Init PROVE Promise!Init
  OBVIOUS
<1>1. Shown = [d \in Deliveries |-> "none"]
  BY DEF Init, Shown
<1> QED
  BY <1>1 DEF Init, Promise!Init, Shown

LEMMA RefineEnqueue ==
    ASSUME IInv, NEW e \in Events, Enqueue(e)
    PROVE  Promise!Next
<1> DEFINE new == {d \in Deliveries : d[1] = e}
<1>1. \A d \in new : status[d] = "none"
  BY DEF Enqueue, Queued, IInv, TypeOK
<1>2. /\ \A d \in Deliveries \ new : status'[d] = status[d]
      /\ \A d \in new : status'[d] = "pending"
      /\ UNCHANGED <<attempt, taken>> /\ Loose' = Loose
  BY DEF Enqueue, history, stepVars, Loose
<1>3. \A d \in new : Shown[d] = "none"
  BY <1>1, ShownValue DEF Waiting
<1>4. Shown' = [d \in Deliveries |-> IF d \in new THEN "waiting" ELSE Shown[d]]
  BY <1>2 DEF Shown
<1>5. Promise!Queue(new)
  BY <1>2, <1>3, <1>4 DEF Promise!Queue, Shown, Loose
<1>6. new \in SUBSET Deliveries
  OBVIOUS
<1> QED
  BY <1>5, <1>6 DEF Promise!Next

LEMMA RefineDeliver ==
    ASSUME IInv, NEW w \in Dispatchers, Deliver(w)
    PROVE  Promise!Next \/ UNCHANGED <<Shown, attempt, taken, Loose>>
<1>1. PICK d \in batch[w] : Took(w, d) \/ Refused(w, d) \/ TimedOut(w, d)
  BY DEF Deliver, Posted
<1>2. d \in Deliveries /\ Shown[d] = "waiting"
  BY ShownValue DEF Deliver, IInv, TypeOK, BatchInv
<1>3. UNCHANGED <<status, attempt>> /\ Shown' = Shown /\ Loose' = Loose
  BY DEF Deliver, rowVars, Shown, Loose
<1>4. CASE Took(w, d)
  <2>1. Promise!Take(d)
    BY <1>2, <1>3, <1>4 DEF Promise!Take, Took, Shown, Loose
  <2> QED
    BY <1>2, <2>1 DEF Promise!Next
<1>5. CASE Refused(w, d) \/ TimedOut(w, d)
  BY <1>3, <1>5 DEF Refused, TimedOut
<1> QED
  BY <1>1, <1>4, <1>5

LEMMA CountIsNext ==
    ASSUME NEW A \in SUBSET Deliveries, NEW B \in SUBSET Deliveries, A \cap B = {},
           Promise!Count(A, B)
    PROVE  Promise!Next
BY DEF Promise!Next

LEMMA RefineCommit ==
    ASSUME IInv, NEW w \in Dispatchers, Commit(w)
    PROVE  Promise!Next
<1>0. PICK won \in SUBSET Deliveries, rest \in SUBSET Deliveries :
         /\ won = {d \in batch[w] : answer[w][d] = "taken"}
         /\ rest = {d \in batch[w] : answer[w][d] # "taken"}
  BY DEF IInv, TypeOK
<1>1. batch[w] \subseteq Deliveries /\ won \cap rest = {} /\ won \cup rest = batch[w]
  BY <1>0 DEF IInv, TypeOK
<1>2. \A d \in batch[w] :
         /\ status[d] \in Waiting
         /\ attempt[d] \in Nat
         /\ status'[d] = Outcome(answer[w][d], attempt[d] + 1)
         /\ attempt'[d] = attempt[d] + 1
  BY AttemptsPositive DEF Commit, IInv, TypeOK, BatchInv
<1>3. /\ \A d \in Deliveries \ batch[w] : status'[d] = status[d]
      /\ attempt' = [d \in Deliveries |-> IF d \in batch[w] THEN attempt[d] + 1 ELSE attempt[d]]
      /\ taken' = taken
      /\ Loose' = Loose
  <2>1. /\ pc[w] = "posting" /\ pc'[w] = "idle"
        /\ \A v \in Dispatchers \ {w} : pc'[v] = pc[v] /\ batch'[v] = batch[v]
    BY DEF Commit, EndStep, IInv, TypeOK
  <2>2. Loose' = Loose
    BY <2>1 DEF Loose
  <2> QED
    BY <2>2 DEF Commit, history
<1>4. won \subseteq taken
  BY <1>0, <1>1 DEF IInv, AnswerInv
<1>5. \A d \in won \cup rest : Shown[d] = "waiting"
  BY <1>1, <1>2, ShownValue
<1>6. \A d \in batch[w] :
         /\ d \in won => status'[d] = "delivered"
         /\ d \in rest /\ attempt[d] + 1 >= MaxAttempts => status'[d] = "dead_letter"
         /\ d \in rest /\ ~(attempt[d] + 1 >= MaxAttempts) => status'[d] = "retrying"
  BY <1>0, <1>2, OutcomeOf, AttemptsPositive
<1>7. ASSUME NEW d \in Deliveries
      PROVE  Shown'[d] = IF d \in won THEN "delivered"
                         ELSE IF d \in rest /\ attempt[d] + 1 >= MaxAttempts THEN "dead"
                         ELSE Shown[d]
  <2>1. CASE d \in batch[w]
    BY <1>1, <1>5, <1>6, <2>1, ShownValueNext DEF Waiting
  <2>2. CASE d \notin batch[w]
    BY <1>1, <1>3, <2>2 DEF Shown
  <2> QED
    BY <2>1, <2>2
<1>8. Promise!Count(won, rest)
  <2>1. Shown' = [d \in Deliveries |->
                     IF d \in won THEN "delivered"
                     ELSE IF d \in rest /\ attempt[d] + 1 >= MaxAttempts THEN "dead"
                     ELSE Shown[d]]
    BY <1>7 DEF Shown
  <2>2. attempt' = [d \in Deliveries |-> IF d \in won \cup rest THEN attempt[d] + 1 ELSE attempt[d]]
    BY <1>1, <1>3
  <2>3. Promise!Count(won, rest) <=>
           /\ \A d \in won \cup rest : Shown[d] = "waiting"
           /\ won \subseteq taken
           /\ attempt' = [d \in Deliveries |->
                             IF d \in won \cup rest THEN attempt[d] + 1 ELSE attempt[d]]
           /\ Shown' = [d \in Deliveries |->
                     IF d \in won THEN "delivered"
                     ELSE IF d \in rest /\ attempt[d] + 1 >= MaxAttempts THEN "dead"
                     ELSE Shown[d]]
           /\ UNCHANGED <<taken, Loose>>
    BY DEF Promise!Count, Shown, Loose
  <2> QED
    BY <1>3, <1>4, <1>5, <2>1, <2>2, <2>3
<1> QED
  BY <1>1, <1>8, CountIsNext

LEMMA RefineReplay ==
    ASSUME IInv, NEW d \in Deliveries, Replay(d)
    PROVE  Promise!Next
<1>1. Shown[d] = "dead"
  BY ShownValue DEF Replay
<1>2. Shown' = [Shown EXCEPT ![d] = "waiting"]
  BY DEF Replay, Shown, IInv, TypeOK
<1>3. Promise!Replay(d)
  BY <1>1, <1>2 DEF Promise!Replay, Replay, Shown, Loose, stepVars
<1> QED
  BY <1>3 DEF Promise!Next

LEMMA LooseIsNext ==
    ASSUME NEW w \in Dispatchers, NEW D \in SUBSET Deliveries,
           Promise!Slip(w, D) \/ Promise!Drop(w, D)
    PROVE  Promise!Next
BY DEF Promise!Next

LEMMA RefineLoseLocks ==
    ASSUME IInv, NEW w \in Dispatchers, LoseLocks(w)
    PROVE  Promise!Next
<1>0. PICK D \in SUBSET Deliveries : D = batch[w] \ Posted(w)
  BY DEF IInv, TypeOK
<1>1. \A d \in D : Shown[d] = "waiting"
  BY <1>0, ShownValue DEF LoseLocks, IInv, BatchInv
<1>2. /\ pc'[w] = "broken" /\ batch'[w] = D
      /\ \A v \in Dispatchers \ {w} : pc'[v] = pc[v] /\ batch'[v] = batch[v]
  BY <1>0 DEF LoseLocks, IInv, TypeOK
<1>3. Loose' = [Loose EXCEPT ![w] = D]
  BY <1>2, LooseNext
<1>4. Promise!Slip(w, D)
  BY <1>1, <1>3 DEF Promise!Slip, LoseLocks, rowVars, Shown, Loose
<1> QED
  BY <1>4, LooseIsNext

LEMMA RefineDeliverInVain ==
    ASSUME IInv, NEW w \in Dispatchers, DeliverInVain(w)
    PROVE  Promise!Next
<1>1. PICK d \in batch[w] :
        /\ batch' = [batch EXCEPT ![w] = @ \ {d}]
        /\ taken' = taken \cup {d} \/ taken' = taken
  BY DEF DeliverInVain
<1>2. d \in Deliveries /\ {d} \in SUBSET Deliveries /\ d \in Loose[w] /\ Loose[w] = batch[w]
  BY <1>1 DEF DeliverInVain, Loose, IInv, TypeOK
<1>3. UNCHANGED <<status, attempt, pc>> /\ pc[w] = "broken"
  BY DEF DeliverInVain, rowVars
<1>4. /\ batch'[w] = batch[w] \ {d}
      /\ \A v \in Dispatchers \ {w} : pc'[v] = pc[v] /\ batch'[v] = batch[v]
  BY <1>1, <1>3 DEF IInv, TypeOK
<1>5. Loose' = [Loose EXCEPT ![w] = @ \ {d}]
  BY <1>2, <1>3, <1>4, LooseNext
<1>6. CASE taken' = taken \cup {d}
  <2>1. Promise!TakeLoose(w, d)
    BY <1>2, <1>3, <1>5, <1>6 DEF Promise!TakeLoose, Shown, Loose
  <2> QED
    BY <1>2, <2>1 DEF Promise!Next
<1>7. CASE taken' = taken
  <2>1. Promise!Drop(w, {d})
    BY <1>3, <1>5, <1>7 DEF Promise!Drop, Shown, Loose
  <2> QED
    BY <1>2, <2>1, LooseIsNext
<1> QED
  BY <1>1, <1>6, <1>7

LEMMA RefineRollback ==
    ASSUME IInv, NEW w \in Dispatchers, Rollback(w)
    PROVE  Promise!Next
<1>1. /\ pc'[w] = "idle"
      /\ \A v \in Dispatchers \ {w} : pc'[v] = pc[v] /\ batch'[v] = batch[v]
      /\ UNCHANGED <<status, attempt, taken>>
  BY DEF Rollback, EndStep, rowVars, IInv, TypeOK
<1>2. PICK D \in SUBSET Deliveries : D = batch[w]
  BY DEF IInv, TypeOK
<1>3. Loose' = [Loose EXCEPT ![w] = @ \ D]
  <2>1. Loose[w] \ D = {}
    BY <1>2 DEF Loose
  <2> QED
    BY <1>1, <2>1, LooseNext
<1>4. Promise!Drop(w, D)
  BY <1>1, <1>3 DEF Promise!Drop, Shown, Loose
<1> QED
  BY <1>4, LooseIsNext

LEMMA RefineStep == IInv /\ [Next]_vars => [Promise!Next]_(Promise!vars)
<1> SUFFICES ASSUME IInv, [Next]_vars, ~Promise!Next
             PROVE  UNCHANGED <<Shown, attempt, taken, Loose>>
  BY DEF Promise!vars, Shown, Loose
<1>1. ASSUME NEW e \in Events, Enqueue(e) PROVE FALSE
  BY <1>1, RefineEnqueue
<1>2. ASSUME NEW w \in Dispatchers, Claim(w)
      PROVE  UNCHANGED <<Shown, attempt, taken, Loose>>
  <2>1. /\ pc[w] = "idle" /\ pc'[w] = "posting"
        /\ \A v \in Dispatchers \ {w} : pc'[v] = pc[v] /\ batch'[v] = batch[v]
    BY <1>2 DEF Claim, IInv, TypeOK
  <2>2. Loose' = Loose
    BY <2>1 DEF Loose
  <2> QED
    BY <1>2, <2>2 DEF Claim, rowVars, history, Shown
<1>3. ASSUME NEW w \in Dispatchers, Deliver(w) PROVE UNCHANGED <<Shown, attempt, taken, Loose>>
  BY <1>3, RefineDeliver
<1>4. ASSUME NEW w \in Dispatchers, Commit(w) PROVE FALSE
  BY <1>4, RefineCommit
<1>5. ASSUME NEW w \in Dispatchers, LoseLocks(w) \/ DeliverInVain(w) PROVE FALSE
  BY <1>5, RefineLoseLocks, RefineDeliverInVain
<1>6. ASSUME NEW w \in Dispatchers, FailToCommit(w) \/ OutOfTime(w) \/ CutShort(w) PROVE FALSE
  BY <1>6, RefineRollback DEF FailToCommit, OutOfTime, CutShort
<1>7. ASSUME NEW d \in Deliveries, BackoffEnds(d)
      PROVE  UNCHANGED <<Shown, attempt, taken, Loose>>
  BY <1>7 DEF BackoffEnds, stepVars, history, Shown, Loose
<1>8. ASSUME NEW d \in Deliveries, Replay(d) PROVE FALSE
  BY <1>8, RefineReplay
<1>9. CASE UNCHANGED vars
  BY <1>9 DEF vars, rowVars, stepVars, history, Shown, Loose
<1> QED
  BY <1>1, <1>2, <1>3, <1>4, <1>5, <1>6, <1>7, <1>8, <1>9 DEF Next

\* At least once, dead after the last attempt, left alone after that but by those that
\* took it up before and lost their locks: every step of the dispatchers is one the
\* promise allows, or none.
THEOREM DispatcherKeepsPromise == Spec => DeliveriesKeepPromise
<1>1. Init /\ [][Next]_vars /\ []IInv => Promise!Init /\ [][Promise!Next]_(Promise!vars)
  BY RefineInit, RefineStep, PTL
<1> QED
  BY <1>1, Invariant, PTL DEF Spec, DeliveriesKeepPromise, Promise!Spec
=============================================================================
