------------------------------- MODULE Credits -------------------------------
(***************************************************************************)
(* The calls that put money into a consumer's wallet: a provider's         *)
(* callback that confirms a top-up, a refund of a payment, and a dispute   *)
(* resolved for the payer, which draws on a holdback of the merchant.      *)
(*                                                                         *)
(* None of them locks a row.  Each reads what it checks in one statement   *)
(* and writes in a later transaction, or in several: a callback is         *)
(* recorded before it is processed, and a dispute is paid, its holdback    *)
(* consumed and the dispute closed by three transactions.  All calls are   *)
(* about payments and disputes of one merchant.                            *)
(*                                                                         *)
(* The wallet and the cache that these calls end in are those of Wallet,   *)
(* where all three are the call "credit".                                  *)
(***************************************************************************)
EXTENDS Integers, FiniteSets

CONSTANTS
    Calls,       \* API calls in flight
    Topups,      \* rows of topups
    Refs,        \* a provider's references, each with its provider
    Payments,    \* payments of the merchant, all succeeded
    Paid,        \* the amount of each payment
    MaxAmount,   \* bound on the amount of a payment
    Disputes,    \* rows of disputes, those there are and those to come
    DisputeOf,   \* the payment each dispute is about
    Holdbacks,   \* rows of holdbacks of the merchant, numbered by created_at
    NoHoldback,  \* no row is left
    NoDispute,   \* consumed_by of a row that is not consumed
    Loads        \* what the calls are asked to do, one function for each load

\* A callback settles the amount of its top-up or another one.  A refund of 0 asks
\* for the rest of the payment.
Input ==
    [kind : {"callback"}, topup : Topups, ref : Refs, outcome : {"success", "failed"},
     settlesAmount : BOOLEAN]
    \cup [kind : {"refund"}, payment : Payments, amount : 0..MaxAmount]
    \cup [kind : {"open"}, dispute : Disputes]
    \cup [kind : {"resolve"}, dispute : Disputes, outcome : {"resolved_user", "resolved_merchant"}]

ASSUME CallsFinite == IsFiniteSet(Calls)
ASSUME MaxAmountIsNat == MaxAmount \in Nat
ASSUME PaidIsAmount == Paid \in [Payments -> 1..MaxAmount]
ASSUME DisputeOfIsPayment == DisputeOf \in [Disputes -> Payments]
ASSUME NoDisputeIsNone == NoDispute \notin Disputes
ASSUME TopupsAreNoDisputes == Topups \cap Disputes = {}
ASSUME HoldbacksAreNumbers == Holdbacks \subseteq Nat
ASSUME NoHoldbackIsNone == NoHoldback \notin Holdbacks
ASSUME LoadsAreInputs == Loads \subseteq [Calls -> Input]
ASSUME EveryOpenIsNew ==
    \A load \in Loads : \A a, b \in Calls :
        load[a].kind = "open" /\ load[b].kind = "open" /\ load[a].dispute = load[b].dispute => a = b

VARIABLES
    input,       \* what each call was asked to do
    pc,          \* what each call does next, or how it ended
    topup,       \* topups.status
    dispute,     \* disputes.status, absent before it is opened
    trail,       \* the transitions recorded for each top-up and dispute, by to_status
    callbacks,   \* provider_callbacks: the references recorded, with their event
    posted,      \* the calls whose posting is in the ledger
    refunding,   \* the amount each refund has decided on
    holdback,    \* the row each resolution has decided to draw on
    consumedBy,  \* holdbacks.consumed_by
    before       \* history: the calls that were answered 2xx before each call began

readVars == <<refunding, holdback>>
rowVars  == <<topup, dispute, trail, callbacks, consumedBy>>
vars == <<input, pc, rowVars, posted, readVars, before>>

Working == {"record", "load", "fail", "credit", "sum", "refund", "count", "insert",
            "find", "post", "consume", "close", "invalidate"}

\* done: 2xx; refused: 4xx; unknown: 5xx, or no answer at all.
Ended == {"done", "refused", "unknown"}

FirstStep == [callback |-> "record", refund |-> "sum", open |-> "count", resolve |-> "load"]

\* Call c is of this kind and about to take this step.
At(c, kind, step) == input[c].kind = kind /\ pc[c] = step

Move(c, p) == pc' = [pc EXCEPT ![c] = p]

\* The first step of a call notes which calls had been answered by then.
Starting(c) == before' = [before EXCEPT ![c] = {q \in Calls : pc[q] = "done"}]

\* A transaction of c has committed: c goes on, or it never learns of it and answers 5xx.
Committed(c, next) == Move(c, next) \/ Move(c, "unknown")

----
(* Top-ups *)

\* Faulty variant: the conflict of the INSERT is not looked at.
NeverSeen(event) == FALSE

\* INSERT ... ON CONFLICT DO NOTHING inserts no row.
AlreadySeen(event) == event \in callbacks

\* A callback seen before is answered with the top-up as it is.
Record(c) ==
    LET event == <<input[c].ref, input[c].outcome>> IN
    /\ At(c, "callback", "record")
    /\ Starting(c)
    /\ callbacks' = callbacks \cup {event}
    /\ Move(c, IF AlreadySeen(event) THEN "done" ELSE "load")
    /\ UNCHANGED <<input, topup, dispute, trail, consumedBy, posted, readVars>>

\* Faulty variant: the check is left to the UPDATE that looks for a pending row.
UnsettledAnyway(t) == TRUE

Unsettled(t) == topup[t] = "pending"

LoadTopup(c) ==
    /\ At(c, "callback", "load")
    /\ \/ ~Unsettled(input[c].topup) /\ Move(c, "done")
       \/ /\ Unsettled(input[c].topup)
          /\ \/ input[c].outcome # "success" /\ Move(c, "fail")
             \/ input[c].outcome = "success" /\ input[c].settlesAmount /\ Move(c, "credit")
             \/ input[c].outcome = "success" /\ ~input[c].settlesAmount /\ Move(c, "refused")
    /\ UNCHANGED <<input, rowVars, posted, readVars, before>>

\* failTopup: UPDATE ... WHERE status = 'pending', and its transition if it found a row.
FailTopup(c) ==
    LET t == input[c].topup IN
    /\ At(c, "callback", "fail")
    /\ \/ /\ topup[t] = "pending"
          /\ topup' = [topup EXCEPT ![t] = "failed"]
          /\ trail' = [trail EXCEPT ![t] = @ \cup {"failed"}]
          /\ Committed(c, "done")
       \/ topup[t] # "pending" /\ Committed(c, "done") /\ UNCHANGED <<topup, trail>>
       \/ Move(c, "unknown") /\ UNCHANGED <<topup, trail>>
    /\ UNCHANGED <<input, dispute, callbacks, consumedBy, posted, readVars, before>>

\* UPDATE ... WHERE status = 'pending'; nobody asks whether it found a row.
MarkSucceeded(t) ==
    topup' = [topup EXCEPT ![t] = IF @ = "pending" THEN "succeeded" ELSE @]

\* The posting, the top-up's status, its transition and its event.
CreditTopup(c) ==
    LET t == input[c].topup IN
    /\ At(c, "callback", "credit")
    /\ \/ /\ posted' = posted \cup {c}
          /\ MarkSucceeded(t)
          /\ trail' = [trail EXCEPT ![t] = @ \cup {"succeeded"}]
          /\ Committed(c, "invalidate")
       \/ Move(c, "unknown") /\ UNCHANGED <<posted, topup, trail>>
    /\ UNCHANGED <<input, dispute, callbacks, consumedBy, readVars, before>>

----
(* Refunds *)

Refunds(p) == {c \in posted : input[c].kind = "refund" /\ input[c].payment = p}

\* SUM(amount_minor): one pair per unit of money.
Refunded(calls) ==
    Cardinality({u \in calls \X (1..MaxAmount) : u[2] <= refunding[u[1]]})

\* Faulty variant: earlier refunds are only asked whether anything is left.
MayRefundLoosely(p, already, amount) == already < Paid[p] /\ 0 < amount /\ amount <= Paid[p]

MayRefund(p, already, amount) == amount > 0 /\ already + amount <= Paid[p]

\* The sum of the payment's refunds is read without a lock.
SumRefunds(c) ==
    LET p == input[c].payment
        already == Refunded(Refunds(p))
        amount == IF input[c].amount = 0 THEN Paid[p] - already ELSE input[c].amount
    IN
    /\ At(c, "refund", "sum")
    /\ Starting(c)
    /\ \/ /\ MayRefund(p, already, amount)
          /\ refunding' = [refunding EXCEPT ![c] = amount]
          /\ Move(c, "refund")
       \/ ~MayRefund(p, already, amount) /\ Move(c, "refused") /\ UNCHANGED refunding
    /\ UNCHANGED <<input, rowVars, posted, holdback>>

\* The posting, the refund's row and its event.
Refund(c) ==
    /\ At(c, "refund", "refund")
    /\ \/ posted' = posted \cup {c} /\ Committed(c, "invalidate")
       \/ Move(c, "unknown") /\ UNCHANGED posted
    /\ UNCHANGED <<input, rowVars, readVars, before>>

----
(* Disputes *)

Resolved(d) == dispute[d] \in {"resolved_user", "resolved_merchant"}

\* A payment with an unresolved dispute gets no second one.
CountDisputes(c) ==
    LET p == DisputeOf[input[c].dispute] IN
    /\ At(c, "open", "count")
    /\ Starting(c)
    /\ Move(c, IF \E d \in Disputes : DisputeOf[d] = p /\ dispute[d] = "open"
               THEN "refused" ELSE "insert")
    /\ UNCHANGED <<input, rowVars, posted, readVars>>

InsertDispute(c) ==
    /\ At(c, "open", "insert")
    /\ \/ /\ dispute' = [dispute EXCEPT ![input[c].dispute] = "open"]
          /\ Committed(c, "done")
       \/ Move(c, "unknown") /\ UNCHANGED dispute
    /\ UNCHANGED <<input, topup, trail, callbacks, consumedBy, posted, readVars, before>>

LoadDispute(c) ==
    /\ At(c, "resolve", "load")
    /\ Starting(c)
    /\ \/ dispute[input[c].dispute] # "open" /\ Move(c, "refused")
       \/ /\ dispute[input[c].dispute] = "open"
          /\ Move(c, IF input[c].outcome = "resolved_user" THEN "find" ELSE "close")
    /\ UNCHANGED <<input, rowVars, posted, readVars>>

\* availableHoldback: the oldest row that is not consumed, read without a lock.
FindHoldback(c) ==
    LET free == {h \in Holdbacks : consumedBy[h] = NoDispute} IN
    /\ At(c, "resolve", "find")
    /\ \/ \E h \in free :
             (\A g \in free : h <= g) /\ holdback' = [holdback EXCEPT ![c] = h]
       \/ free = {} /\ holdback' = [holdback EXCEPT ![c] = NoHoldback]
    /\ Move(c, "post")
    /\ UNCHANGED <<input, rowVars, posted, refunding, before>>

AfterPost(c) == IF holdback[c] = NoHoldback THEN "invalidate" ELSE "consume"

\* Faulty variant: an error of the posting is not returned.
PostRegardless(c) ==
    /\ At(c, "resolve", "post")
    /\ Move(c, AfterPost(c))
    /\ posted' = posted \cup {c} \/ UNCHANGED posted
    /\ UNCHANGED <<input, rowVars, readVars, before>>

\* The dispute is paid in a transaction of its own.
Post(c) ==
    /\ At(c, "resolve", "post")
    /\ \/ posted' = posted \cup {c} /\ Committed(c, AfterPost(c))
       \/ Move(c, "unknown") /\ UNCHANGED posted
    /\ UNCHANGED <<input, rowVars, readVars, before>>

\* UPDATE holdbacks ... WHERE id = $2, whoever has consumed the row meanwhile.
Consume(c) ==
    /\ At(c, "resolve", "consume")
    /\ \/ /\ consumedBy' = [consumedBy EXCEPT ![holdback[c]] = input[c].dispute]
          /\ Committed(c, "invalidate")
       \/ Move(c, "unknown") /\ UNCHANGED consumedBy
    /\ UNCHANGED <<input, topup, dispute, trail, callbacks, posted, readVars, before>>

\* UPDATE disputes ... WHERE id = $4, whatever its status is by now.
Close(c) ==
    LET d == input[c].dispute IN
    /\ At(c, "resolve", "close")
    /\ \/ /\ dispute' = [dispute EXCEPT ![d] = input[c].outcome]
          /\ trail' = [trail EXCEPT ![d] = @ \cup {input[c].outcome}]
          /\ Committed(c, "done")
       \/ Move(c, "unknown") /\ UNCHANGED <<dispute, trail>>
    /\ UNCHANGED <<input, topup, callbacks, consumedBy, posted, readVars, before>>

----
\* The payer's cache entry is dropped; only a dispute has something left to do.
Invalidate(c) ==
    /\ pc[c] = "invalidate"
    /\ Move(c, IF input[c].kind = "resolve" THEN "close" ELSE "done")
    /\ UNCHANGED <<input, rowVars, posted, readVars, before>>

Die(c) ==
    /\ pc[c] \in Working
    /\ Move(c, "unknown")
    /\ UNCHANGED <<input, rowVars, posted, readVars, before>>

Opens(d) == \E c \in Calls : input[c].kind = "open" /\ input[c].dispute = d

\* A dispute that none of the calls opens is open when they arrive.
Init ==
    /\ input \in Loads
    /\ pc = [c \in Calls |-> FirstStep[input[c].kind]]
    /\ topup = [t \in Topups |-> "pending"]
    /\ dispute = [d \in Disputes |-> IF Opens(d) THEN "absent" ELSE "open"]
    /\ trail = [o \in Topups \cup Disputes |-> {}]
    /\ callbacks = {}
    /\ posted = {}
    /\ refunding = [c \in Calls |-> 0]
    /\ holdback = [c \in Calls |-> NoHoldback]
    /\ consumedBy = [h \in Holdbacks |-> NoDispute]
    /\ before = [c \in Calls |-> {}]

Step(c) ==
    \/ Record(c)
    \/ LoadTopup(c)
    \/ FailTopup(c)
    \/ CreditTopup(c)
    \/ SumRefunds(c)
    \/ Refund(c)
    \/ CountDisputes(c)
    \/ InsertDispute(c)
    \/ LoadDispute(c)
    \/ FindHoldback(c)
    \/ Post(c)
    \/ Consume(c)
    \/ Close(c)
    \/ Invalidate(c)
    \/ Die(c)

Next == \E c \in Calls : Step(c)

Spec == Init /\ [][Next]_vars

----
(* Properties *)

\* Calls keep to their steps, and a refund that is made is of some amount, as the
\* CHECK of its table demands.
TypeOK ==
    /\ input \in Loads
    /\ pc \in [Calls -> Working \cup Ended]
    /\ topup \in [Topups -> {"pending", "succeeded", "failed"}]
    /\ dispute \in [Disputes -> {"absent", "open", "resolved_user", "resolved_merchant"}]
    /\ trail \in [Topups \cup Disputes ->
                    SUBSET {"succeeded", "failed", "resolved_user", "resolved_merchant"}]
    /\ callbacks \subseteq Refs \X {"success", "failed"}
    /\ posted \subseteq Calls
    /\ refunding \in [Calls -> 0..MaxAmount]
    /\ \A c \in Calls : At(c, "refund", "refund") => refunding[c] > 0
    /\ holdback \in [Calls -> Holdbacks \cup {NoHoldback}]
    /\ consumedBy \in [Holdbacks -> Disputes \cup {NoDispute}]
    /\ before \in [Calls -> SUBSET Calls]

IsFor(c, kind, field, value) == input[c].kind = kind /\ input[c][field] = value

\* What a row says has happened has happened in the ledger, at every moment and after
\* every crash: a succeeded top-up is credited and a credited one no longer pending, a
\* dispute closed for the payer has paid him, a consumed holdback has paid for its
\* dispute, and every status has its transition.
StatusesAreBacked ==
    /\ \A t \in Topups :
          /\ topup[t] = "succeeded" =>
                \E c \in posted : IsFor(c, "callback", "topup", t) /\ input[c].settlesAmount
          /\ topup[t] = "pending" => \A c \in posted : ~IsFor(c, "callback", "topup", t)
          /\ topup[t] = "pending" \/ topup[t] \in trail[t]
    /\ \A d \in Disputes :
          /\ dispute[d] = "resolved_user" => \E c \in posted : IsFor(c, "resolve", "dispute", d)
          /\ Resolved(d) => dispute[d] \in trail[d]
    /\ \A h \in Holdbacks : consumedBy[h] # NoDispute =>
          \E c \in posted : IsFor(c, "resolve", "dispute", consumedBy[h]) /\ holdback[c] = h

\* However often a provider delivers a callback, at once or later, and whatever
\* fails, its reference credits one top-up once.
ReferenceCreditsOnce ==
    \A a, b \in posted :
        /\ input[a].kind = "callback" /\ input[b].kind = "callback"
        /\ input[a].ref = input[b].ref
        => a = b

\* A top-up that has succeeded or failed stays what it is, although callbacks that
\* found it pending are still under way.
FinalTopupStays ==
    [][\A t \in Topups : topup[t] # "pending" => topup'[t] = topup[t]]_vars

\* Calls made one after the other, each after the answer to the last, credit once: no
\* top-up or dispute pays after one call about it that paid or closed it was answered
\* 2xx, and no dispute opens beside one whose opening was answered.
CreditedOnceInTurn ==
    /\ \A a, b \in posted, t \in Topups :
          IsFor(a, "callback", "topup", t) /\ IsFor(b, "callback", "topup", t) => a \notin before[b]
    /\ \A a \in Calls, b \in posted, d \in Disputes :
          IsFor(a, "resolve", "dispute", d) /\ IsFor(b, "resolve", "dispute", d) => a \notin before[b]
    /\ \A a, b \in Calls, d, e \in Disputes :
          /\ IsFor(a, "open", "dispute", d) /\ IsFor(b, "open", "dispute", e)
          /\ DisputeOf[d] = DisputeOf[e] /\ a \in before[b] /\ dispute[e] # "absent"
          => Resolved(d)

\* Refunds made one after the other stay within the payment: a refund and all those
\* answered before it was asked for do not exceed it.
RefundsInTurnFit ==
    \A p \in Payments : \A c \in Refunds(p) :
        Refunded({c} \cup (Refunds(p) \cap before[c])) <= Paid[p]
=============================================================================
