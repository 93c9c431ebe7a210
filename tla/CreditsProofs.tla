---------------------------- MODULE CreditsProofs ----------------------------
(***************************************************************************)
(* For any calls, top-ups, payments, disputes and holdbacks: the types of  *)
(* Credits, that every status is backed by the ledger, that a provider's   *)
(* reference credits once, and that calls made one after the other neither *)
(* pay twice nor refund more than was paid.                                *)
(***************************************************************************)
EXTENDS Credits, FiniteSetTheorems, TLAPS

----
(* The inductive invariant *)

StepsOf == [
    callback |-> {"record", "load", "fail", "credit", "invalidate"},
    refund   |-> {"sum", "refund", "invalidate"},
    open     |-> {"count", "insert"},
    resolve  |-> {"load", "find", "post", "consume", "invalidate", "close"}]

\* A call at one of these steps has posted nothing yet.
Unposted == {"record", "load", "fail", "credit", "sum", "refund", "count", "insert", "find", "post"}

\* What the step a call has come to says of what it has done.
Progress(c) ==
    /\ pc[c] \in StepsOf[input[c].kind] \cup Ended
    /\ pc[c] \in Unposted => c \notin posted
    /\ pc[c] \in {"consume", "invalidate"} => c \in posted
    /\ pc[c] = "consume" => holdback[c] # NoHoldback
    /\ input[c].kind = "callback" /\ (pc[c] = "credit" \/ c \in posted) =>
          input[c].outcome = "success" /\ input[c].settlesAmount
    /\ input[c].kind = "resolve" =>
          /\ pc[c] \in {"close", "done"} /\ input[c].outcome = "resolved_user" => c \in posted
          /\ pc[c] = "done" => Resolved(input[c].dispute)
          /\ pc[c] \in {"find", "post", "consume", "invalidate", "close"} =>
                dispute[input[c].dispute] # "absent"
    /\ input[c].kind = "open" =>
          /\ c \notin posted
          /\ pc[c] \in {"count", "insert"} => dispute[input[c].dispute] = "absent"
          /\ pc[c] = "done" => dispute[input[c].dispute] # "absent"

ProgressInv == \A c \in Calls : Progress(c)

\* The calls answered before a call began have been answered 2xx, for good.
BeforeInv == \A c \in Calls : \A q \in before[c] : pc[q] = "done"

Event(c) == <<input[c].ref, input[c].outcome>>

\* The callback has been recorded by c, which processes it or has done so.
Processes(c) ==
    input[c].kind = "callback" /\ (pc[c] \in {"load", "fail", "credit"} \/ c \in posted)

CallbackInv ==
    /\ \A c \in Calls : Processes(c) => Event(c) \in callbacks
    /\ \A a, b \in Calls : Processes(a) /\ Processes(b) /\ Event(a) = Event(b) => a = b

\* What a call has checked still holds of the calls answered before it began.
CheckedInv ==
    /\ \A b \in Calls, t \in Topups : IsFor(b, "callback", "topup", t) /\ pc[b] = "credit" =>
          \A a \in posted : IsFor(a, "callback", "topup", t) => a \notin before[b]
    /\ \A b \in Calls, d \in Disputes : IsFor(b, "resolve", "dispute", d) /\ pc[b] \in {"find", "post"} =>
          \A a \in Calls : IsFor(a, "resolve", "dispute", d) => a \notin before[b]
    /\ \A a, b \in Calls, d, e \in Disputes :
          /\ IsFor(a, "open", "dispute", d) /\ IsFor(b, "open", "dispute", e)
          /\ DisputeOf[d] = DisputeOf[e] /\ a \in before[b] /\ pc[b] = "insert"
          => Resolved(d)

\* The refund of c and those answered before it stay within their payment.
FitsInTurn(c) ==
    LET p == input[c].payment IN
    Refunded({c} \cup (Refunds(p) \cap before[c])) <= Paid[p]

RefundInv ==
    \A c \in Calls : input[c].kind = "refund" /\ (pc[c] = "refund" \/ c \in posted) => FitsInTurn(c)

IInv ==
    /\ TypeOK
    /\ ProgressInv
    /\ BeforeInv
    /\ CallbackInv
    /\ StatusesAreBacked
    /\ CheckedInv
    /\ CreditedOnceInTurn
    /\ RefundInv

----
(* Types *)

\* What calls of each kind are asked to do.
LEMMA InputTypes ==
    ASSUME TypeOK, NEW c \in Calls
    PROVE  /\ input[c].kind \in {"callback", "refund", "open", "resolve"}
           /\ input[c].kind = "callback" =>
                 /\ input[c].topup \in Topups /\ input[c].ref \in Refs
                 /\ input[c].outcome \in {"success", "failed"}
           /\ input[c].kind = "refund" =>
                 input[c].payment \in Payments /\ input[c].amount \in 0..MaxAmount
           /\ input[c].kind = "open" => input[c].dispute \in Disputes
           /\ input[c].kind = "resolve" =>
                 /\ input[c].dispute \in Disputes
                 /\ input[c].outcome \in {"resolved_user", "resolved_merchant"}
<1>1. input[c] \in Input
  BY LoadsAreInputs DEF TypeOK
<1> QED
  BY <1>1 DEF Input

LEMMA FirstStepIsAStep ==
    ASSUME TypeOK, NEW c \in Calls
    PROVE  FirstStep[input[c].kind] \in {"record", "sum", "count", "load"}
BY InputTypes DEF FirstStep

\* Refunded counts these, with r for refunding.
Units(r, calls) == {u \in calls \X (1..MaxAmount) : u[2] <= r[u[1]]}

LEMMA UnitsFinite ==
    ASSUME NEW r, NEW S, S \subseteq Calls
    PROVE  IsFiniteSet(Units(r, S)) /\ Cardinality(Units(r, S)) \in Nat
<1>1. IsFiniteSet(S)
  BY CallsFinite, FS_Subset
<1>2. IsFiniteSet(1..MaxAmount)
  BY MaxAmountIsNat, FS_Interval
<1>3. IsFiniteSet(S \X (1..MaxAmount))
  BY <1>1, <1>2, FS_Product
<1>4. Units(r, S) \subseteq S \X (1..MaxAmount)
  BY DEF Units
<1>5. IsFiniteSet(Units(r, S))
  BY <1>3, <1>4, FS_Subset
<1> QED
  BY <1>5, FS_CardinalityType

\* A refund decides on an amount within its payment.
LEMMA RefundAmount ==
    ASSUME TypeOK, NEW c \in Calls, SumRefunds(c)
    PROVE  /\ refunding' \in [Calls -> 0..MaxAmount]
           /\ pc'[c] = "refund" =>
                 /\ refunding'[c] > 0
                 /\ Refunded(Refunds(input[c].payment)) + refunding'[c] <= Paid[input[c].payment]
<1> DEFINE p == input[c].payment
           already == Refunded(Refunds(p))
           amount == IF input[c].amount = 0 THEN Paid[p] - already ELSE input[c].amount
<1>1. p \in Payments /\ Paid[p] \in 1..MaxAmount /\ input[c].amount \in Int
  BY InputTypes, PaidIsAmount, MaxAmountIsNat DEF SumRefunds, At
<1>2. Refunds(p) \subseteq Calls
  BY DEF TypeOK, Refunds
<1>3. already \in Nat
  BY <1>2, UnitsFinite DEF Refunded, Units
<1>4. CASE MayRefund(p, already, amount)
  <2>1. amount \in 1..MaxAmount /\ already + amount <= Paid[p]
    BY <1>1, <1>3, <1>4, MaxAmountIsNat DEF MayRefund
  <2>2. refunding' = [refunding EXCEPT ![c] = amount]
    BY <1>4 DEF SumRefunds
  <2> QED
    BY <2>1, <2>2, MaxAmountIsNat DEF TypeOK
<1>5. CASE ~MayRefund(p, already, amount)
  BY <1>5 DEF SumRefunds, Move, TypeOK
<1> QED
  BY <1>4, <1>5

LEMMA TypeInit == Init => TypeOK
<1> SUFFICES ASSUME Init PROVE TypeOK
  OBVIOUS
<1>1. \A c \in Calls : FirstStep[input[c].kind] \in {"record", "sum", "count", "load"}
  BY LoadsAreInputs DEF Init, Input, FirstStep
<1> QED
  BY <1>1, MaxAmountIsNat DEF Init, TypeOK, Working, At

LEMMA TypeStep == TypeOK /\ [Next]_vars => TypeOK'
<1> SUFFICES ASSUME TypeOK, [Next]_vars PROVE TypeOK'
  OBVIOUS
<1>1. CASE UNCHANGED vars
  BY <1>1 DEF TypeOK, vars, rowVars, readVars, At
<1>2. ASSUME NEW c \in Calls, Step(c) PROVE TypeOK'
  <2>1. CASE Record(c)
    BY <2>1, InputTypes DEF TypeOK, Record, Starting, Move, readVars, Working, Ended, At
  <2>2. CASE LoadTopup(c)
    BY <2>2 DEF TypeOK, LoadTopup, Move, rowVars, readVars, Working, Ended, At
  <2>3. CASE FailTopup(c)
    BY <2>3, InputTypes DEF TypeOK, FailTopup, Committed, Move, readVars, Working, Ended, At
  <2>4. CASE CreditTopup(c)
    BY <2>4, InputTypes DEF TypeOK, CreditTopup, MarkSucceeded, Committed, Move, readVars, Working, Ended, At
  <2>5. CASE SumRefunds(c)
    <3>1. refunding' \in [Calls -> 0..MaxAmount] /\ (pc'[c] = "refund" => refunding'[c] > 0)
      BY <2>5, RefundAmount
    <3>2. \A q \in Calls \ {c} : pc'[q] = pc[q] /\ refunding'[q] = refunding[q]
      BY <2>5 DEF SumRefunds, Move, TypeOK
    <3> QED
      BY <2>5, <3>1, <3>2 DEF TypeOK, SumRefunds, Starting, Move, rowVars, Working, Ended, At
  <2>6. CASE Refund(c)
    BY <2>6 DEF TypeOK, Refund, Committed, Move, rowVars, readVars, Working, Ended, At
  <2>7. CASE CountDisputes(c)
    BY <2>7 DEF TypeOK, CountDisputes, Starting, Move, rowVars, readVars, Working, Ended, At
  <2>8. CASE InsertDispute(c)
    BY <2>8, InputTypes DEF TypeOK, InsertDispute, Committed, Move, readVars, Working, Ended, At
  <2>9. CASE LoadDispute(c)
    BY <2>9 DEF TypeOK, LoadDispute, Starting, Move, rowVars, readVars, Working, Ended, At
  <2>10. CASE FindHoldback(c)
    BY <2>10 DEF TypeOK, FindHoldback, Move, rowVars, Working, Ended, At
  <2>11. CASE Post(c)
    BY <2>11 DEF TypeOK, Post, AfterPost, Committed, Move, rowVars, readVars, Working, Ended, At
  <2>12. CASE Consume(c)
    BY <2>12, InputTypes DEF TypeOK, Consume, Committed, Move, readVars, Working, Ended, At
  <2>13. CASE Close(c)
    BY <2>13, InputTypes DEF TypeOK, Close, Committed, Move, readVars, Working, Ended, At
  <2>14. CASE Invalidate(c)
    BY <2>14 DEF TypeOK, Invalidate, Move, rowVars, readVars, Working, Ended, At
  <2>15. CASE Die(c)
    BY <2>15 DEF TypeOK, Die, Move, rowVars, readVars, Working, Ended, At
  <2> QED
    BY <1>2, <2>1, <2>2, <2>3, <2>4, <2>5, <2>6, <2>7, <2>8, <2>9, <2>10, <2>11, <2>12,
       <2>13, <2>14, <2>15 DEF Step
<1> QED
  BY <1>1, <1>2 DEF Next

THEOREM TypeCorrect == Spec => []TypeOK
BY TypeInit, TypeStep, PTL DEF Spec

----
(* Steps of a call and the other calls *)

\* A call that has ended takes no step, and a step leaves the other calls alone.
LEMMA OthersStay ==
    ASSUME TypeOK, NEW c \in Calls, Step(c)
    PROVE  /\ input' = input
           /\ pc[c] \in Working
           /\ posted' = posted \/ posted' = posted \cup {c}
           /\ callbacks \subseteq callbacks'
           /\ \A q \in Calls \ {c} :
                 /\ pc'[q] = pc[q]
                 /\ before'[q] = before[q]
                 /\ refunding'[q] = refunding[q]
                 /\ holdback'[q] = holdback[q]
<1>1. CASE Record(c) \/ LoadTopup(c) \/ FailTopup(c) \/ CreditTopup(c)
  BY <1>1 DEF TypeOK, Record, LoadTopup, FailTopup, CreditTopup, Starting, Committed, Move, At,
     rowVars, readVars, Working
<1>2. CASE SumRefunds(c) \/ Refund(c)
  BY <1>2 DEF TypeOK, SumRefunds, Refund, Starting, Committed, Move, At, rowVars, readVars, Working
<1>3. CASE CountDisputes(c) \/ InsertDispute(c) \/ LoadDispute(c)
  BY <1>3 DEF TypeOK, CountDisputes, InsertDispute, LoadDispute, Starting, Committed, Move, At,
     rowVars, readVars, Working
<1>4. CASE FindHoldback(c)
  BY <1>4 DEF TypeOK, FindHoldback, Move, At, rowVars, Working
<1>5. CASE Post(c) \/ Consume(c) \/ Close(c)
  BY <1>5 DEF TypeOK, Post, Consume, Close, Committed, Move, At, rowVars, readVars, Working
<1>6. CASE Invalidate(c) \/ Die(c)
  BY <1>6 DEF TypeOK, Invalidate, Die, Move, rowVars, readVars, Working
<1> QED
  BY <1>1, <1>2, <1>3, <1>4, <1>5, <1>6 DEF Step

\* A dispute is never absent again, nor open again, and only the call that opens it
\* brings it about.
LEMMA DisputesMove ==
    ASSUME TypeOK, ProgressInv, NEW c \in Calls, Step(c), NEW d \in Disputes
    PROVE  /\ dispute[d] # "absent" => dispute'[d] # "absent"
           /\ Resolved(d) => Resolved(d)'
           /\ dispute[d] = "absent" /\ dispute'[d] # "absent" =>
                 At(c, "open", "insert") /\ input[c].dispute = d
<1>1. CASE InsertDispute(c)
  BY <1>1, InputTypes DEF TypeOK, ProgressInv, Progress, InsertDispute, At, Resolved
<1>2. CASE Close(c)
  BY <1>2, InputTypes DEF TypeOK, ProgressInv, Progress, Close, At, Resolved
<1>3. CASE ~InsertDispute(c) /\ ~Close(c)
  <2>1. dispute' = dispute
    BY <1>3 DEF Step, Record, LoadTopup, FailTopup, CreditTopup, SumRefunds, Refund, CountDisputes,
       LoadDispute, FindHoldback, Post, Consume, Invalidate, Die, rowVars
  <2> QED
    BY <2>1 DEF Resolved
<1> QED
  BY <1>1, <1>2, <1>3

\* What c's own step says of what it has done.
LEMMA OwnProgress ==
    ASSUME TypeOK, TypeOK', ProgressInv, NEW c \in Calls, Step(c)
    PROVE  Progress(c)'
<1> USE DEF Progress, StepsOf, Unposted, Ended, Move, Committed, At
<1>0. Progress(c) /\ input[c].kind \in {"callback", "refund", "open", "resolve"}
  BY InputTypes DEF ProgressInv
<1>1. CASE Record(c)
  BY <1>0, <1>1 DEF TypeOK, Record, readVars
<1>2. CASE LoadTopup(c)
  BY <1>0, <1>2 DEF TypeOK, LoadTopup, rowVars, readVars
<1>3. CASE FailTopup(c)
  BY <1>0, <1>3 DEF TypeOK, FailTopup, readVars
<1>4. CASE CreditTopup(c)
  BY <1>0, <1>4 DEF TypeOK, CreditTopup, readVars
<1>5. CASE SumRefunds(c)
  BY <1>0, <1>5 DEF TypeOK, SumRefunds, rowVars
<1>6. CASE Refund(c)
  BY <1>0, <1>6 DEF TypeOK, Refund, rowVars, readVars
<1>7. CASE CountDisputes(c)
  BY <1>0, <1>7 DEF TypeOK, CountDisputes, rowVars, readVars
<1>8. CASE InsertDispute(c)
  BY <1>0, <1>8, InputTypes DEF TypeOK, InsertDispute, readVars
<1>9. CASE LoadDispute(c)
  BY <1>0, <1>9, InputTypes DEF TypeOK, LoadDispute, rowVars, readVars
<1>10. CASE FindHoldback(c)
  BY <1>0, <1>10 DEF TypeOK, FindHoldback, rowVars
<1>11. CASE Post(c)
  BY <1>0, <1>11 DEF TypeOK, Post, AfterPost, rowVars, readVars
<1>12. CASE Consume(c)
  BY <1>0, <1>12 DEF TypeOK, Consume, readVars
<1>13. CASE Close(c)
  BY <1>0, <1>13, InputTypes DEF TypeOK, Close, Resolved, readVars
<1>14. CASE Invalidate(c)
  BY <1>0, <1>14 DEF TypeOK, Invalidate, rowVars, readVars
<1>15. CASE Die(c)
  BY <1>0, <1>15 DEF TypeOK, Die, rowVars, readVars
<1> QED
  BY <1>1, <1>2, <1>3, <1>4, <1>5, <1>6, <1>7, <1>8, <1>9, <1>10, <1>11, <1>12, <1>13, <1>14,
     <1>15 DEF Step

\* Two calls that open the same dispute are the same call.
LEMMA OpensOnce ==
    ASSUME TypeOK, NEW a \in Calls, NEW b \in Calls, input[a].kind = "open",
           input[b].kind = "open", input[a].dispute = input[b].dispute
    PROVE  a = b
BY EveryOpenIsNew DEF TypeOK

LEMMA ProgressStep ==
    ASSUME TypeOK, TypeOK', ProgressInv, NEW c \in Calls, Step(c)
    PROVE  ProgressInv'
<1> SUFFICES ASSUME NEW q \in Calls PROVE Progress(q)'
  BY DEF ProgressInv
<1>1. CASE q = c
  BY <1>1, OwnProgress
<1>2. CASE q # c
  <2>1. /\ input' = input /\ pc'[q] = pc[q] /\ holdback'[q] = holdback[q]
        /\ q \in posted' <=> q \in posted
    BY <1>2, OthersStay
  <2>2. Progress(q)
    BY DEF ProgressInv
  <2>3. \A d \in Disputes :
           /\ dispute[d] # "absent" => dispute'[d] # "absent"
           /\ Resolved(d) => dispute'[d] \in {"resolved_user", "resolved_merchant"}
           /\ dispute[d] = "absent" /\ dispute'[d] # "absent" =>
                 input[c].kind = "open" /\ input[c].dispute = d
    BY DisputesMove DEF At, Resolved
  <2>4. input[q].kind \in {"open", "resolve"} => input[q].dispute \in Disputes
    BY InputTypes
  <2>5. \A d \in Disputes : input[q].kind = "open" /\ input[q].dispute = d /\ dispute[d] = "absent" =>
           dispute'[d] = "absent"
    BY <1>2, <2>3, OpensOnce
  <2> QED
    BY <2>1, <2>2, <2>3, <2>4, <2>5, InputTypes DEF Progress, Resolved
<1> QED
  BY <1>1, <1>2

\* A call that has been answered stays answered.
LEMMA BeforeStep ==
    ASSUME TypeOK, BeforeInv, NEW c \in Calls, Step(c)
    PROVE  BeforeInv'
<1>1. pc[c] # "done"
  BY OthersStay DEF Working
<1>2. \A q \in Calls : pc[q] = "done" => pc'[q] = "done"
  BY <1>1, OthersStay
<1>3. before'[c] = before[c] \/ before'[c] = {q \in Calls : pc[q] = "done"}
  BY DEF Step, Record, LoadTopup, FailTopup, CreditTopup, SumRefunds, Refund, CountDisputes,
     InsertDispute, LoadDispute, FindHoldback, Post, Consume, Close, Invalidate, Die, Starting, TypeOK
<1> QED
  BY <1>2, <1>3, OthersStay DEF BeforeInv, TypeOK

----
(* Top-ups *)

\* A callback is processed by the call that recorded it, and by no other.
LEMMA CallbackStep ==
    ASSUME TypeOK, ProgressInv, CallbackInv, NEW c \in Calls, Step(c)
    PROVE  CallbackInv'
<1>1. CASE Record(c)
  <2>1. \A q \in Calls : q # c => Processes(q)' = Processes(q) /\ Event(q)' = Event(q)
    BY <1>1, OthersStay DEF Record, Processes, Event
  <2>2. Event(c)' = Event(c) /\ callbacks' = callbacks \cup {Event(c)}
    BY <1>1 DEF Record, Event
  <2>3. Processes(c)' => Event(c) \notin callbacks
    BY <1>1 DEF Record, Processes, AlreadySeen, Event, At, Move, ProgressInv, Progress, Unposted, TypeOK
  <2> QED
    BY <2>1, <2>2, <2>3 DEF CallbackInv
<1>2. CASE ~Record(c)
  <2>1. \A q \in Calls : Event(q)' = Event(q)
    BY OthersStay DEF Event
  <2>2. Processes(c)' => Processes(c)
    <3> USE DEF Processes, At, Move, Committed, TypeOK
    <3>1. CASE LoadTopup(c) \/ FailTopup(c) \/ CreditTopup(c)
      BY <3>1 DEF LoadTopup, FailTopup, CreditTopup
    <3>2. CASE SumRefunds(c) \/ Refund(c) \/ CountDisputes(c) \/ InsertDispute(c)
      BY <3>2 DEF SumRefunds, Refund, CountDisputes, InsertDispute
    <3>3. CASE LoadDispute(c) \/ FindHoldback(c) \/ Post(c) \/ Consume(c) \/ Close(c)
      BY <3>3 DEF LoadDispute, FindHoldback, Post, Consume, Close
    <3>4. CASE Invalidate(c) \/ Die(c)
      BY <3>4 DEF Invalidate, Die
    <3> QED
      BY <1>2, <3>1, <3>2, <3>3, <3>4 DEF Step
  <2>3. \A q \in Calls : Processes(q)' => Processes(q)
    BY <2>2, OthersStay DEF Processes
  <2> QED
    BY <2>1, <2>3, OthersStay DEF CallbackInv
<1> QED
  BY <1>1, <1>2

\* What is recorded with a success is recorded for one call only.
LEMMA CallbacksCreditOnce ==
    ASSUME TypeOK, ProgressInv, CallbackInv
    PROVE  ReferenceCreditsOnce
<1> SUFFICES ASSUME NEW a \in posted, NEW b \in posted, input[a].kind = "callback",
                    input[b].kind = "callback", input[a].ref = input[b].ref
             PROVE  a = b
  BY DEF ReferenceCreditsOnce
<1>1. a \in Calls /\ b \in Calls
  BY DEF TypeOK
<1>2. Event(a) = Event(b)
  BY <1>1 DEF ProgressInv, Progress, Event
<1> QED
  BY <1>1, <1>2 DEF CallbackInv, Processes

\* UPDATE ... WHERE status = 'pending' is the only one there is.
LEMMA TopupsKeepStatus ==
    ASSUME TypeOK, NEW c \in Calls, Step(c), NEW t \in Topups, topup[t] # "pending"
    PROVE  topup'[t] = topup[t]
<1>1. CASE FailTopup(c) \/ CreditTopup(c)
  BY <1>1 DEF FailTopup, CreditTopup, MarkSucceeded, TypeOK
<1>2. CASE ~(FailTopup(c) \/ CreditTopup(c))
  BY <1>2 DEF Step, Record, LoadTopup, SumRefunds, Refund, CountDisputes, InsertDispute, LoadDispute,
     FindHoldback, Post, Consume, Close, Invalidate, Die, rowVars
<1> QED
  BY <1>1, <1>2

----
(* Statuses and the ledger *)

LEMMA BackedStep ==
    ASSUME TypeOK, TypeOK', ProgressInv, StatusesAreBacked, NEW c \in Calls, Step(c)
    PROVE  StatusesAreBacked'
<1> USE DEF IsFor, At, Resolved
<1>0. posted \subseteq posted' /\ input' = input /\ Progress(c)
  BY OthersStay DEF ProgressInv
<1>1. CASE FailTopup(c)
  BY <1>0, <1>1, TopupsAreNoDisputes, InputTypes DEF StatusesAreBacked, FailTopup, readVars, TypeOK
<1>2. CASE CreditTopup(c)
  BY <1>0, <1>2, TopupsAreNoDisputes, InputTypes DEF StatusesAreBacked, CreditTopup, MarkSucceeded,
     Progress, readVars, TypeOK
<1>3. CASE InsertDispute(c)
  BY <1>0, <1>3, InputTypes DEF StatusesAreBacked, InsertDispute, readVars, TypeOK
<1>4. CASE FindHoldback(c)
  BY <1>0, <1>4 DEF StatusesAreBacked, FindHoldback, Progress, Unposted, rowVars, TypeOK
<1>5. CASE Consume(c)
  BY <1>0, <1>5, InputTypes DEF StatusesAreBacked, Consume, Progress, readVars, TypeOK
<1>6. CASE Close(c)
  BY <1>0, <1>6, TopupsAreNoDisputes, InputTypes DEF StatusesAreBacked, Close, Progress, readVars, TypeOK
<1>7. CASE Record(c) \/ LoadTopup(c) \/ SumRefunds(c) \/ CountDisputes(c) \/ LoadDispute(c)
           \/ Invalidate(c) \/ Die(c)
  <2>1. UNCHANGED <<topup, dispute, trail, consumedBy, posted, holdback>>
    BY <1>7 DEF Record, LoadTopup, SumRefunds, CountDisputes, LoadDispute, Invalidate, Die, rowVars, readVars
  <2> QED
    BY <1>0, <2>1 DEF StatusesAreBacked
<1>8. CASE Refund(c) \/ Post(c)
  <2>1. UNCHANGED <<topup, dispute, trail, consumedBy, holdback>> /\ input[c].kind # "callback"
    BY <1>8 DEF Refund, Post, rowVars, readVars
  <2>2. \A q \in posted' : q \in posted \/ q = c
    BY OthersStay
  <2> QED
    BY <1>0, <2>1, <2>2 DEF StatusesAreBacked
<1> QED
  BY <1>1, <1>2, <1>3, <1>4, <1>5, <1>6, <1>7, <1>8 DEF Step

----
(* Calls made one after the other *)

\* What c does to the calls answered before each call: a call that is on its way is
\* not among them, and only a first step makes them out.
LEMMA BeforeMoves ==
    ASSUME TypeOK, BeforeInv, NEW c \in Calls, Step(c)
    PROVE  /\ \A b \in Calls : c \notin before[b]
           /\ before'[c] = before[c] \/ pc[c] \in {"record", "sum", "count"} \/ At(c, "resolve", "load")
           /\ before'[c] = before[c] \/ before'[c] = {q \in Calls : pc[q] = "done"}
<1>1. \A b \in Calls : c \notin before[b]
  BY OthersStay DEF BeforeInv, Working
<1>2. \/ before'[c] = before[c]
      \/ (Record(c) \/ SumRefunds(c) \/ CountDisputes(c) \/ LoadDispute(c)) /\ Starting(c)
  BY DEF Step, Record, LoadTopup, FailTopup, CreditTopup, SumRefunds, Refund, CountDisputes,
     InsertDispute, LoadDispute, FindHoldback, Post, Consume, Close, Invalidate, Die
<1>3. Starting(c) => before'[c] = {q \in Calls : pc[q] = "done"}
  BY DEF Starting, TypeOK
<1>4. before'[c] = before[c] \/ pc[c] \in {"record", "sum", "count"} \/ At(c, "resolve", "load")
  BY <1>2 DEF Record, SumRefunds, CountDisputes, LoadDispute, At
<1> QED
  BY <1>1, <1>2, <1>3, <1>4

\* Steps after which c is where its check has just been made.
LEMMA Checks ==
    ASSUME TypeOK, NEW c \in Calls, Step(c)
    PROVE  /\ pc'[c] = "credit" => LoadTopup(c) /\ Unsettled(input[c].topup) /\ before' = before
           /\ input[c].kind = "resolve" /\ pc'[c] = "find" =>
                 LoadDispute(c) /\ dispute[input[c].dispute] = "open"
           /\ pc'[c] = "post" => At(c, "resolve", "find") /\ before' = before
           /\ pc'[c] = "insert" =>
                 /\ CountDisputes(c)
                 /\ \A d \in Disputes : DisputeOf[d] = DisputeOf[input[c].dispute] => dispute[d] # "open"
           /\ c \in posted' /\ c \notin posted =>
                 /\ \/ At(c, "callback", "credit")
                    \/ At(c, "resolve", "post")
                    \/ At(c, "refund", "refund")
                 /\ before' = before
<1> USE DEF At, Move, Committed, TypeOK
<1>1. CASE Record(c) \/ LoadTopup(c)
  BY <1>1 DEF Record, LoadTopup
<1>2. CASE FailTopup(c) \/ CreditTopup(c)
  BY <1>2 DEF FailTopup, CreditTopup
<1>3. CASE SumRefunds(c) \/ Refund(c)
  BY <1>3 DEF SumRefunds, Refund
<1>4. CASE CountDisputes(c) \/ InsertDispute(c)
  BY <1>4 DEF CountDisputes, InsertDispute
<1>5. CASE LoadDispute(c) \/ FindHoldback(c)
  BY <1>5 DEF LoadDispute, FindHoldback
<1>6. CASE Post(c) \/ Consume(c) \/ Close(c)
  BY <1>6 DEF Post, AfterPost, Consume, Close
<1>7. CASE Invalidate(c) \/ Die(c)
  BY <1>7 DEF Invalidate, Die
<1> QED
  BY <1>1, <1>2, <1>3, <1>4, <1>5, <1>6, <1>7 DEF Step

LEMMA CheckedStep ==
    ASSUME TypeOK, TypeOK', ProgressInv, BeforeInv, StatusesAreBacked, CheckedInv,
           NEW c \in Calls, Step(c)
    PROVE  CheckedInv'
<1> USE DEF IsFor, At
<1>0. input' = input
  BY OthersStay
<1>1. ASSUME NEW b \in Calls, NEW t \in Topups, IsFor(b, "callback", "topup", t), pc'[b] = "credit",
             NEW a \in posted', IsFor(a, "callback", "topup", t)
      PROVE  a \notin before'[b]
  <2>1. CASE b # c
    <3>1. pc[b] = "credit" /\ before'[b] = before[b] /\ (a \in posted \/ a = c)
      BY <1>1, <2>1, OthersStay
    <3> QED
      BY <1>1, <3>1, BeforeMoves DEF CheckedInv
  <2>2. CASE b = c
    <3>1. topup[t] = "pending" /\ before' = before
      BY <1>1, <2>2, Checks DEF Unsettled
    <3>2. \A q \in posted : ~IsFor(q, "callback", "topup", t)
      BY <3>1 DEF StatusesAreBacked
    <3> QED
      BY <1>1, <3>1, <3>2, OthersStay, BeforeMoves
  <2> QED
    BY <2>1, <2>2
<1>2. ASSUME NEW b \in Calls, NEW d \in Disputes, IsFor(b, "resolve", "dispute", d),
             pc'[b] \in {"find", "post"}, NEW a \in Calls, IsFor(a, "resolve", "dispute", d)
      PROVE  a \notin before'[b]
  <2>1. CASE b # c
    BY <1>2, <2>1, OthersStay DEF CheckedInv
  <2>2. CASE b = c /\ pc'[c] = "find"
    <3>1. dispute[d] = "open"
      BY <1>2, <2>2, Checks
    <3>2. pc[a] # "done"
      BY <1>2, <3>1 DEF ProgressInv, Progress, Resolved
    <3>3. before'[c] = {q \in Calls : pc[q] = "done"}
      BY <1>2, <2>2, Checks DEF LoadDispute, Starting, TypeOK
    <3> QED
      BY <2>2, <3>2, <3>3
  <2>3. CASE b = c /\ pc'[c] = "post"
    BY <1>2, <2>3, Checks DEF CheckedInv
  <2> QED
    BY <1>2, <2>1, <2>2, <2>3
<1>3. ASSUME NEW a \in Calls, NEW b \in Calls, NEW d \in Disputes, NEW e \in Disputes,
             IsFor(a, "open", "dispute", d), IsFor(b, "open", "dispute", e),
             DisputeOf[d] = DisputeOf[e], a \in before'[b], pc'[b] = "insert"
      PROVE  Resolved(d)'
  <2>1. CASE b # c
    BY <1>3, <2>1, OthersStay, DisputesMove DEF CheckedInv
  <2>2. CASE b = c
    <3>1. before'[c] = {q \in Calls : pc[q] = "done"} /\ dispute[d] # "open"
      BY <1>3, <2>2, Checks DEF CountDisputes, Starting, TypeOK
    <3>2. dispute[d] # "absent"
      BY <1>3, <2>2, <3>1 DEF ProgressInv, Progress
    <3>3. Resolved(d)
      BY <3>1, <3>2 DEF Resolved, TypeOK
    <3> QED
      BY <3>3, DisputesMove
  <2> QED
    BY <2>1, <2>2
<1> QED
  <2>1. (\A b \in Calls, t \in Topups : IsFor(b, "callback", "topup", t) /\ pc[b] = "credit" =>
          \A a \in posted : IsFor(a, "callback", "topup", t) => a \notin before[b])'
    BY <1>0, <1>1
  <2>2. (\A b \in Calls, d \in Disputes : IsFor(b, "resolve", "dispute", d) /\ pc[b] \in {"find", "post"} =>
          \A a \in Calls : IsFor(a, "resolve", "dispute", d) => a \notin before[b])'
    BY <1>0, <1>2
  <2>3. (\A a, b \in Calls, d, e \in Disputes :
          /\ IsFor(a, "open", "dispute", d) /\ IsFor(b, "open", "dispute", e)
          /\ DisputeOf[d] = DisputeOf[e] /\ a \in before[b] /\ pc[b] = "insert"
          => Resolved(d))'
    BY <1>0, <1>3
  <2> QED
    BY <2>1, <2>2, <2>3 DEF CheckedInv

LEMMA InTurnStep ==
    ASSUME TypeOK, TypeOK', ProgressInv, BeforeInv, CheckedInv, CreditedOnceInTurn,
           NEW c \in Calls, Step(c)
    PROVE  CreditedOnceInTurn'
<1> USE DEF IsFor, At
<1>0. input' = input
  BY OthersStay
<1>1. ASSUME NEW a \in posted', NEW b \in posted', NEW t \in Topups,
             IsFor(a, "callback", "topup", t), IsFor(b, "callback", "topup", t)
      PROVE  a \notin before'[b]
  <2>0. a \in Calls /\ b \in Calls /\ (a \in posted \/ a = c) /\ (b \in posted \/ b = c)
    BY OthersStay DEF TypeOK
  <2>1. b \notin posted => b = c /\ pc[b] = "credit" /\ before' = before
    BY <1>1, <2>0, Checks
  <2>2. b \in posted => before'[b] = before[b]
    BY <1>1, <2>0, OthersStay, BeforeMoves DEF ProgressInv, Progress, Unposted
  <2> QED
    BY <1>1, <2>0, <2>1, <2>2, BeforeMoves DEF CheckedInv, CreditedOnceInTurn
<1>2. ASSUME NEW a \in Calls, NEW b \in posted', NEW d \in Disputes,
             IsFor(a, "resolve", "dispute", d), IsFor(b, "resolve", "dispute", d)
      PROVE  a \notin before'[b]
  <2>0. b \in Calls /\ (b \in posted \/ b = c)
    BY OthersStay DEF TypeOK
  <2>1. b \notin posted => b = c /\ pc[b] = "post" /\ before' = before
    BY <1>2, <2>0, Checks
  <2>2. b \in posted => before'[b] = before[b]
    BY <1>2, <2>0, OthersStay, BeforeMoves DEF ProgressInv, Progress, Unposted
  <2> QED
    BY <1>2, <2>0, <2>1, <2>2 DEF CheckedInv, CreditedOnceInTurn
<1>3. ASSUME NEW a \in Calls, NEW b \in Calls, NEW d \in Disputes, NEW e \in Disputes,
             IsFor(a, "open", "dispute", d), IsFor(b, "open", "dispute", e),
             DisputeOf[d] = DisputeOf[e], a \in before'[b], dispute'[e] # "absent"
      PROVE  Resolved(d)'
  <2>1. CASE dispute[e] = "absent"
    <3>1. At(c, "open", "insert") /\ b = c
      BY <1>3, <2>1, DisputesMove, OpensOnce
    <3>2. before'[c] = before[c]
      BY <3>1, BeforeMoves
    <3> QED
      BY <1>3, <3>1, <3>2, DisputesMove DEF CheckedInv
  <2>2. CASE dispute[e] # "absent"
    <3>1. before'[b] = before[b]
      BY <1>3, <2>2, OthersStay, BeforeMoves DEF ProgressInv, Progress, StepsOf, Ended
    <3> QED
      BY <1>3, <2>2, <3>1, DisputesMove DEF CreditedOnceInTurn
  <2> QED
    BY <2>1, <2>2
<1> QED
  BY <1>0, <1>1, <1>2, <1>3 DEF CreditedOnceInTurn

----
(* Refunds *)

\* The refund of c counted together with a set of others.
LEMMA UnitsWith ==
    ASSUME NEW r \in [Calls -> 0..MaxAmount], NEW S, S \subseteq Calls, NEW c \in Calls
    PROVE  Cardinality(Units(r, {c} \cup S)) <= Cardinality(Units(r, S)) + r[c]
<1> DEFINE mine == {c} \X (1..r[c])
<1>1. r[c] \in Nat /\ 1..r[c] \subseteq 1..MaxAmount
  BY MaxAmountIsNat
<1>2. IsFiniteSet({c}) /\ Cardinality({c}) = 1
  BY FS_Singleton
<1>3. IsFiniteSet(1..r[c]) /\ Cardinality(1..r[c]) = r[c]
  BY <1>1, FS_Interval
<1>4. IsFiniteSet(mine) /\ Cardinality(mine) = r[c]
  BY <1>1, <1>2, <1>3, FS_Product
<1>5. Units(r, {c} \cup S) \subseteq Units(r, S) \cup mine
  BY <1>1 DEF Units
<1>6. /\ IsFiniteSet(Units(r, S)) /\ Cardinality(Units(r, S)) \in Nat
      /\ Cardinality(Units(r, {c} \cup S)) \in Nat
  BY UnitsFinite
<1>7. IsFiniteSet(Units(r, S) \cup mine)
      /\ Cardinality(Units(r, S) \cup mine)
            = Cardinality(Units(r, S)) + Cardinality(mine) - Cardinality(Units(r, S) \cap mine)
      /\ Cardinality(Units(r, S) \cap mine) \in Nat
  BY <1>4, <1>6, FS_Union, FS_Intersection, FS_CardinalityType
<1>8. Cardinality(Units(r, {c} \cup S)) <= Cardinality(Units(r, S) \cup mine)
  BY <1>5, <1>7, FS_Subset
<1>9. Cardinality(Units(r, S) \cup mine) \in Nat
  BY <1>7, FS_CardinalityType
<1> QED
  BY <1>1, <1>4, <1>6, <1>7, <1>8, <1>9

LEMMA UnitsGrow ==
    ASSUME NEW r, NEW S, NEW T, S \subseteq T, T \subseteq Calls
    PROVE  Cardinality(Units(r, S)) <= Cardinality(Units(r, T))
<1>1. Units(r, S) \subseteq Units(r, T)
  BY DEF Units
<1> QED
  BY <1>1, UnitsFinite, FS_Subset

LEMMA UnitsSame ==
    ASSUME NEW r, NEW s, NEW S, \A c \in S : r[c] = s[c]
    PROVE  Units(r, S) = Units(s, S)
BY DEF Units

\* What was decided within the payment stays so while the refund and those answered
\* before it stay the same.
LEMMA FitsKept ==
    ASSUME NEW b \in Calls, FitsInTurn(b), input' = input, before'[b] = before[b],
           Refunds(input[b].payment)' \cap before[b] = Refunds(input[b].payment) \cap before[b],
           \A q \in {b} \cup (Refunds(input[b].payment) \cap before[b]) : refunding'[q] = refunding[q]
    PROVE  FitsInTurn(b)'
<1> DEFINE S == {b} \cup (Refunds(input[b].payment) \cap before[b])
<1>1. Units(refunding', S) = Units(refunding, S)
  BY UnitsSame
<1> QED
  BY <1>1 DEF FitsInTurn, Refunded, Units

LEMMA RefundStep ==
    ASSUME TypeOK, TypeOK', ProgressInv, BeforeInv, RefundInv, NEW c \in Calls, Step(c)
    PROVE  RefundInv'
<1>0. input' = input /\ posted \subseteq Calls /\ \A b \in Calls : c \notin before[b]
  BY OthersStay, BeforeMoves DEF TypeOK
<1> SUFFICES ASSUME NEW b \in Calls, input[b].kind = "refund", pc'[b] = "refund" \/ b \in posted'
             PROVE  FitsInTurn(b)'
  BY <1>0 DEF RefundInv
<1> DEFINE p == input[b].payment
<1>1. Refunds(p)' \cap before[b] = Refunds(p) \cap before[b]
  BY <1>0, OthersStay DEF Refunds
<1>2. \A q \in before[b] : refunding'[q] = refunding[q]
  BY <1>0, OthersStay DEF TypeOK
<1>3. CASE b # c
  <2>1. FitsInTurn(b) /\ before'[b] = before[b] /\ refunding'[b] = refunding[b]
    BY <1>3, OthersStay DEF RefundInv
  <2> QED
    BY <1>0, <1>1, <1>2, <2>1, FitsKept
<1>4. CASE b = c /\ ~SumRefunds(c)
  <2>1. Refund(c) \/ Invalidate(c) \/ Die(c)
    BY <1>4 DEF Step, Record, LoadTopup, FailTopup, CreditTopup, CountDisputes, InsertDispute,
       LoadDispute, FindHoldback, Post, Consume, Close, At
  <2>2. (pc[c] = "refund" \/ c \in posted) /\ UNCHANGED <<refunding, before>>
    BY <1>4, <2>1 DEF Refund, Invalidate, Die, At, Move, readVars, TypeOK
  <2> QED
    BY <1>0, <1>1, <1>4, <2>2, FitsKept DEF RefundInv
<1>5. CASE b = c /\ SumRefunds(c)
  <2> DEFINE S == Refunds(p) \cap {q \in Calls : pc[q] = "done"}
  <2>1. pc[c] = "sum" /\ c \notin posted /\ posted' = posted
    BY <1>5 DEF SumRefunds, At, ProgressInv, Progress, Unposted
  <2>2. Refunded(Refunds(p)) + refunding'[c] <= Paid[p] /\ refunding' \in [Calls -> 0..MaxAmount]
    BY <1>5, <2>1, RefundAmount
  <2>3. S \subseteq Refunds(p) /\ Refunds(p) \subseteq Calls /\ c \notin S
    BY <1>0, <2>1 DEF Refunds
  <2>4. Refunds(p)' \cap before'[c] = S
    BY <1>0, <1>5, <2>1 DEF Refunds, SumRefunds, Starting, TypeOK
  <2>5. Units(refunding', S) = Units(refunding, S)
    BY <1>5, <2>3, OthersStay, UnitsSame
  <2>6. Cardinality(Units(refunding, S)) <= Refunded(Refunds(p))
    BY <2>3, UnitsGrow DEF Refunded, Units
  <2>7. Cardinality(Units(refunding', {c} \cup S)) <= Cardinality(Units(refunding', S)) + refunding'[c]
    BY <2>2, <2>3, UnitsWith
  <2>8. /\ Cardinality(Units(refunding, S)) \in Nat /\ Refunded(Refunds(p)) \in Nat
        /\ Cardinality(Units(refunding', {c} \cup S)) \in Nat
        /\ refunding'[c] \in Nat /\ Paid[p] \in Nat
    <3>1. Refunded(Refunds(p)) \in Nat
      BY <2>3, UnitsFinite DEF Refunded, Units
    <3>2. refunding'[c] \in Nat /\ Paid[p] \in Nat
      BY <2>2, InputTypes, PaidIsAmount, MaxAmountIsNat
    <3> QED
      BY <2>3, <3>1, <3>2, UnitsFinite
  <2>9. Cardinality(Units(refunding', {c} \cup S)) <= Paid[p]
    BY <2>2, <2>5, <2>6, <2>7, <2>8
  <2>10. FitsInTurn(c)' <=> Cardinality(Units(refunding', {c} \cup S)) <= Paid[p]
    BY <1>0, <1>5, <2>4 DEF FitsInTurn, Refunded, Units
  <2> QED
    BY <1>5, <2>9, <2>10
<1> QED
  BY <1>3, <1>4, <1>5

----
(* The invariant, and what follows from it *)

LEMMA InitInv == Init => IInv
<1> SUFFICES ASSUME Init PROVE IInv
  OBVIOUS
<1>1. TypeOK
  BY TypeInit
<1>2. ProgressInv
  BY <1>1, InputTypes DEF Init, ProgressInv, Progress, FirstStep, StepsOf, Unposted, Ended, Opens
<1>3. BeforeInv /\ CallbackInv /\ StatusesAreBacked
  BY <1>1, InputTypes, TopupsAreNoDisputes
     DEF Init, BeforeInv, CallbackInv, Processes, FirstStep, StatusesAreBacked, Opens, Resolved
<1>4. CheckedInv /\ CreditedOnceInTurn /\ RefundInv
  BY <1>1, InputTypes DEF Init, CheckedInv, CreditedOnceInTurn, RefundInv, FirstStep, IsFor
<1> QED
  BY <1>1, <1>2, <1>3, <1>4 DEF IInv

LEMMA StepInv == IInv /\ [Next]_vars => IInv'
<1> SUFFICES ASSUME IInv, [Next]_vars PROVE IInv'
  OBVIOUS
<1>1. CASE UNCHANGED vars
  BY <1>1 DEF IInv, vars, rowVars, readVars, TypeOK, ProgressInv, Progress, BeforeInv, CallbackInv,
     Processes, Event, StatusesAreBacked, IsFor, Resolved, CheckedInv, CreditedOnceInTurn, RefundInv,
     FitsInTurn, Refunded, Refunds, At
<1>2. ASSUME NEW c \in Calls, Step(c) PROVE IInv'
  <2>1. TypeOK'
    BY <1>2, TypeStep DEF IInv, Next
  <2>2. ProgressInv' /\ BeforeInv' /\ CallbackInv'
    BY <1>2, <2>1, ProgressStep, BeforeStep, CallbackStep DEF IInv
  <2>3. StatusesAreBacked' /\ CheckedInv' /\ CreditedOnceInTurn' /\ RefundInv'
    BY <1>2, <2>1, BackedStep, CheckedStep, InTurnStep, RefundStep DEF IInv
  <2> QED
    BY <2>1, <2>2, <2>3 DEF IInv
<1> QED
  BY <1>1, <1>2 DEF Next

LEMMA Invariance == Spec => []IInv
BY InitInv, StepInv, PTL DEF Spec

\* Whatever calls interleave and wherever they fail, a status tells of money that has moved.
THEOREM BackedByLedger == Spec => []StatusesAreBacked
<1>1. IInv => StatusesAreBacked
  BY DEF IInv
<1> QED
  BY <1>1, Invariance, PTL

\* However many callbacks carry a provider's reference, one of them credits.
THEOREM ReferencesCreditOnce == Spec => []ReferenceCreditsOnce
<1>1. IInv => ReferenceCreditsOnce
  BY CallbacksCreditOnce DEF IInv
<1> QED
  BY <1>1, Invariance, PTL

\* Top-ups and disputes pay once when their calls come one after the other.
THEOREM TurnsCreditOnce == Spec => []CreditedOnceInTurn
<1>1. IInv => CreditedOnceInTurn
  BY DEF IInv
<1> QED
  BY <1>1, Invariance, PTL

\* Refunds that come one after the other do not exceed the payment.
THEOREM RefundsInTurn == Spec => []RefundsInTurnFit
<1>1. IInv => RefundsInTurnFit
  BY DEF IInv, TypeOK, RefundInv, RefundsInTurnFit, FitsInTurn, Refunds
<1> QED
  BY <1>1, Invariance, PTL

\* A top-up that has succeeded or failed stays so, whichever callbacks are under way.
THEOREM TopupsFinal == Spec => FinalTopupStays
<1>1. TypeOK /\ [Next]_vars => [\A t \in Topups : topup[t] # "pending" => topup'[t] = topup[t]]_vars
  <2> SUFFICES ASSUME TypeOK, NEW c \in Calls, Step(c)
               PROVE  \A t \in Topups : topup[t] # "pending" => topup'[t] = topup[t]
    BY DEF Next
  <2> QED
    BY TopupsKeepStatus
<1> QED
  BY <1>1, TypeCorrect, PTL DEF Spec, FinalTopupStays
=============================================================================
