------------------------------- MODULE Books -------------------------------
(***************************************************************************)
(* The sums behind the books: fees, the entries of each kind of posting,   *)
(* the score and the holdback of a merchant, the choice of a rail, what an *)
(* offer is worth, the shares of a split and the balance a user is shown.  *)
(*                                                                         *)
(* Amounts are whole numbers of sen, above 0 (a fee may be 0), which the   *)
(* code demands before it does any of these sums.  A posting is the        *)
(* sequence of its amounts; the accounts are told by their places.         *)
(***************************************************************************)
EXTENDS Integers, Sequences

----
(* Fees *)

BasisPoints == 10000

\* The quotient, with a half and more rounded up.
HalfUp(product, whole) ==
    (product \div whole) + (IF 2 * (product % whole) >= whole THEN 1 ELSE 0)

FeeHalfUp(amount, bps) == HalfUp(amount * bps, BasisPoints)

\* What of the fee goes back with a part of the payment.
ProportionalFee(paidAmount, paidFee, refundAmount) == HalfUp(paidFee * refundAmount, paidAmount)

----
(* Postings *)

Sum(p) == p[1] + p[2] + (IF Len(p) = 3 THEN p[3] ELSE 0)

\* Two entries at least, none of them 0, and 0 in all.
Validate(p) ==
    /\ Len(p) >= 2
    /\ \A i \in DOMAIN p : p[i] # 0
    /\ Sum(p) = 0

\* The entry for a fee of 0 is left out.
Entries(first, second, fee) == IF fee = 0 THEN <<first, second>> ELSE <<first, second, fee>>

\* The account of the payer, what the merchant is owed, and the fee.
NewMerchantPayment(amount, bps) ==
    LET fee == FeeHalfUp(amount, bps) IN Entries(-amount, amount - fee, fee)

\* What the merchant is owed, the clearing account, and the holdback.
NewInstantPayout(gross, holdbackBps) ==
    LET holdback == FeeHalfUp(gross, holdbackBps) IN Entries(-gross, gross - holdback, holdback)

\* What the merchant is owed, the wallet, and the fee.
NewRefund(amount, feeReturned) == Entries(-(amount - feeReturned), amount, -feeReturned)

\* The clearing account, the wallet and the fee.
NewTopup(amount, adminFee) == Entries(-(amount + adminFee), amount, adminFee)

\* The wallet, the clearing account and the fee; a bill is paid by the same entries.
NewWithdrawal(amount, adminFee) == Entries(-(amount + adminFee), amount, adminFee)

\* The wallet, the holdback and the float, one of which may be left out.
NewDisputeRefund(amount, covered) ==
    IF covered = 0 THEN <<amount, -amount>> ELSE Entries(amount, -covered, -(amount - covered))

Reverse(p) == [i \in DOMAIN p |-> -p[i]]

----
(* Risk *)

MinHoldbackBps == 150
MaxHoldbackBps == 4500

Clamp(v, lo, hi) == IF v < lo THEN lo ELSE IF v > hi THEN hi ELSE v

AgeScore(days) ==
    IF days >= 365 THEN 25 ELSE IF days >= 180 THEN 20 ELSE IF days >= 90 THEN 15
    ELSE IF days >= 30 THEN 10 ELSE 4

RateScore(rateBps, tolerance) ==
    IF rateBps >= 4 * tolerance THEN 0 ELSE Clamp(25 - ((25 * rateBps) \div (4 * tolerance)), 0, 25)

\* Centi basis points for the age of a merchant.
AgeLoss(days) ==
    IF days < 30 THEN 1000 ELSE IF days < 90 THEN 400 ELSE IF days < 365 THEN 100 ELSE 0

\* A float, rounded up to a whole number: 0.02 has no exact float, and a product that
\* comes out a little too large is rounded up to the next number.
ExpectedLossCentiBps(f) ==
    LET exact == 25 * f.disputeRateBps + 2 * f.refundRateBps + AgeLoss(f.ageDays)
    IN  {exact, exact + 1}

HoldbackBps(loss) ==
    Clamp(((IF loss < 0 THEN 0 ELSE loss) * 200) \div 100, MinHoldbackBps, MaxHoldbackBps)

Factors == [ageDays : Int, refundRateBps : Nat, disputeRateBps : Nat, stability : 0..25, verified : BOOLEAN]

Total(f) ==
    Clamp(AgeScore(f.ageDays) + RateScore(f.refundRateBps, 100) + RateScore(f.disputeRateBps, 50)
              + f.stability + (IF f.verified THEN 5 ELSE 0),
          0, 100)

\* What Evaluate may say of a merchant.
Evaluate(f) ==
    {[total |-> Total(f), holdbackBps |-> HoldbackBps(loss),
      mode |-> IF Total(f) < 40 THEN "batch" ELSE "instant"] : loss \in ExpectedLossCentiBps(f)}

----
(* The choice of a rail *)

\* Rails are told by name, and BCA is the bank of the internal rail.  A rail of which
\* nothing is known is healthy.
\* The internal rail for its own bank, else BI-FAST, else the first of the list: that
\* one whether it is healthy or not.
Select(rails, bankCode, degraded) ==
    LET Internal(r) == r = "bank_internal" /\ r \notin degraded
        Fast(r) == r = "bifast" /\ r \notin degraded
    IN  IF bankCode = "BCA" /\ \E i \in DOMAIN rails : Internal(rails[i]) THEN "bank_internal"
        ELSE IF \E i \in DOMAIN rails : Fast(rails[i]) THEN "bifast"
        ELSE rails[1]

----
(* Offers, splits, and the balance *)

\* Its value and its points.  maxBenefit and valueBps may be None; what a discount is
\* worth is its own.
Benefit(offer, spend, None) ==
    LET value == (spend * offer.valueBps) \div 10000
        capped == IF offer.maxBenefit # None /\ value > offer.maxBenefit THEN offer.maxBenefit ELSE value
        times == IF offer.valueBps = None THEN 2
                 ELSE IF offer.valueBps \div 10000 < 1 THEN 1 ELSE offer.valueBps \div 10000
    IN  CASE offer.kind = "cashback" /\ offer.valueBps # None -> [value |-> capped, points |-> capped \div 100]
          [] offer.kind = "discount" -> [value |-> offer.value, points |-> 0]
          [] offer.kind = "point_multiplier" -> [value |-> 0, points |-> ((spend \div 100) \div 100) * times]
          [] OTHER -> [value |-> 0, points |-> 0]

\* What each of the payers is asked for; the owner pays the rest.
Share(total, payers) == total \div (payers + 1)

\* held is the sum of the withdrawals that are pending; cached is None if the wallet
\* has no entry.
Balance(fromLedger, held, cached, None) ==
    [available |-> fromLedger - held, held |-> held,
     cacheAgreed |-> cached = None \/ cached = fromLedger - held]
=============================================================================
