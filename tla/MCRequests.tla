----------------------------- MODULE MCRequests -----------------------------
(* Instances of Requests for TLC: three attempts, two keys, one payment link. *)
EXTENDS Requests, TLC

CONSTANTS a1, a2, a3, k1, k2, l1

Charge   == [kind |-> "charge", link |-> l1]
Payment  == [kind |-> "payment"]
Transfer == [kind |-> "transfer"]

MCBodies == {Charge, Payment, Transfer}

Load(r1, r2, r3) == (a1 :> r1) @@ (a2 :> r2) @@ (a3 :> r3)
Ask(k, b) == [key |-> k, body |-> b]

\* One payer who tries a link again and again, two payers who compete for it, a
\* transfer sent three times, and a key that comes back with another body.
MCLoads == {
    Load(Ask(k1, Charge), Ask(k1, Charge), Ask(k1, Charge)),
    Load(Ask(k1, Charge), Ask(k2, Charge), Ask(k1, Charge)),
    Load(Ask(k1, Transfer), Ask(k1, Transfer), Ask(k1, Transfer)),
    Load(Ask(k1, Payment), Ask(k1, Charge), Ask(k1, Payment)) }
=============================================================================
