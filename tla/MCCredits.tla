------------------------------ MODULE MCCredits ------------------------------
(* Instances of Credits for TLC: three calls about one top-up, one payment or two. *)
EXTENDS Credits

CONSTANTS t1, f1, f2, p1, p2, d1, d2

MCPaid == [p \in Payments |-> 2]
MCDisputeOf == [d \in Disputes |-> p1]

Callback(f, o, s) ==
    [kind |-> "callback", topup |-> t1, ref |-> f, outcome |-> o, settlesAmount |-> s]
RefundOf(p, n) == [kind |-> "refund", payment |-> p, amount |-> n]
Open(d) == [kind |-> "open", dispute |-> d]
Resolve(d, o) == [kind |-> "resolve", dispute |-> d, outcome |-> o]

\* A callback delivered three times; two references that settle one top-up, or settle
\* and fail it, or settle it with another amount; refunds that together exceed their
\* payment, and of another one; two disputes opened, paid, or paid and turned down.
MCLoads == {
    <<Callback(f1, "success", TRUE), Callback(f1, "success", TRUE), Callback(f1, "success", TRUE)>>,
    <<Callback(f1, "success", TRUE), Callback(f2, "success", TRUE), Callback(f1, "failed", TRUE)>>,
    <<Callback(f1, "success", FALSE), Callback(f2, "success", TRUE), Callback(f1, "success", TRUE)>>,
    <<RefundOf(p1, 1), RefundOf(p1, 2), RefundOf(p1, 0)>>,
    <<RefundOf(p1, 1), RefundOf(p2, 0), RefundOf(p1, 0)>>,
    <<Open(d1), Open(d2), Resolve(d1, "resolved_merchant")>>,
    <<Resolve(d1, "resolved_user"), Resolve(d1, "resolved_user"), Resolve(d2, "resolved_user")>>,
    <<Resolve(d1, "resolved_user"), Resolve(d1, "resolved_merchant"), RefundOf(p1, 0)>> }
=============================================================================
