------------------------------ MODULE MCPayouts ------------------------------
(* Instances of Payouts for TLC: two payouts and two runs. *)
EXTENDS Payouts

CONSTANTS s1, s2, r1, r2

Ask(m, gross, bps, risky, exposed) ==
    [kind |-> "settle", merchant |-> m, gross |-> gross, bps |-> bps, risky |-> risky,
     exposed |-> exposed, rail |-> TRUE]
Run(day) == [kind |-> "run", day |-> day, rail |-> TRUE]
RailLess(in) == [in EXCEPT !.rail = FALSE]

MCLoad(a, b, q, r) ==
    [x \in Actors |-> CASE x = s1 -> a [] x = s2 -> b [] x = r1 -> q [] x = r2 -> r]

\* Payouts of one merchant that wait, and two runs of their day; payouts of two
\* merchants and a run that has no rail; a payout that waits beside one sent at once; a
\* payout that fills the float to nine tenths, or so far that only a merchant with a
\* small holdback is paid at once.
MCLoads == {
    MCLoad(Ask(1, 5, 150, TRUE, FALSE), Ask(1, 5, 150, FALSE, TRUE), Run(1), Run(1)),
    MCLoad(Ask(1, 5, 150, TRUE, FALSE), RailLess(Ask(2, 5, 150, FALSE, FALSE)), Run(1), RailLess(Run(1))),
    MCLoad(Ask(1, 5, 150, TRUE, FALSE), Ask(1, 5, 150, FALSE, FALSE), Run(1), Run(2)),
    MCLoad(Ask(1, 9, 150, FALSE, FALSE), Ask(2, 5, 150, FALSE, FALSE), Run(2), Run(2)),
    MCLoad(Ask(1, 7, 150, FALSE, FALSE), Ask(2, 5, 2000, FALSE, FALSE), Run(2), Run(2)) }
=============================================================================
