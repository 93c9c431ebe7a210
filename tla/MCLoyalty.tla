----------------------------- MODULE MCLoyalty -----------------------------
(* Instances of Loyalty for TLC: two users, of whom u1 does everything. *)
EXTENDS Loyalty, TLC

CONSTANTS u1, u2, c1, c2, c3, old1, old2

MCMayBe ==
    (c1 :> {"redeem", "apply", "sweep", "ask"}) @@ (c2 :> {"redeem", "apply", "sweep"}) @@ (c3 :> {"apply"})

MCUserOf == [l \in {c1, c2, c3, old1} |-> u1] @@ (old2 :> u2)

\* A redemption takes all there is at first.
MCPointsOf == [l \in {c1, c2, old1} |-> 2] @@ (c3 :> 1) @@ (old2 :> 1)

MCPaymentOf == (c1 :> "pay") @@ (c3 :> "pay") @@ (c2 :> None)

MCPayersOf == [c \in {c1, c2, c3} |-> <<u2, u1>>]
=============================================================================
