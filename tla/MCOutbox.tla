------------------------------ MODULE MCOutbox ------------------------------
(* Instance of Outbox for TLC: two events of one merchant, two relays. *)
EXTENDS Outbox, TLC

CONSTANTS e1, e2, k1

MCKeyOf == (e1 :> k1) @@ (e2 :> k1)

MCHashOf == k1 :> 1
=============================================================================
