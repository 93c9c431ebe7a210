---------------------------- MODULE PaymentLinks ----------------------------
(***************************************************************************)
(* What a payment link promises its merchant and its payers: it is open    *)
(* until one payment settles it or the merchant cancels it, it never opens *)
(* again, and it collects money exactly once, from the payment it names.   *)
(***************************************************************************)
CONSTANTS
    Links,      \* rows of the charges table
    Payments,   \* payments that may be made for them
    NoPayment   \* payment_id of a link that is not paid

VARIABLES
    status,     \* open, paid or cancelled
    paidBy,     \* the payment the link names
    collected   \* the payments whose money moved for the link

vars == <<status, paidBy, collected>>

Pay(l, p) ==
    /\ status[l] = "open"
    /\ status' = [status EXCEPT ![l] = "paid"]
    /\ paidBy' = [paidBy EXCEPT ![l] = p]
    /\ collected' = [collected EXCEPT ![l] = {p}]

Cancel(l) ==
    /\ status[l] = "open"
    /\ status' = [status EXCEPT ![l] = "cancelled"]
    /\ UNCHANGED <<paidBy, collected>>

Init ==
    /\ status = [l \in Links |-> "open"]
    /\ paidBy = [l \in Links |-> NoPayment]
    /\ collected = [l \in Links |-> {}]

Next == \E l \in Links : Cancel(l) \/ \E p \in Payments : Pay(l, p)

Spec == Init /\ [][Next]_vars
=============================================================================
