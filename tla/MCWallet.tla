------------------------------ MODULE MCWallet ------------------------------
(* Instances of Wallet for TLC: two consumers, three calls. *)
EXTENDS Wallet

CONSTANTS u1, u2

\* u1 can afford either of its two large debits but not both; u2 can afford none
\* before the transfer reaches it.
MCOpening == [u \in Users |-> IF u = u1 THEN 2 ELSE 0]

Alone(k, u, a) == [kind |-> k, from |-> u, to |-> u, amount |-> a]

Pay      == Alone("payment", u1, 2)
Bill     == Alone("bill", u1, 1)
Credit   == Alone("credit", u1, 1)
Withdraw == Alone("withdrawal", u2, 1)
Transfer == [kind |-> "transfer", from |-> u1, to |-> u2, amount |-> 2]

\* Debits that compete for one wallet, a credit or a transfer that lands among
\* them, and a payee who spends what is on its way.
MCLoads == {
    <<Pay, Pay, Credit>>,
    <<Pay, Bill, Transfer>>,
    <<Bill, Bill, Credit>>,
    <<Transfer, Credit, Pay>>,
    <<Transfer, Withdraw, Withdraw>> }
=============================================================================
