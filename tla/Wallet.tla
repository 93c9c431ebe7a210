------------------------------- MODULE Wallet -------------------------------
(***************************************************************************)
(* The money path of a consumer wallet: the spendable balance cached in    *)
(* Redis, the balance derived from the ledger in Postgres, and the API     *)
(* calls that move money between the two.                                  *)
(*                                                                         *)
(* A debit (payment, transfer, withdrawal, bill) reserves its amount in    *)
(* the cache, commits one Postgres transaction, and gives the reservation  *)
(* back when the commit reports an error.  When the cache has no entry it  *)
(* reads the ledger, writes the balance to the cache and tries once more.  *)
(* A credit (confirmed top-up, refund, resolved dispute) commits and then  *)
(* drops the cache entry; so does a transfer, for its payee.               *)
(*                                                                         *)
(* Every step below is one round trip to Redis, Postgres or the biller, so *)
(* calls interleave between any two of them, on one process or on several. *)
(* Die is a call that gets no further: a dependency error that the code    *)
(* answers with a 5xx, a cancelled request, or a crash of the process.     *)
(***************************************************************************)
EXTENDS Integers, FiniteSets

CONSTANTS
    Users,       \* consumers; each owns one user_wallet account
    Calls,       \* API calls in flight
    Loads,       \* what the calls may be asked to do, one function for each load
    MaxAmount,   \* bound on one amount, fees included
    Opening,     \* balance of each wallet when the calls arrive
    NotCached,   \* the cache has no entry for the account
    CacheTTL,    \* hours before a cache entry expires, 0 for never
    LosesAcks    \* whether a commit may succeed and be reported as failed

Debits  == {"payment", "transfer", "withdrawal", "bill"}
Credits == {"credit"}

\* What a call is asked to do.  Only a transfer names two wallets; the fee of a
\* withdrawal or of a bill is part of its amount, as it is of the reservation.
Input == [kind : Debits \cup Credits, from : Users, to : Users, amount : 1..MaxAmount]

ASSUME CallsFinite == IsFiniteSet(Calls)
ASSUME MaxAmountIsNat == MaxAmount \in Nat
ASSUME LoadsAreInputs ==
    /\ Loads \subseteq [Calls -> Input]
    /\ \A load \in Loads, c \in Calls :
          (load[c].kind = "transfer") <=> (load[c].from # load[c].to)
ASSUME OpeningIsNat == Opening \in [Users -> Nat]
ASSUME NotCachedIsNoAmount == NotCached \notin Int
ASSUME CacheTTLIsNat == CacheTTL \in Nat
ASSUME LosesAcksIsBool == LosesAcks \in BOOLEAN

VARIABLES
    balance,   \* SUM(amount_minor) of the user's wallet account in the ledger
    cache,     \* the Redis key balance:<account>
    pc,        \* what each call does next, or how it ended
    input,     \* what each call was asked to do
    seen,      \* the balance a call read from the ledger to warm the cache
    biller,    \* the status callBiller gave each bill
    paid,      \* the bills the biller has taken the money for, known here or not
    landed,    \* whether the call's Postgres transaction is committed
    late,      \* history: the calls whose `seen` a later debit has made stale
    exposed    \* history: the users whose reservations no longer bound their spending

vars == <<balance, cache, pc, input, seen, biller, paid, landed, late, exposed>>

Working == {"reserve", "read", "warm", "retry", "bill", "commit", "giveback", "invalidate"}

\* done: 2xx; refused: 4xx; unknown: 5xx, or no answer at all.
Ended == {"done", "refused", "unknown"}

BillerStates == {"none", "succeeded", "pending", "failed"}

Amount(c) == input[c].amount
Payer(c)  == input[c].from
Payee(c)  == input[c].to
IsDebit(c) == input[c].kind \in Debits

Move(c, p) == pc' = [pc EXCEPT ![c] = p]

----
(* Reservations *)

\* Call c has taken its amount out of u's cache entry and its own transaction
\* has not debited the ledger.
Holds(c, u) ==
    /\ IsDebit(c) /\ Payer(c) = u
    /\ pc[c] \in {"bill", "commit", "giveback"}
    /\ ~landed[c]

\* One pair per unit of money held, so that their number is the sum of the amounts held.
HeldUnits(u) == {p \in Calls \X (1..MaxAmount) : Holds(p[1], u) /\ p[2] <= Amount(p[1])}

Held(u) == Cardinality(HeldUnits(u))

----
(* Steps of a call *)

\* Faulty variant: the check and the decrement are not one step, and the
\* decrement no longer looks at the balance.
TryReserveUnchecked(c, ifMissing) ==
    LET u == Payer(c) IN
    /\ \/ /\ cache[u] = NotCached
          /\ Move(c, ifMissing)
          /\ UNCHANGED cache
       \/ /\ cache[u] # NotCached
          /\ cache' = [cache EXCEPT ![u] = @ - Amount(c)]
          /\ Move(c, IF input[c].kind = "bill" THEN "bill" ELSE "commit")
    /\ UNCHANGED <<balance, input, seen, biller, paid, landed, late, exposed>>

\* The Lua script of wallet.Redis.Reserve, which checks and decrements in one step.
TryReserve(c, ifMissing) ==
    LET u == Payer(c) IN
    /\ \/ /\ cache[u] = NotCached
          /\ Move(c, ifMissing)
          /\ UNCHANGED cache
       \/ /\ cache[u] # NotCached
          /\ cache[u] < Amount(c)
          /\ Move(c, "refused")
          /\ UNCHANGED cache
       \/ /\ cache[u] # NotCached
          /\ cache[u] >= Amount(c)
          /\ cache' = [cache EXCEPT ![u] = @ - Amount(c)]
          /\ Move(c, IF input[c].kind = "bill" THEN "bill" ELSE "commit")
    /\ UNCHANGED <<balance, input, seen, biller, paid, landed, late, exposed>>

Reserve(c) == pc[c] = "reserve" /\ TryReserve(c, "read")

ReadLedger(c) ==
    /\ pc[c] = "read"
    /\ seen' = [seen EXCEPT ![c] = balance[Payer(c)]]
    /\ Move(c, "warm")
    /\ UNCHANGED <<balance, cache, input, biller, paid, landed, late, exposed>>

\* Writing `seen` hides the reservations that other calls hold at this moment,
\* and the debits committed since it was read.
Warm(c) ==
    LET u == Payer(c) IN
    /\ pc[c] = "warm"
    /\ cache' = [cache EXCEPT ![u] = seen[c]]
    /\ Move(c, "retry")
    /\ exposed' = IF c \in late \/ \E q \in Calls : Holds(q, u)
                  THEN exposed \cup {u} ELSE exposed
    /\ UNCHANGED <<balance, input, seen, biller, paid, landed, late>>

\* A second miss is an error: ErrAccountNotCached reaches the caller.
Retry(c) == pc[c] = "retry" /\ TryReserve(c, "unknown")

\* Faulty variant: an ambiguous answer counts as a rejection.
AnswersAmbiguousFails == {
    [settles |-> TRUE,  status |-> "succeeded"],
    [settles |-> TRUE,  status |-> "failed"],
    [settles |-> FALSE, status |-> "failed"] }

\* What the rail did with a bill, and what callBiller makes of it.  An ambiguous
\* answer is a payment the rail could not confirm; a timeout, one that never went.
Answers == {
    [settles |-> TRUE,  status |-> "succeeded"],
    [settles |-> TRUE,  status |-> "pending"],
    [settles |-> FALSE, status |-> "pending"],
    [settles |-> FALSE, status |-> "failed"] }

\* PayBill calls the biller before it commits; a pending bill is committed too.
CallBiller(c) ==
    /\ pc[c] = "bill"
    /\ \E answer \in Answers :
          /\ biller' = [biller EXCEPT ![c] = answer.status]
          /\ paid' = IF answer.settles THEN paid \cup {c} ELSE paid
          /\ Move(c, IF answer.status = "failed" THEN "giveback" ELSE "commit")
    /\ UNCHANGED <<balance, cache, input, seen, landed, late, exposed>>

\* What the posting of call c adds to the wallet account of u.
Delta(c, u) ==
    (IF u = Payee(c) /\ input[c].kind \in {"transfer", "credit"} THEN Amount(c) ELSE 0)
      - (IF u = Payer(c) /\ IsDebit(c) THEN Amount(c) ELSE 0)

\* The transaction commits: the posting, the operation's row and its event.
Post(c) ==
    /\ balance' = [u \in Users |-> balance[u] + Delta(c, u)]
    /\ landed' = [landed EXCEPT ![c] = TRUE]
    /\ late' = IF IsDebit(c)
               THEN late \cup {q \in Calls : pc[q] = "warm" /\ Payer(q) = Payer(c)}
               ELSE late

AfterError(c) == IF IsDebit(c) THEN "giveback" ELSE "unknown"

\* Commit may fail, and it may succeed while its acknowledgement is lost: the
\* code cannot tell these two apart and treats both as failed.
Commit(c) ==
    /\ pc[c] = "commit"
    /\ \/ /\ Post(c)
          /\ \/ Move(c, IF input[c].kind \in {"transfer", "credit"} THEN "invalidate" ELSE "done")
             \/ LosesAcks /\ Move(c, AfterError(c))
       \/ /\ Move(c, AfterError(c))
          /\ UNCHANGED <<balance, landed, late>>
    /\ UNCHANGED <<cache, input, seen, biller, paid, exposed>>

\* The client is told 4xx for a bill the biller turned down, and for a payment
\* whose link was paid or closed before its transaction could take it.
MayRefuse(c) ==
    \/ biller[c] = "failed"
    \/ input[c].kind = "payment" /\ ~landed[c]

\* Release: an increment when the entry is still there, an error otherwise.  Every
\* other failure is a 5xx, and so is a rejected bill that could not be released.
GiveBack(c) ==
    LET u == Payer(c)
        Answer(mayRefuse) ==
            Move(c, "unknown") \/ (mayRefuse /\ Move(c, "refused"))
    IN
    /\ pc[c] = "giveback"
    /\ \/ /\ cache[u] # NotCached
          /\ cache' = [cache EXCEPT ![u] = @ + Amount(c)]
          /\ exposed' = IF landed[c] THEN exposed \cup {u} ELSE exposed
          /\ Answer(MayRefuse(c))
       \/ /\ Answer(MayRefuse(c) /\ biller[c] # "failed")
          /\ UNCHANGED <<cache, exposed>>
    /\ UNCHANGED <<balance, input, seen, biller, paid, landed, late>>

Invalidate(c) ==
    /\ pc[c] = "invalidate"
    /\ cache' = [cache EXCEPT ![Payee(c)] = NotCached]
    /\ Move(c, "done")
    /\ UNCHANGED <<balance, input, seen, biller, paid, landed, late, exposed>>

Die(c) ==
    /\ pc[c] \in Working
    /\ Move(c, "unknown")
    /\ UNCHANGED <<balance, cache, input, seen, biller, paid, landed, late, exposed>>

----
(* The cache on its own *)

\* Faulty variant: Warm sets the entry without a time to live.
EntriesStay == FALSE

EntriesExpire == CacheTTL > 0

\* The entry reaches its time to live, is evicted, or is lost with the Redis node.
Expire(u) ==
    /\ EntriesExpire
    /\ cache[u] # NotCached
    /\ cache' = [cache EXCEPT ![u] = NotCached]
    /\ UNCHANGED <<balance, pc, input, seen, biller, paid, landed, late, exposed>>

----
Init ==
    /\ balance = Opening
    /\ cache = [u \in Users |-> NotCached]
    /\ input \in Loads
    /\ pc = [c \in Calls |-> IF input[c].kind \in Debits THEN "reserve" ELSE "commit"]
    /\ seen = [c \in Calls |-> 0]
    /\ biller = [c \in Calls |-> "none"]
    /\ paid = {}
    /\ landed = [c \in Calls |-> FALSE]
    /\ late = {}
    /\ exposed = {}

Step(c) ==
    \/ Reserve(c)
    \/ ReadLedger(c)
    \/ Warm(c)
    \/ Retry(c)
    \/ CallBiller(c)
    \/ Commit(c)
    \/ GiveBack(c)
    \/ Invalidate(c)
    \/ Die(c)

Next ==
    \/ \E c \in Calls : Step(c)
    \/ \E u \in Users : Expire(u)

\* Redis expires keys by itself; nothing obliges a call to finish.
Spec == Init /\ [][Next]_vars /\ \A u \in Users : WF_vars(Expire(u))

----
(* Properties *)

\* Amounts stay integers: what a call read and what the cache holds are numbers, or
\* the cache has no entry; every call is at one of its steps or has ended.
TypeOK ==
    /\ balance \in [Users -> Int]
    /\ cache \in [Users -> Int \cup {NotCached}]
    /\ pc \in [Calls -> Working \cup Ended]
    /\ input \in Loads
    /\ seen \in [Calls -> Int]
    /\ biller \in [Calls -> BillerStates]
    /\ paid \subseteq Calls
    /\ landed \in [Calls -> BOOLEAN]
    /\ late \subseteq Calls
    /\ exposed \subseteq Users

\* While no entry of u was rewritten over an open reservation or with a balance
\* that a debit had overtaken, and no reservation was given back after its debit
\* had landed, everything u can still spend and everything u's calls hold is in
\* the ledger: any number of concurrent calls together never overdraw the wallet.
Bounded(u) ==
    /\ Held(u) <= balance[u]
    /\ cache[u] # NotCached => cache[u] >= 0 /\ cache[u] + Held(u) <= balance[u]

Covered == \A u \in Users \ exposed : Bounded(u)

\* A 2xx means that the money moved and a 4xx that it did not, neither in the
\* ledger nor at the biller.  Only a 5xx may leave a bill paid and not debited.
AnswersAreHonest ==
    \A c \in Calls :
        /\ pc[c] = "done" => landed[c]
        /\ pc[c] = "refused" => ~landed[c] /\ c \notin paid

\* A cache entry that shows less than the user may spend (a leaked reservation,
\* or a balance read before a credit and written after it) does not stay.
ShowsTooLittle(u) == cache[u] # NotCached /\ cache[u] + Held(u) < balance[u]

ShortfallEnds == \A u \in Users : ShowsTooLittle(u) ~> ~ShowsTooLittle(u)
=============================================================================
