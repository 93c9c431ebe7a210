------------------------------- MODULE Payouts -------------------------------
(***************************************************************************)
(* Paying merchants: Settle sends a payout to the merchant's bank at once  *)
(* or leaves it to the day's batch, and RunBatch sends what waits of a day, *)
(* one transfer for each merchant.                                         *)
(*                                                                         *)
(* Both send before they write.  Settle reads how much of the platform's   *)
(* money is out, sends, and inserts the payout's row with its posting in a *)
(* transaction that begins afterwards.  RunBatch reads the rows that wait, *)
(* sends their sum, and marks what waits by then.  No row is locked, so    *)
(* settlements and runs interleave at every step.                          *)
(*                                                                         *)
(* A rail moves the money, or does not, and answers independently of it:   *)
(* the sender may be left not knowing.                                     *)
(***************************************************************************)
EXTENDS Integers, FiniteSets

CONSTANTS
    Settlements,  \* calls of Settle, each with the id of its payout
    Runs,         \* calls of RunBatch
    Merchants,    \* numbered in the order of merchant_id
    Limit,        \* of the float, none if it is not positive
    MaxGross,     \* bound on the amount of a payout
    LastDay,      \* bound on the days that pass
    Loads         \* what the calls are asked to do, one function for each load

\* Basis points of a share.
Bps == 0..10000

\* risky: the merchant's score is below the instant floor.  exposed: its row of
\* merchant_exposure, which nothing in the program writes, has no room for the payout.
\* rail: the process was given a rail, and so Select returns one.
Input ==
    [kind : {"settle"}, merchant : Merchants, gross : 1..MaxGross, bps : Bps,
     risky : BOOLEAN, exposed : BOOLEAN, rail : BOOLEAN]
    \cup [kind : {"run"}, day : 1..LastDay, rail : BOOLEAN]

Actors == Settlements \cup Runs

ASSUME ActorsFinite == IsFiniteSet(Actors)
ASSUME RunsSettleNothing == Settlements \cap Runs = {}
ASSUME MerchantsAreNumbers == Merchants \subseteq Nat
ASSUME LimitIsInt == Limit \in Int
ASSUME MaxGrossIsNat == MaxGross \in Nat
ASSUME LastDayIsDay == LastDay \in Nat \ {0}
ASSUME LoadsAreInputs ==
    Loads \subseteq {load \in [Actors -> Input] :
        \A a \in Actors : load[a].kind = IF a \in Settlements THEN "settle" ELSE "run"}

VARIABLES
    input,    \* what each call was asked to do
    pc,       \* what each call does next, or how it ended
    today,
    mode,     \* payouts.mode, as Settle decided it
    verdict,  \* the status a call writes in its next transaction
    status,   \* payouts.status, none before the row is there
    created,  \* payouts.created_at by its day, 0 before the transaction began
    old,      \* payouts created longer ago than the collection window
    posted,   \* payouts with a posting in the ledger
    group,    \* the payouts each run has read for each merchant
    batch,    \* settlement_batches: status and payouts, by merchant and day
    told,     \* the BatchResult a run builds: the status for each merchant
    bank,     \* the transfers that moved money, by call and merchant
    before    \* history: the calls that had ended when a run, or a call that pays at once,
              \* read the payouts

settleVars == <<mode, created, posted>>
runVars    == <<group, batch, told>>
vars == <<input, pc, today, verdict, status, old, bank, before, settleVars, runVars>>

Working == {"decide", "send", "begin", "commit", "group", "sendBatch", "persistBatch"}

\* done: a result was returned; unknown: an error, or the call never returned.
Ended == {"done", "unknown"}

Merchant(s) == input[s].merchant

Move(a, p) == pc' = [pc EXCEPT ![a] = p]

\* The transaction of a has committed; the acknowledgement may be lost.
Committed(a, next) == Move(a, next) \/ Move(a, "unknown")

Reading(a, others) == before' = [before EXCEPT ![a] = {b \in others : pc[b] \in Ended}]

----
(* Rails *)

\* Whether the money moved, and the error the sender sees: a lost or a second callback
\* makes no difference to it.
Outcomes == {
    [moved |-> TRUE,  error |-> "none"],
    [moved |-> TRUE,  error |-> "ambiguous"],
    [moved |-> FALSE, error |-> "timeout"],
    [moved |-> FALSE, error |-> "rejected"] }

Verdict == [none |-> "settled", ambiguous |-> "sending", timeout |-> "sending", rejected |-> "failed"]

\* Call a sends to m, and knows the answer.
Transfer(a, m) ==
    \E o \in Outcomes :
        /\ bank' = IF o.moved THEN bank \cup {<<a, m>>} ELSE bank
        /\ verdict' = [verdict EXCEPT ![a] = Verdict[o.error]]

----
(* Settle *)

\* money.FeeHalfUp
Fee(gross, bps) == (gross * bps + 5000) \div 10000

Net(s) == input[s].gross - Fee(input[s].gross, input[s].bps)

\* SUM(net_minor): one pair per unit of money.
Sum(payouts) == Cardinality({u \in payouts \X (1..MaxGross) : u[2] <= Net(u[1])})

\* Faulty variant: what is still on its way is not counted.
OnFloatSettled(s) == mode[s] = "instant" /\ status[s] = "settled" /\ s \notin old

OnFloat(s) == mode[s] = "instant" /\ status[s] \in {"queued", "sending", "settled"} /\ s \notin old

Utilisation(outstanding) == IF Limit > 0 THEN (outstanding * 10000) \div Limit ELSE 0

DegradeAllBps      == 8500
DegradeHighRiskBps == 7000
HighRiskHoldbackBps == 1000

\* ModeFor lets a payout go out at once.
Instant(utilisation, bps) ==
    /\ utilisation < DegradeAllBps
    /\ utilisation < DegradeHighRiskBps \/ bps <= HighRiskHoldbackBps

Decide(s) ==
    LET utilisation == Utilisation(Sum({q \in Settlements : OnFloat(q)}))
        atOnce == /\ Instant(utilisation, input[s].bps)
                  /\ ~input[s].risky /\ ~input[s].exposed /\ input[s].rail
    IN
    /\ pc[s] = "decide"
    /\ mode' = [mode EXCEPT ![s] = IF atOnce THEN "instant" ELSE "batch"]
    /\ \/ atOnce /\ Reading(s, Settlements) /\ Move(s, "send") /\ UNCHANGED verdict
       \/ /\ ~atOnce /\ Move(s, "begin") /\ UNCHANGED before
          /\ verdict' = [verdict EXCEPT ![s] = "degraded_to_batch"]
    /\ UNCHANGED <<input, today, status, old, bank, created, posted, runVars>>

Send(s) ==
    /\ pc[s] = "send"
    /\ Transfer(s, Merchant(s))
    /\ Move(s, "begin")
    /\ UNCHANGED <<input, today, status, old, before, settleVars, runVars>>

\* created_at is the time at which the transaction begins.
Begin(s) ==
    /\ pc[s] = "begin"
    /\ created' = [created EXCEPT ![s] = today]
    /\ Move(s, "commit")
    /\ UNCHANGED <<input, today, verdict, status, old, bank, before, mode, posted, runVars>>

\* Faulty variant: only what has certainly arrived is posted.
PostsSettled(v) == v = "settled"

Posts(v) == v \in {"settled", "sending"}

\* The posting, the payout's row with its transition, and its holdback.
Commit(s) ==
    /\ pc[s] = "commit"
    /\ \/ /\ status' = [status EXCEPT ![s] = verdict[s]]
          /\ posted' = IF Posts(verdict[s]) THEN posted \cup {s} ELSE posted
          /\ Committed(s, "done")
       \/ Move(s, "unknown") /\ UNCHANGED <<status, posted>>
    /\ UNCHANGED <<input, today, verdict, old, bank, before, mode, created, runVars>>

----
(* RunBatch *)

Waiting(m, day) ==
    {s \in Settlements : Merchant(s) = m /\ created[s] = day /\ status[s] = "degraded_to_batch"}

\* The merchants the run has still to go through, in their order.
Remaining(r) == {m \in Merchants : group[r][m] # {} /\ told[r][m] = "none"}

IsNext(r, m) == m \in Remaining(r) /\ \A n \in Remaining(r) : m <= n

Group(r) ==
    LET groups == [m \in Merchants |-> Waiting(m, input[r].day)] IN
    /\ pc[r] = "group"
    /\ Reading(r, Actors)
    /\ group' = [group EXCEPT ![r] = groups]
    /\ Move(r, IF \A m \in Merchants : groups[m] = {} THEN "done" ELSE "sendBatch")
    /\ UNCHANGED <<input, today, verdict, status, old, bank, settleVars, batch, told>>

SendBatch(r) ==
    /\ pc[r] = "sendBatch"
    /\ \/ input[r].rail /\ \E m \in Merchants : IsNext(r, m) /\ Transfer(r, m)
       \/ ~input[r].rail /\ verdict' = [verdict EXCEPT ![r] = "failed"] /\ UNCHANGED bank
    /\ Move(r, "persistBatch")
    /\ UNCHANGED <<input, today, status, old, before, settleVars, runVars>>

\* Faulty variant: the batch is settled and its payouts go on waiting.
MarkNothing(m, day) == UNCHANGED status

\* UPDATE payouts ... WHERE status = 'degraded_to_batch', whether or not the run has read them.
MarkSettled(m, day) ==
    status' = [s \in Settlements |-> IF s \in Waiting(m, day) THEN "settled" ELSE status[s]]

\* Faulty variant: whatever was sent is taken for settled.
SettlesAnyway(v) == TRUE

Settles(v) == v = "settled"

\* INSERT ... ON CONFLICT DO UPDATE of the batch, and its payouts if it is settled.
PersistBatch(r) ==
    LET day == input[r].day IN
    /\ pc[r] = "persistBatch"
    /\ \/ \E m \in Merchants :
             /\ IsNext(r, m)
             /\ batch' = [batch EXCEPT ![m][day] = [status |-> verdict[r], payouts |-> group[r][m]]]
             /\ told' = [told EXCEPT ![r][m] = verdict[r]]
             /\ \/ Settles(verdict[r]) /\ MarkSettled(m, day)
                \/ ~Settles(verdict[r]) /\ UNCHANGED status
             /\ Committed(r, IF Remaining(r) = {m} THEN "done" ELSE "sendBatch")
       \/ Move(r, "unknown") /\ UNCHANGED <<status, batch, told>>
    /\ UNCHANGED <<input, today, verdict, old, bank, before, settleVars, group>>

----
Die(a) ==
    /\ pc[a] \in Working
    /\ Move(a, "unknown")
    /\ UNCHANGED <<input, today, verdict, status, old, bank, before, settleVars, runVars>>

\* The collection window of a payout of an earlier day has passed.
Age(s) ==
    /\ created[s] # 0 /\ created[s] < today /\ s \notin old
    /\ old' = old \cup {s}
    /\ UNCHANGED <<input, pc, today, verdict, status, bank, before, settleVars, runVars>>

\* The window is a day: what was created before today has left it when today ends.
NextDay ==
    /\ today < LastDay
    /\ \A s \in Settlements : created[s] # 0 /\ created[s] < today => s \in old
    /\ today' = today + 1
    /\ UNCHANGED <<input, pc, verdict, status, old, bank, before, settleVars, runVars>>

Init ==
    /\ input \in Loads
    /\ pc = [a \in Actors |-> IF a \in Settlements THEN "decide" ELSE "group"]
    /\ today = 1
    /\ mode = [s \in Settlements |-> "none"]
    /\ verdict = [a \in Actors |-> "none"]
    /\ status = [s \in Settlements |-> "none"]
    /\ created = [s \in Settlements |-> 0]
    /\ old = {}
    /\ posted = {}
    /\ group = [r \in Runs |-> [m \in Merchants |-> {}]]
    /\ batch = [m \in Merchants |-> [d \in 1..LastDay |-> [status |-> "none", payouts |-> {}]]]
    /\ told = [r \in Runs |-> [m \in Merchants |-> "none"]]
    /\ bank = {}
    /\ before = [a \in Actors |-> {}]

Settle(s) == Decide(s) \/ Send(s) \/ Begin(s) \/ Commit(s)

RunBatch(r) == Group(r) \/ SendBatch(r) \/ PersistBatch(r)

Next ==
    \/ \E s \in Settlements : Settle(s) \/ Age(s)
    \/ \E r \in Runs : RunBatch(r)
    \/ \E a \in Actors : Die(a)
    \/ NextDay

Spec == Init /\ [][Next]_vars

----
(* Properties *)

\* No call writes "queued", and a payout is degraded, or sent and known to be.
TypeOK ==
    /\ input \in Loads
    /\ pc \in [Actors -> Working \cup Ended]
    /\ today \in 1..LastDay
    /\ mode \in [Settlements -> {"none", "instant", "batch"}]
    /\ verdict \in [Actors -> {"none", "sending", "settled", "failed", "degraded_to_batch"}]
    /\ \A r \in Runs : verdict[r] # "degraded_to_batch"
    /\ status \in [Settlements -> {"none", "sending", "settled", "failed", "degraded_to_batch"}]
    /\ created \in [Settlements -> 0..LastDay]
    /\ old \subseteq Settlements
    /\ posted \subseteq Settlements
    /\ group \in [Runs -> [Merchants -> SUBSET Settlements]]
    /\ batch \in [Merchants -> [1..LastDay ->
          [status : {"none", "sending", "settled", "failed"}, payouts : SUBSET Settlements]]]
    /\ told \in [Runs -> [Merchants -> {"none", "sending", "settled", "failed"}]]
    /\ bank \subseteq Actors \X Merchants
    /\ before \in [Actors -> SUBSET Actors]

\* Transfer x has paid payout s.
Pays(x, s) == IF x[1] \in Runs THEN s \in group[x[1]][x[2]] ELSE x[1] = s

\* What is settled has been paid, but for payouts that came into a day while a run that
\* settled it was under way; what has failed has not been paid.  A payout sent at once
\* is in the ledger when Settle has returned, and nothing else is.
RowsAreTrue ==
    \A s \in Settlements :
        /\ status[s] = "settled" =>
              \E x \in bank : \/ Pays(x, s)
                              \/ /\ x[1] \in Runs /\ x[2] = Merchant(s)
                                 /\ input[x[1]].day = created[s] /\ s \notin before[x[1]]
        /\ status[s] = "failed" => \A x \in bank : ~Pays(x, s)
        /\ <<s, Merchant(s)>> \in bank /\ pc[s] = "done" => s \in posted
        /\ s \in posted => mode[s] = "instant" /\ status[s] \in {"sending", "settled"}

\* A payout is paid twice only by two runs, the first of which had not returned that it
\* was settled when the second read what waits.
PaidTwiceNeedsDoubt ==
    \A s \in Settlements : \A x, y \in bank :
        Pays(x, s) /\ Pays(y, s) /\ x # y =>
            /\ x[1] \in Runs /\ y[1] \in Runs
            /\ ~(x[1] \in before[y[1]] /\ pc[x[1]] = "done" /\ told[x[1]][Merchant(s)] = "settled")

\* Settlements made one after the other keep to the thresholds of the float: what goes
\* out at once found them kept by the payouts in the ledger that were made before it.
FloatInTurn ==
    \A s \in posted :
        LET outstanding == Sum((posted \cap before[s]) \ old) IN
        Instant(Utilisation(outstanding), input[s].bps)

\* Two runs of a day, of which neither had ended when the other read its payouts.
Overlapped(q, r) ==
    /\ q # r
    /\ input[q].day = input[r].day
    /\ q \notin before[r] /\ r \notin before[q]

\* A batch that has not settled leaves its payouts waiting, whatever its own transfer
\* did, unless the run that wrote it overlapped another one, which had sent and settled
\* them.
UnsettledBatchConsumesNothing ==
    \A m \in Merchants, d \in 1..LastDay : batch[m][d].status \in {"sending", "failed"} =>
        \A s \in batch[m][d].payouts :
            \/ status[s] = "degraded_to_batch"
            \/ \E q, r \in Runs :
                  /\ input[r].day = d
                  /\ batch[m][d] = [status |-> told[r][m], payouts |-> group[r][m]]
                  /\ <<q, m>> \in bank /\ told[q][m] = "settled"
                  /\ Overlapped(q, r)
=============================================================================
