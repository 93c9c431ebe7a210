------------------------------ MODULE Loyalty ------------------------------
(***************************************************************************)
(* Points, offers, and requests for money.                                 *)
(*                                                                         *)
(* Points are a ledger of their own: awards, which expire, less what was   *)
(* redeemed and what has expired.  A call is one request, or one sweep of  *)
(* ExpireStale; its stage names its next statement, or the user a sweep    *)
(* has taken points from.  Only the grant of an offer is a transaction: it *)
(* keeps a connection of the pool from its beginning to its end, and every *)
(* other statement borrows one for as long as it runs, which is a step     *)
(* that needs Room.  Fail ends a call before any of its statements: an     *)
(* error, a cancelled request or a crash.                                  *)
(***************************************************************************)
EXTENDS Integers, Sequences, FiniteSets, Functions

CONSTANTS
    Users,
    Calls,
    MayBe,          \* what each call may be: some of redeem, apply, sweep and ask
    Earned,         \* awards made before
    UserOf,         \* the user of each call and of each award
    PointsOf,       \* what each call takes or gives, and what each award gave
    PaymentOf,      \* the payment_id each call may name, None if it names none
    PayersOf,       \* whom each call may ask for money, in order
    PoolSize,       \* connections in the pool
    PerUser,        \* per_user_quota of the offer
    Total,          \* total_quota of the offer
    Absent, None

\* Awards, those included that a call may make.
Lots == Earned \cup Calls

Stages == {"new", "redeem", "count", "take", "begin", "record", "account", "commit", "expire", "ask", "done"}

ASSUME PoolIsNotEmpty == PoolSize \in Nat \ {0}
ASSUME QuotasAreNatural == PerUser \in Nat \ {0} /\ Total \in Nat /\ Absent \notin Int
ASSUME CallsHaveKinds == MayBe \in [Calls -> SUBSET {"redeem", "apply", "sweep", "ask"}]
ASSUME LotsDiffer == Earned \cap Calls = {} /\ IsFiniteSet(Lots)
ASSUME UsersAreNoStages == Users \cap Stages = {}
ASSUME LotsAreAwards == UserOf \in [Lots -> Users] /\ PointsOf \in [Lots -> Nat]
ASSUME CallsHaveBodies ==
    /\ DOMAIN PaymentOf = Calls
    /\ PayersOf \in [Calls -> Seq(Users) \ {<<>>}]

VARIABLES
    points,     \* the sum of the entries of each user
    lot,        \* of each award: none, fresh, due, or cleared once expires_at is NULL
    quota,      \* the key of the offer in Redis
    stage,
    found,      \* what each sweep has found due and not yet dealt with, by user
    asked,      \* the status of each request for money, by call and payer
    redeemed,   \* calls that have redeemed points
    granted,    \* calls that have a row in promo_redemptions
    beside,     \* history: pairs of calls that overlapped
    cut,        \* history: sweeps cut short between the two statements on a user
    expired,    \* history: how often each award was expired
    lucky,      \* history: awards that fell due while a sweep was under way
    swept,      \* history: pairs of a sweep and a user it has taken points from
    undercut,   \* history: redemptions from whose user a sweep took points after their read
    kept        \* history: whether the key has been there from the start

offerVars == <<quota, kept>>
pointVars == <<points, lot, expired, lucky, swept, undercut>>
callVars  == <<stage, found, beside, cut, redeemed, granted>>
loyaltyVars == <<offerVars, pointVars, callVars, asked>>

\* The transactions that are open, and whether the pool has a connection to lend.
Open == {c \in Calls : stage[c] \in {"record", "account", "commit"}}
Room == Cardinality(Open) < PoolSize

Goto(c, step) == stage' = [stage EXCEPT ![c] = step]

Of(u, S) == {c \in S : UserOf[c] = u}

\* Calls of each kind that have read what they decide on and have not ended.
Redeeming == {c \in Calls : stage[c] = "redeem"}
Applying  == {c \in Calls : stage[c] \in {"take", "begin", "record", "account", "commit"}}
Sweeping  == {c \in Calls : stage[c] \in {"expire"} \cup Users}

Beside(c, S) == {{c, d} : d \in S}

----
(* Redeem *)

\* Faulty variant: a redemption of one point more than there is passes.
CoversLess(c) == points[UserOf[c]] >= PointsOf[c] - 1

Covers(c) == points[UserOf[c]] >= PointsOf[c]

\* Balance.
ReadBalance(c) ==
    /\ stage[c] = "new" /\ Room
    /\ Goto(c, IF Covers(c) THEN "redeem" ELSE "done")
    /\ beside' = beside \cup Beside(c, Of(UserOf[c], Redeeming))
    /\ UNCHANGED <<offerVars, pointVars, found, cut, redeemed, granted, asked>>

\* The INSERT, which looks at the balance no more.
InsertRedeem(c) ==
    /\ stage[c] = "redeem" /\ Room
    /\ points' = [points EXCEPT ![UserOf[c]] = @ - PointsOf[c]]
    /\ redeemed' = redeemed \cup {c}
    /\ Goto(c, "done")
    /\ UNCHANGED <<offerVars, lot, expired, lucky, swept, undercut, found, beside, cut, granted, asked>>

----
(* Apply *)

\* The offer is there, it runs and the payment is large enough for it, or not.
LoadPromo(c) ==
    /\ stage[c] = "new" /\ Room
    /\ \E step \in {"count", "done"} : Goto(c, step)
    /\ UNCHANGED <<offerVars, pointVars, found, beside, cut, redeemed, granted, asked>>

\* Faulty variant: one redemption more than the offer allows.
UsedUpLate(c) == Cardinality(Of(UserOf[c], granted)) > PerUser

UsedUp(c) == Cardinality(Of(UserOf[c], granted)) >= PerUser

CountUsed(c) ==
    /\ stage[c] = "count" /\ Room
    /\ Goto(c, IF UsedUp(c) THEN "done" ELSE "take")
    /\ beside' = beside \cup Beside(c, Of(UserOf[c], Applying))
    /\ UNCHANGED <<offerVars, pointVars, found, cut, redeemed, granted, asked>>

\* takeScript: a key that is not there refuses nobody.
TakeQuota(c) ==
    /\ stage[c] = "take"
    /\ quota' = IF quota # Absent /\ quota > 0 THEN quota - 1 ELSE quota
    /\ Goto(c, IF quota # Absent /\ quota <= 0 THEN "done" ELSE "begin")
    /\ UNCHANGED <<kept, pointVars, found, beside, cut, redeemed, granted, asked>>

BeginGrant(c) ==
    /\ stage[c] = "begin" /\ Room
    /\ Goto(c, "record")
    /\ UNCHANGED <<offerVars, pointVars, found, beside, cut, redeemed, granted, asked>>

SamePayment(c, S) == {d \in S \ {c} : PaymentOf[d] # None /\ PaymentOf[d] = PaymentOf[c]}

\* Faulty variant: it waits for those too that have not inserted their row yet.
RivalsAll(c) == SamePayment(c, Open)

\* Those of the same payment whose row is there and not committed.
Rivals(c) == {d \in SamePayment(c, Open) : stage[d] \in {"account", "commit"}}

\* The unique index: a row of a transaction that is still open makes this one wait.
RecordRedemption(c) ==
    /\ stage[c] = "record"
    /\ Rivals(c) = {}
    /\ Goto(c, IF SamePayment(c, granted) # {} THEN "done" ELSE IF PointsOf[c] = 0 THEN "commit" ELSE "account")
    /\ UNCHANGED <<offerVars, pointVars, found, beside, cut, redeemed, granted, asked>>

\* account runs on the pool: the transaction waits for a second connection.
PointAccount(c) ==
    /\ stage[c] = "account" /\ Room
    /\ Goto(c, "commit")
    /\ UNCHANGED <<offerVars, pointVars, found, beside, cut, redeemed, granted, asked>>

\* award and the commit.
CommitGrant(c) ==
    /\ stage[c] = "commit"
    /\ granted' = granted \cup {c}
    /\ points' = [points EXCEPT ![UserOf[c]] = @ + PointsOf[c]]
    /\ lot' = [lot EXCEPT ![c] = IF PointsOf[c] > 0 THEN "fresh" ELSE "none"]
    /\ Goto(c, "done")
    /\ UNCHANGED <<offerVars, expired, lucky, swept, undercut, found, beside, cut, redeemed, asked>>

----
(* ExpireStale *)

Due(u) == {l \in Of(u, Lots) : lot[l] = "due"}

FindStale(s) ==
    /\ stage[s] = "new" /\ Room
    /\ found' = [found EXCEPT ![s] = [u \in Users |-> Due(u)]]
    /\ Goto(s, IF \E u \in Users : Due(u) # {} THEN "expire" ELSE "done")
    /\ beside' = beside \cup Beside(s, Sweeping)
    /\ UNCHANGED <<offerVars, pointVars, cut, redeemed, granted, asked>>

\* Minus the sum that was found.
InsertExpire(s, u) ==
    /\ stage[s] = "expire" /\ Room
    /\ found[s][u] # {}
    /\ points' = [points EXCEPT ![u] = @ - SumFunctionOnSet(PointsOf, found[s][u])]
    /\ expired' = [l \in Lots |-> expired[l] + IF l \in found[s][u] THEN 1 ELSE 0]
    /\ swept' = swept \cup {<<s, u>>}
    /\ undercut' = undercut \cup Of(u, redeemed \cup Redeeming)
    /\ stage' = [stage EXCEPT ![s] = u]
    /\ UNCHANGED <<offerVars, lot, lucky, found, beside, cut, redeemed, granted, asked>>

\* Faulty variant: awards keep their expires_at.
ClearedNone(u) == {}

\* Whatever is due by now, found or not.
Cleared(u) == Due(u)

ClearExpiry(s) ==
    LET u == stage[s] IN
    /\ u \in Users /\ Room
    /\ lot' = [l \in Lots |-> IF l \in Cleared(u) THEN "cleared" ELSE lot[l]]
    /\ found' = [found EXCEPT ![s][u] = {}]
    /\ Goto(s, IF \E v \in Users \ {u} : found[s][v] # {} THEN "expire" ELSE "done")
    /\ UNCHANGED <<offerVars, points, expired, lucky, swept, undercut, beside, cut, redeemed, granted, asked>>

----
(* RequestMoney and CreateSplit, which asks each payer in a statement of its own *)

\* Bill splits insert their own row first.
InsertSplit(c) ==
    /\ stage[c] = "new" /\ Room
    /\ Goto(c, "ask")
    /\ UNCHANGED <<offerVars, pointVars, found, beside, cut, redeemed, granted, asked>>

\* Who asks himself is refused there, whoever was asked before.  That a request is
\* attached to its split is left out.
AskNext(c) ==
    LET n == Len(asked[c]) + 1 IN
    /\ stage[c] = "ask" /\ Room
    /\ IF PayersOf[c][n] = UserOf[c]
       THEN Goto(c, "done") /\ UNCHANGED asked
       ELSE /\ asked' = [asked EXCEPT ![c] = Append(@, "pending")]
            /\ Goto(c, IF n = Len(PayersOf[c]) THEN "done" ELSE "ask")
    /\ UNCHANGED <<offerVars, pointVars, found, beside, cut, redeemed, granted>>

\* Decline, MarkPaid and ExpireStaleRequests: one guarded UPDATE each.
Decide(c, i) ==
    /\ i \in DOMAIN asked[c] /\ Room
    /\ asked[c][i] = "pending"
    /\ \E status \in {"declined", "paid", "expired"} : asked' = [asked EXCEPT ![c][i] = status]
    /\ UNCHANGED <<offerVars, pointVars, callVars>>

----
(* What happens to calls, to the key and to awards *)

Fail(c) ==
    /\ stage[c] \notin {"new", "done"}
    /\ Goto(c, "done")
    /\ cut' = IF stage[c] \in Users THEN cut \cup {c} ELSE cut
    /\ UNCHANGED <<offerVars, pointVars, found, beside, redeemed, granted, asked>>

\* The key goes at its TTL, or with Redis.
LoseKey ==
    /\ quota # Absent
    /\ quota' = Absent /\ kept' = FALSE
    /\ UNCHANGED <<pointVars, callVars, asked>>

FallDue(l) ==
    /\ lot[l] = "fresh"
    /\ lot' = [lot EXCEPT ![l] = "due"]
    /\ lucky' = IF Sweeping # {} THEN lucky \cup {l} ELSE lucky
    /\ UNCHANGED <<offerVars, points, expired, swept, undercut, callVars, asked>>

----
\* Nothing but tests seeds the key.
LoyaltyInit ==
    /\ points = [u \in Users |-> SumFunctionOnSet(PointsOf, Of(u, Earned))]
    /\ lot = [l \in Lots |-> IF l \in Earned THEN "fresh" ELSE "none"]
    /\ quota \in {Absent, Total}
    /\ stage = [c \in Calls |-> "new"]
    /\ found = [c \in Calls |-> [u \in Users |-> {}]]
    /\ asked = [c \in Calls |-> <<>>]
    /\ redeemed = {} /\ granted = {} /\ beside = {} /\ cut = {} /\ lucky = {}
    /\ swept = {} /\ undercut = {}
    /\ expired = [l \in Lots |-> 0]
    /\ kept = (quota # Absent)

RedeemStep(c) == ReadBalance(c) \/ InsertRedeem(c)
ApplyStep(c) ==
    \/ LoadPromo(c) \/ CountUsed(c) \/ TakeQuota(c) \/ BeginGrant(c)
    \/ RecordRedemption(c) \/ PointAccount(c) \/ CommitGrant(c)
SweepStep(s) == FindStale(s) \/ ClearExpiry(s) \/ \E u \in Users : InsertExpire(s, u)
AskStep(c) == InsertSplit(c) \/ AskNext(c)

\* What a call is, its first step settles.
Step(c) ==
    \/ "redeem" \in MayBe[c] /\ RedeemStep(c)
    \/ "apply" \in MayBe[c] /\ ApplyStep(c)
    \/ "sweep" \in MayBe[c] /\ SweepStep(c)
    \/ "ask" \in MayBe[c] /\ AskStep(c)

LoyaltyNext ==
    \/ \E c \in Calls : Step(c) \/ Fail(c) \/ \E i \in DOMAIN asked[c] : Decide(c, i)
    \/ \E l \in Lots : FallDue(l)
    \/ LoseKey

\* The pool lends its connections in the order in which they were asked for: who asks
\* again and again while there are some gets one.
Fairness == \A c \in Calls : SF_loyaltyVars(stage[c] # "new" /\ Step(c))

LoyaltySpec == LoyaltyInit /\ [][LoyaltyNext]_loyaltyVars /\ Fairness

----
(* Properties *)

\* The entries add up to whole numbers, and awards that were never made do not expire.
LoyaltyTypeOK ==
    /\ points \in [Users -> Int]
    /\ lot \in [Lots -> {"none", "fresh", "due", "cleared"}]
    /\ quota \in Nat \cup {Absent} /\ kept \in BOOLEAN
    /\ stage \in [Calls -> Stages \cup Users]
    /\ found \in [Calls -> [Users -> SUBSET Lots]]
    /\ \A c \in Calls : Len(asked[c]) <= Len(PayersOf[c])
    /\ redeemed \subseteq Calls /\ granted \subseteq Calls /\ undercut \subseteq Calls
    /\ cut \subseteq Calls /\ swept \subseteq Calls \X Users /\ lucky \subseteq Lots
    /\ expired \in [Lots -> Nat]

\* What sweeps have taken of each award beyond what it gave.
TakenTwice == [l \in Lots |-> IF expired[l] > 1 THEN (expired[l] - 1) * PointsOf[l] ELSE 0]

\* The redemptions of a user that overlapped another one of his, or that a sweep which
\* took points from him came after: awards expire in full, spent or not.
Excused(u) ==
    {c \in Of(u, redeemed) : c \in undercut \/ \E d \in Of(u, redeemed) \ {c} : {c, d} \in beside}

\* Points are spent once: a user owes at most what he redeemed in those calls, and what
\* sweeps took twice of his awards.  Other redemptions never take him below zero, after
\* a sweep as before it.
OverdrawnHasCause ==
    \A u \in Users :
        points[u] + SumFunctionOnSet(PointsOf, Excused(u)) + SumFunctionOnSet(TakenTwice, Of(u, Lots)) >= 0

\* An award expires once, and none goes free: except that two sweeps at once, or one
\* cut short between its two statements, take it twice, and that one which falls due
\* during a sweep is cleared and never taken.
AwardsExpireOnce ==
    \A l \in Lots :
        /\ expired[l] > 1 => cut # {} \/ \E s, t \in Calls :
              {<<s, UserOf[l]>>, <<t, UserOf[l]>>} \subseteq swept /\ s # t /\ {s, t} \in beside
        /\ lot[l] = "cleared" => expired[l] > 0 \/ l \in lucky

\* The offer keeps to its limits: no payment earns it twice; a user has it more often
\* than PerUser only by calls that overlapped; and it is granted at most Total times
\* if its key is in Redis from the start and stays there.
OfferHolds ==
    /\ \A c \in granted : SamePayment(c, granted) = {}
    /\ \A u \in Users : Cardinality(Of(u, granted)) > PerUser =>
          \E c, d \in Of(u, granted) : c # d /\ {c, d} \in beside
    /\ kept => Cardinality(granted) <= Total

\* Every connection is kept by a grant that waits for another one, or for the row of
\* one that does.
Starved ==
    /\ ~Room
    /\ \A c \in Open :
          \/ stage[c] = "account"
          \/ stage[c] = "record" /\ \E d \in Rivals(c) : stage[d] = "account"

\* A call that has begun ends, unless the pool is starved: failures give connections
\* back, and transactions wait for nothing else.
CallsEndUnlessStarved ==
    \A c \in Calls : (stage[c] \notin {"new", "done"}) ~> (stage[c] = "done" \/ Starved)

\* "More clients than pooled connections | every request queues; throughput falls
\* while latency climbs" (ARCHITECTURE.md): requests slow down, and are served.
CallsEnd == \A c \in Calls : (stage[c] \notin {"new", "done"}) ~> (stage[c] = "done")
=============================================================================
