---------------------------- MODULE WalletProofs ----------------------------
(***************************************************************************)
(* For any number of users and calls, any loads and any opening balances:  *)
(* the types of Wallet, that the reservations never promise more than the  *)
(* ledger holds (Covered), and that the answers are honest.  And, for      *)
(* every amount, rate and list of rails, the sums of Books.                *)
(***************************************************************************)
EXTENDS Wallet, Books, FiniteSetTheorems, TLAPS

----
(* The inductive invariant *)

\* The steps of a debit before its transaction or its refusal.
Early == {"reserve", "read", "warm", "retry", "bill"}

\* What the program counter of a call says of its effects.
Progress(c) ==
    /\ pc[c] \in Early => IsDebit(c) /\ biller[c] = "none" /\ c \notin paid
    /\ pc[c] \in Early \cup {"commit"} => ~landed[c]
    /\ pc[c] = "giveback" => IsDebit(c)
    /\ pc[c] = "bill" => input[c].kind = "bill"
    /\ c \in paid => input[c].kind = "bill" /\ biller[c] # "failed"
    /\ biller[c] = "failed" => ~landed[c] /\ pc[c] \in {"giveback", "refused", "unknown"}
    /\ pc[c] \in {"invalidate", "done"} => landed[c]
    /\ pc[c] = "refused" => ~landed[c] /\ c \notin paid

ProgressInv == \A c \in Calls : Progress(c)

\* A balance on its way into the cache is not above the ledger's, unless a debit
\* has landed since it was read, and is not negative for a wallet that is bounded.
SeenOK(c) ==
    pc[c] = "warm" /\ c \notin late =>
        /\ seen[c] <= balance[Payer(c)]
        /\ Payer(c) \notin exposed => seen[c] >= 0

SeenInv == \A c \in Calls : SeenOK(c)

IInv == TypeOK /\ ProgressInv /\ SeenInv /\ Covered

----
(* Counting what is held *)

\* The units one call contributes to HeldUnits when it holds an amount a.
Units(c, a) == {p \in Calls \X (1..MaxAmount) : p[1] = c /\ p[2] <= a}

\* A call that holds a adds exactly a units, whatever the others hold.
LEMMA UnitsAreFinite == IsFiniteSet(Calls \X (1..MaxAmount))
<1>1. IsFiniteSet(1..MaxAmount)
  BY MaxAmountIsNat, FS_Interval
<1> QED
  BY <1>1, CallsFinite, FS_Product

LEMMA UnitsCounted ==
    ASSUME NEW c \in Calls, NEW a \in 1..MaxAmount,
           NEW S \in SUBSET (Calls \X (1..MaxAmount)), S \cap Units(c, a) = {}
    PROVE  /\ Cardinality(S) \in Nat
           /\ Cardinality(S \cup Units(c, a)) = Cardinality(S) + a
<1> USE MaxAmountIsNat
<1>1. IsFiniteSet(Calls \X (1..MaxAmount))
  BY UnitsAreFinite
<1>2. IsFiniteSet(S) /\ Cardinality(S) \in Nat
  BY <1>1, FS_Subset, FS_CardinalityType
<1>3. Units(c, a) = {c} \X (1..a)
  BY DEF Units
<1>4. IsFiniteSet({c}) /\ Cardinality({c}) = 1
  BY FS_Singleton
<1>5. IsFiniteSet(1..a) /\ Cardinality(1..a) = a
  BY FS_Interval
<1>6. IsFiniteSet(Units(c, a)) /\ Cardinality(Units(c, a)) = 1 * a
  BY <1>3, <1>4, <1>5, FS_Product
<1>7. Cardinality(S \cap Units(c, a)) = 0
  BY FS_EmptySet
<1>8. Cardinality(S \cup Units(c, a)) = Cardinality(S) + Cardinality(Units(c, a)) - Cardinality(S \cap Units(c, a))
  BY <1>2, <1>6, FS_Union
<1> QED
  BY <1>2, <1>6, <1>7, <1>8

LEMMA HeldIsNat ==
    ASSUME NEW u
    PROVE  Held(u) \in Nat /\ IsFiniteSet(HeldUnits(u))
BY UnitsAreFinite, FS_Subset, FS_CardinalityType DEF Held, HeldUnits

\* The types of what a call is asked to do.
LEMMA InputTypes ==
    ASSUME TypeOK, NEW c \in Calls
    PROVE  /\ Amount(c) \in 1..MaxAmount
           /\ Payer(c) \in Users /\ Payee(c) \in Users
           /\ input[c].kind \in Debits \cup Credits
           /\ input[c].kind = "transfer" <=> Payer(c) # Payee(c)
BY LoadsAreInputs DEF TypeOK, Input, Amount, Payer, Payee

\* What a step of call c that moves only c does to the sum of u's reservations.
LEMMA HeldStep ==
    ASSUME TypeOK, NEW c \in Calls, NEW p, NEW u,
           pc' = [pc EXCEPT ![c] = p],
           input' = input,
           \A q \in Calls \ {c} : landed'[q] = landed[q]
    PROVE  /\ (Holds(c, u)' <=> Holds(c, u)) => Held(u)' = Held(u)
           /\ Holds(c, u)' /\ ~Holds(c, u) => Held(u)' = Held(u) + Amount(c)
           /\ ~Holds(c, u)' /\ Holds(c, u) => Held(u)' = Held(u) - Amount(c)
<1>1. \A q \in Calls : Amount(q)' = Amount(q)
  BY DEF Amount
<1>2. \A q \in Calls \ {c} : Holds(q, u)' <=> Holds(q, u)
  BY DEF Holds, IsDebit, Payer, TypeOK
<1>3. Amount(c) \in 1..MaxAmount /\ Amount(c) \in Nat
  BY InputTypes, MaxAmountIsNat
<1> DEFINE A == Units(c, Amount(c))
<1>4. CASE Holds(c, u)' <=> Holds(c, u)
  <2>1. HeldUnits(u)' = HeldUnits(u)
    BY <1>1, <1>2, <1>4 DEF HeldUnits
  <2> QED
    BY <1>4, <2>1 DEF Held
<1>5. CASE Holds(c, u)' /\ ~Holds(c, u)
  <2>1. HeldUnits(u) \in SUBSET (Calls \X (1..MaxAmount)) /\ HeldUnits(u) \cap A = {}
    BY <1>5 DEF HeldUnits, Units
  <2>2. HeldUnits(u)' = HeldUnits(u) \cup A
    BY <1>1, <1>2, <1>5 DEF HeldUnits, Units
  <2>3. Cardinality(HeldUnits(u) \cup A) = Cardinality(HeldUnits(u)) + Amount(c)
    BY <1>3, <2>1, UnitsCounted
  <2> QED
    BY <1>5, <2>2, <2>3 DEF Held
<1>6. CASE ~Holds(c, u)' /\ Holds(c, u)
  <2>1. HeldUnits(u)' \in SUBSET (Calls \X (1..MaxAmount)) /\ HeldUnits(u)' \cap A = {}
    BY <1>6 DEF HeldUnits, Units
  <2>2. HeldUnits(u) = HeldUnits(u)' \cup A
    BY <1>1, <1>2, <1>6 DEF HeldUnits, Units
  <2>3. /\ Cardinality(HeldUnits(u)') \in Nat
        /\ Cardinality(HeldUnits(u)' \cup A) = Cardinality(HeldUnits(u)') + Amount(c)
    BY <1>3, <2>1, UnitsCounted
  <2>4. Held(u)' = Cardinality(HeldUnits(u)') /\ Held(u) = Cardinality(HeldUnits(u)') + Amount(c)
    BY <2>2, <2>3 DEF Held
  <2> QED
    BY <1>3, <1>6, <2>3, <2>4
<1> QED
  BY <1>4, <1>5, <1>6

----
(* Types *)

LEMMA TypeInit == Init => TypeOK
<1> SUFFICES ASSUME Init PROVE TypeOK
  OBVIOUS
<1>1. balance \in [Users -> Int]
  BY OpeningIsNat DEF Init
<1> QED
  BY <1>1 DEF Init, TypeOK, Working, Ended, BillerStates, Debits

LEMMA TypeStep == TypeOK /\ [Next]_vars => TypeOK'
<1> SUFFICES ASSUME TypeOK, [Next]_vars PROVE TypeOK'
  OBVIOUS
<1> USE DEF TypeOK, Move, Working, Ended
<1>1. ASSUME NEW c \in Calls, NEW next \in Working \cup Ended, TryReserve(c, next) PROVE TypeOK'
  <2> Payer(c) \in Users /\ Amount(c) \in Int
    BY InputTypes, MaxAmountIsNat
  <2> QED
    BY <1>1, NotCachedIsNoAmount DEF TryReserve
<1>2. ASSUME NEW c \in Calls, Reserve(c) PROVE TypeOK'
  BY <1>1, <1>2 DEF Reserve
<1>3. ASSUME NEW c \in Calls, ReadLedger(c) PROVE TypeOK'
  BY <1>3, InputTypes DEF ReadLedger
<1>4. ASSUME NEW c \in Calls, Warm(c) PROVE TypeOK'
  BY <1>4, InputTypes DEF Warm
<1>5. ASSUME NEW c \in Calls, Retry(c) PROVE TypeOK'
  BY <1>1, <1>5 DEF Retry
<1>6. ASSUME NEW c \in Calls, CallBiller(c) PROVE TypeOK'
  BY <1>6 DEF CallBiller, Answers, BillerStates
<1>7. ASSUME NEW c \in Calls, Commit(c) PROVE TypeOK'
  <2>1. \A u \in Users : Delta(c, u) \in Int
    BY InputTypes, MaxAmountIsNat DEF Delta
  <2>2. Post(c) => /\ balance' \in [Users -> Int]
                   /\ late' \subseteq Calls
                   /\ landed' \in [Calls -> BOOLEAN]
    <3>1. \A u \in Users : balance[u] + Delta(c, u) \in Int
      BY <2>1
    <3>2. Post(c) => balance' \in [Users -> Int]
      BY <3>1, Zenon DEF Post
    <3> QED
      BY <3>2 DEF Post
  <2>3. pc' \in [Calls -> Working \cup Ended]
    BY <1>7 DEF Commit, Post, AfterError
  <2> QED
    BY <1>7, <2>2, <2>3, Zenon DEF Commit
<1>8. ASSUME NEW c \in Calls, GiveBack(c) PROVE TypeOK'
  <2> Payer(c) \in Users /\ Amount(c) \in Int
    BY InputTypes, MaxAmountIsNat
  <2> QED
    BY <1>8, NotCachedIsNoAmount DEF GiveBack
<1>9. ASSUME NEW c \in Calls, Invalidate(c) PROVE TypeOK'
  BY <1>9, InputTypes DEF Invalidate
<1>10. ASSUME NEW c \in Calls, Die(c) PROVE TypeOK'
  BY <1>10 DEF Die
<1>11. ASSUME NEW u \in Users, Expire(u) PROVE TypeOK'
  BY <1>11 DEF Expire
<1>12. CASE UNCHANGED vars
  BY <1>12 DEF vars
<1> QED
  BY <1>2, <1>3, <1>4, <1>5, <1>6, <1>7, <1>8, <1>9, <1>10, <1>11, <1>12 DEF Next, Step

\* Every reachable state is well typed: a cache entry is an amount or absent, and
\* the balance a call carries from the ledger to the cache is an amount.
THEOREM TypeCorrect == Spec => []TypeOK
BY TypeInit, TypeStep, PTL DEF Spec

----
(* Answers *)

LEMMA ProgressInit == Init => ProgressInv
<1> SUFFICES ASSUME Init, NEW c \in Calls PROVE Progress(c)
  BY DEF ProgressInv
<1> QED
  BY DEF Init, Progress, Early, IsDebit

LEMMA ProgressStep == TypeOK /\ ProgressInv /\ [Next]_vars => ProgressInv'
<1> SUFFICES ASSUME TypeOK, ProgressInv, [Next]_vars, NEW d \in Calls
             PROVE  Progress(d)'
  BY DEF ProgressInv
<1> Progress(d)
  BY DEF ProgressInv
<1> USE DEF TypeOK, Move, Progress, Early, IsDebit, Payer
<1>1. ASSUME NEW c \in Calls, NEW next \in {"read", "unknown"}, pc[c] \in Early, TryReserve(c, next)
      PROVE  Progress(d)'
  <2> Progress(c)
    BY DEF ProgressInv
  <2> QED
    BY <1>1 DEF TryReserve
<1>2. ASSUME NEW c \in Calls, Reserve(c) PROVE Progress(d)'
  BY <1>1, <1>2 DEF Reserve
<1>3. ASSUME NEW c \in Calls, ReadLedger(c) PROVE Progress(d)'
  BY <1>3 DEF ReadLedger
<1>4. ASSUME NEW c \in Calls, Warm(c) PROVE Progress(d)'
  BY <1>4 DEF Warm
<1>5. ASSUME NEW c \in Calls, Retry(c) PROVE Progress(d)'
  BY <1>1, <1>5 DEF Retry
<1>6. ASSUME NEW c \in Calls, CallBiller(c) PROVE Progress(d)'
  BY <1>6 DEF CallBiller, Answers
<1>7. ASSUME NEW c \in Calls, Commit(c) PROVE Progress(d)'
  BY <1>7 DEF Commit, Post, AfterError
<1>8. ASSUME NEW c \in Calls, GiveBack(c) PROVE Progress(d)'
  BY <1>8 DEF GiveBack, MayRefuse
<1>9. ASSUME NEW c \in Calls, Invalidate(c) PROVE Progress(d)'
  BY <1>9 DEF Invalidate
<1>10. ASSUME NEW c \in Calls, Die(c) PROVE Progress(d)'
  BY <1>10 DEF Die
<1>11. ASSUME NEW u \in Users, Expire(u) PROVE Progress(d)'
  BY <1>11 DEF Expire
<1>12. CASE UNCHANGED vars
  BY <1>12 DEF vars
<1> QED
  BY <1>2, <1>3, <1>4, <1>5, <1>6, <1>7, <1>8, <1>9, <1>10, <1>11, <1>12 DEF Next, Step

\* A 2xx is given only for money that moved, and a 4xx only when none did, at the
\* biller included, however the commit and its acknowledgement fare.
THEOREM HonestAnswers == Spec => []AnswersAreHonest
<1>1. ProgressInv => AnswersAreHonest
  BY DEF ProgressInv, Progress, AnswersAreHonest
<1> QED
  BY <1>1, TypeInit, TypeStep, ProgressInit, ProgressStep, PTL DEF Spec

----
(* Reservations *)

LEMMA SeenInit == Init => SeenInv
<1> SUFFICES ASSUME Init, NEW c \in Calls PROVE SeenOK(c)
  BY DEF SeenInv
<1> QED
  BY DEF Init, SeenOK

LEMMA SeenStep == IInv /\ [Next]_vars => SeenInv'
<1> SUFFICES ASSUME IInv, [Next]_vars, NEW d \in Calls
             PROVE  SeenOK(d)'
  BY DEF SeenInv
<1> SeenOK(d) /\ TypeOK
  BY DEF SeenInv, IInv
<1> Payer(d) \in Users
  BY InputTypes
<1> USE DEF TypeOK, Move, SeenOK, Payer
<1>1. ASSUME NEW c \in Calls, NEW next \in {"read", "unknown"}, TryReserve(c, next)
      PROVE  SeenOK(d)'
  BY <1>1 DEF TryReserve
<1>2. ASSUME NEW c \in Calls, Reserve(c) PROVE SeenOK(d)'
  BY <1>1, <1>2 DEF Reserve
<1>3. ASSUME NEW c \in Calls, ReadLedger(c) PROVE SeenOK(d)'
  <2>1. CASE c = d
    <3>1. Payer(d) \notin exposed => balance[Payer(d)] >= 0
      BY HeldIsNat DEF IInv, Covered, Bounded
    <3> QED
      BY <1>3, <2>1, <3>1 DEF ReadLedger
  <2>2. CASE c # d
    BY <1>3, <2>2 DEF ReadLedger
  <2> QED
    BY <2>1, <2>2
<1>4. ASSUME NEW c \in Calls, Warm(c) PROVE SeenOK(d)'
  BY <1>4 DEF Warm
<1>5. ASSUME NEW c \in Calls, Retry(c) PROVE SeenOK(d)'
  BY <1>1, <1>5 DEF Retry
<1>6. ASSUME NEW c \in Calls, CallBiller(c) PROVE SeenOK(d)'
  BY <1>6 DEF CallBiller
<1>7. ASSUME NEW c \in Calls, Commit(c) PROVE SeenOK(d)'
  <2>1. CASE Post(c)
    <3>1. pc'[d] = "warm" => pc[d] = "warm"
      BY <1>7 DEF Commit, AfterError
    <3>2. pc[d] = "warm" /\ d \notin late' => d \notin late /\ Delta(c, Payer(d)) >= 0
      BY <2>1, InputTypes, MaxAmountIsNat DEF Post, Delta
    <3>3. Delta(c, Payer(d)) \in Int
      BY InputTypes, MaxAmountIsNat DEF Delta
    <3>4. balance'[Payer(d)] = balance[Payer(d)] + Delta(c, Payer(d))
      BY <2>1 DEF Post
    <3> QED
      BY <1>7, <3>1, <3>2, <3>3, <3>4 DEF Commit
  <2>2. CASE ~Post(c)
    BY <1>7, <2>2 DEF Commit, AfterError
  <2> QED
    BY <2>1, <2>2
<1>8. ASSUME NEW c \in Calls, GiveBack(c) PROVE SeenOK(d)'
  BY <1>8 DEF GiveBack
<1>9. ASSUME NEW c \in Calls, Invalidate(c) PROVE SeenOK(d)'
  BY <1>9 DEF Invalidate
<1>10. ASSUME NEW c \in Calls, Die(c) PROVE SeenOK(d)'
  BY <1>10 DEF Die
<1>11. ASSUME NEW u \in Users, Expire(u) PROVE SeenOK(d)'
  BY <1>11 DEF Expire
<1>12. CASE UNCHANGED vars
  BY <1>12 DEF vars
<1> QED
  BY <1>2, <1>3, <1>4, <1>5, <1>6, <1>7, <1>8, <1>9, <1>10, <1>11, <1>12 DEF Next, Step

LEMMA CoveredInit == Init => Covered
<1> SUFFICES ASSUME Init, NEW u \in Users PROVE Bounded(u)
  BY DEF Covered
<1>1. ASSUME NEW c \in Calls PROVE ~Holds(c, u)
  <2>1. pc[c] \in {"reserve", "commit"} /\ (pc[c] = "commit" => ~IsDebit(c))
    BY DEF Init, IsDebit
  <2> QED
    BY <2>1 DEF Holds
<1>2. HeldUnits(u) = {}
  BY <1>1 DEF HeldUnits
<1>3. Held(u) = 0
  BY <1>2, FS_EmptySet DEF Held
<1> QED
  BY <1>3, OpeningIsNat DEF Init, Bounded

LEMMA CoveredStep == IInv /\ [Next]_vars => Covered'
<1> SUFFICES ASSUME IInv, [Next]_vars, NEW u \in Users, u \notin exposed'
             PROVE  Bounded(u)'
  BY DEF Covered
<1> TypeOK /\ ProgressInv /\ SeenInv
  BY DEF IInv
<1> DEFINE B == balance[u]
<1> DEFINE C == cache[u]
<1> DEFINE H == Held(u)
<1>n. Held(u) \in Nat /\ Held(u)' \in Nat /\ balance[u] \in Int /\ cache[u] \in Int \cup {NotCached}
  <2>1. HeldUnits(u)' \in SUBSET (Calls \X (1..MaxAmount))
    BY DEF HeldUnits
  <2>2. Cardinality(HeldUnits(u)') \in Nat
    BY <2>1, UnitsAreFinite, FS_Subset, FS_CardinalityType
  <2> QED
    BY <2>2, HeldIsNat DEF TypeOK, Held
<1>b. u \notin exposed => Bounded(u)
  BY DEF IInv, Covered
\* A step that moves no money and leaves u's reservations as they were, or fewer.
<1>0. ASSUME u \notin exposed, balance'[u] = balance[u],
             cache'[u] \in {cache[u], NotCached}, Held(u)' <= Held(u)
      PROVE  Bounded(u)'
  BY <1>n, <1>b, <1>0 DEF Bounded
<1>1. ASSUME NEW c \in Calls, NEW next \in {"read", "unknown"}, pc[c] \in {"reserve", "retry"}, TryReserve(c, next)
      PROVE  Bounded(u)'
  <2>1. ~Holds(c, u)
    BY <1>1 DEF Holds
  <2>2. IsDebit(c) /\ ~landed[c]
    BY <1>1 DEF ProgressInv, Progress, Early
  <2>3. CASE cache' = cache
    <3>1. pc'[c] \in {"read", "unknown", "refused"} /\ \E p : pc' = [pc EXCEPT ![c] = p]
      BY <1>1, <2>3, InputTypes, NotCachedIsNoAmount, MaxAmountIsNat DEF TryReserve, Move, TypeOK
    <3>2. ~Holds(c, u)'
      BY <3>1 DEF Holds
    <3>3. Held(u)' = Held(u)
      BY <1>1, <2>1, <3>1, <3>2, HeldStep DEF TryReserve
    <3> QED
      BY <1>0, <1>1, <1>n, <2>3, <3>3 DEF TryReserve
  <2>4. CASE cache' # cache
    <3>1. /\ cache[Payer(c)] # NotCached
          /\ cache[Payer(c)] >= Amount(c)
          /\ cache' = [cache EXCEPT ![Payer(c)] = @ - Amount(c)]
          /\ pc' = [pc EXCEPT ![c] = IF input[c].kind = "bill" THEN "bill" ELSE "commit"]
          /\ UNCHANGED <<balance, input, landed, exposed>>
      BY <1>1, <2>4 DEF TryReserve, Move
    <3>2. Amount(c) \in Nat /\ Payer(c) \in Users
      BY InputTypes, MaxAmountIsNat
    <3>3. CASE u = Payer(c)
      <4>1. Holds(c, u)'
        BY <2>2, <3>1, <3>3 DEF Holds, IsDebit, Payer, TypeOK
      <4>2. Held(u)' = Held(u) + Amount(c)
        BY <2>1, <3>1, <4>1, HeldStep
      <4>3. cache'[u] = cache[u] - Amount(c)
        BY <3>1, <3>3 DEF TypeOK
      <4> QED
        BY <1>n, <1>b, <3>1, <3>2, <3>3, <4>2, <4>3, NotCachedIsNoAmount DEF Bounded
    <3>4. CASE u # Payer(c)
      <4>1. ~Holds(c, u)'
        BY <3>1, <3>4 DEF Holds, Payer
      <4>2. Held(u)' = Held(u)
        BY <2>1, <3>1, <4>1, HeldStep
      <4> QED
        BY <1>0, <1>n, <3>1, <3>4, <4>2 DEF TypeOK
    <3> QED
      BY <3>3, <3>4
  <2> QED
    BY <2>3, <2>4
<1>2. ASSUME NEW c \in Calls, Reserve(c) PROVE Bounded(u)'
  BY <1>1, <1>2 DEF Reserve
<1>3. ASSUME NEW c \in Calls, ReadLedger(c) PROVE Bounded(u)'
  <2>1. ~Holds(c, u) /\ ~Holds(c, u)'
    BY <1>3 DEF ReadLedger, Move, Holds, TypeOK
  <2>2. Held(u)' = Held(u)
    BY <1>3, <2>1, HeldStep DEF ReadLedger, Move
  <2> QED
    BY <1>0, <1>3, <1>n, <2>2 DEF ReadLedger
<1>4. ASSUME NEW c \in Calls, Warm(c) PROVE Bounded(u)'
  <2>1. ~Holds(c, u) /\ ~Holds(c, u)'
    BY <1>4 DEF Warm, Move, Holds, TypeOK
  <2>2. Held(u)' = Held(u)
    BY <1>4, <2>1, HeldStep DEF Warm, Move
  <2>3. u \notin exposed
    BY <1>4 DEF Warm
  <2>4. CASE u = Payer(c)
    <3>1. c \notin late /\ \A q \in Calls : ~Holds(q, u)
      BY <1>4, <2>4 DEF Warm
    <3>2. HeldUnits(u) = {}
      BY <3>1 DEF HeldUnits
    <3>3. Held(u) = 0
      BY <3>2, FS_EmptySet DEF Held
    <3>4. seen[c] <= balance[u] /\ seen[c] >= 0 /\ seen[c] \in Int
      BY <1>4, <2>3, <2>4, <3>1 DEF Warm, SeenInv, SeenOK, TypeOK
    <3>5. cache'[u] = seen[c] /\ balance'[u] = balance[u]
      BY <1>4, <2>4 DEF Warm, TypeOK
    <3> QED
      BY <1>n, <2>2, <3>3, <3>4, <3>5 DEF Bounded
  <2>5. CASE u # Payer(c)
    BY <1>0, <1>4, <1>n, <2>2, <2>3, <2>5 DEF Warm, TypeOK
  <2> QED
    BY <2>4, <2>5
<1>5. ASSUME NEW c \in Calls, Retry(c) PROVE Bounded(u)'
  BY <1>1, <1>5 DEF Retry
<1>6. ASSUME NEW c \in Calls, CallBiller(c) PROVE Bounded(u)'
  <2>1. Holds(c, u)' <=> Holds(c, u)
    BY <1>6 DEF CallBiller, Move, Holds, Payer, IsDebit, TypeOK
  <2>2. \E p : pc' = [pc EXCEPT ![c] = p]
    BY <1>6 DEF CallBiller, Move
  <2>3. Held(u)' = Held(u)
    BY <1>6, <2>1, <2>2, HeldStep DEF CallBiller
  <2> QED
    BY <1>0, <1>6, <1>n, <2>3 DEF CallBiller
<1>7. ASSUME NEW c \in Calls, Commit(c) PROVE Bounded(u)'
  <2>1. \E p : pc' = [pc EXCEPT ![c] = p]
    BY <1>7 DEF Commit, Move
  <2>2. \A q \in Calls \ {c} : landed'[q] = landed[q]
    BY <1>7 DEF Commit, Post, TypeOK
  <2>3. input' = input /\ cache' = cache /\ exposed' = exposed /\ ~landed[c] /\ pc[c] = "commit"
    BY <1>7 DEF Commit, ProgressInv, Progress
  <2>4. Amount(c) \in Nat /\ Payer(c) \in Users
    BY InputTypes, MaxAmountIsNat
  <2>5. CASE Post(c)
    <3>1. landed'[c]
      BY <2>5 DEF Post, TypeOK
    <3>2. ~Holds(c, u)'
      BY <3>1 DEF Holds
    <3>3. balance'[u] = balance[u] + Delta(c, u)
      BY <2>5 DEF Post
    <3>4. CASE Holds(c, u)
      <4>1. Held(u)' = Held(u) - Amount(c)
        BY <2>1, <2>2, <2>3, <3>2, <3>4, HeldStep
      <4>2. Delta(c, u) = 0 - Amount(c)
        BY <2>4, <3>4, InputTypes DEF Delta, Holds, IsDebit, Debits, Credits
      <4> QED
        BY <1>n, <1>b, <2>3, <2>4, <3>3, <4>1, <4>2, NotCachedIsNoAmount DEF Bounded
    <3>5. CASE ~Holds(c, u)
      <4>1. Held(u)' = Held(u)
        BY <2>1, <2>2, <2>3, <3>2, <3>5, HeldStep
      <4>2. Delta(c, u) \in Nat
        BY <2>3, <2>4, <3>5, InputTypes DEF Delta, Holds, IsDebit, Debits, Credits
      <4> QED
        BY <1>n, <1>b, <2>3, <3>3, <4>1, <4>2, NotCachedIsNoAmount DEF Bounded
    <3> QED
      BY <3>4, <3>5
  <2>6. CASE ~Post(c)
    <3>1. pc' = [pc EXCEPT ![c] = AfterError(c)] /\ landed' = landed /\ balance' = balance
      BY <1>7, <2>6 DEF Commit, Move
    <3>2. Holds(c, u)' <=> Holds(c, u)
      BY <2>3, <3>1 DEF AfterError, Holds, Payer, IsDebit, TypeOK
    <3>3. Held(u)' = Held(u)
      BY <2>1, <2>2, <2>3, <3>2, HeldStep
    <3> QED
      BY <1>0, <1>n, <2>3, <3>1, <3>3
  <2> QED
    BY <2>5, <2>6
<1>8. ASSUME NEW c \in Calls, GiveBack(c) PROVE Bounded(u)'
  <2>1. \E p : pc' = [pc EXCEPT ![c] = p]
    BY <1>8 DEF GiveBack, Move
  <2>2. input' = input /\ landed' = landed /\ balance' = balance /\ u \notin exposed
        /\ pc[c] = "giveback" /\ pc'[c] \in {"refused", "unknown"}
    BY <1>8 DEF GiveBack, Move, TypeOK
  <2>3. ~Holds(c, u)'
    BY <2>2 DEF Holds
  <2>4. Amount(c) \in Nat /\ Payer(c) \in Users
    BY InputTypes, MaxAmountIsNat
  <2>5. CASE Holds(c, u)
    <3>1. Held(u)' = Held(u) - Amount(c)
      BY <2>1, <2>2, <2>3, <2>5, HeldStep
    <3>2. u = Payer(c)
      BY <2>5 DEF Holds
    <3>3. \/ cache[u] # NotCached /\ cache'[u] = cache[u] + Amount(c)
          \/ cache'[u] = cache[u]
      BY <1>8, <3>2 DEF GiveBack, TypeOK
    <3> QED
      BY <1>n, <1>b, <2>2, <2>4, <3>1, <3>3, NotCachedIsNoAmount DEF Bounded
  <2>6. CASE ~Holds(c, u)
    <3>1. Held(u)' = Held(u)
      BY <2>1, <2>2, <2>3, <2>6, HeldStep
    <3>2. cache'[u] = cache[u]
      <4>1. IsDebit(c)
        BY <2>2 DEF ProgressInv, Progress
      <4>2. CASE u = Payer(c)
        BY <1>8, <2>2, <2>6, <4>1, <4>2 DEF GiveBack, Holds
      <4>3. CASE u # Payer(c)
        BY <1>8, <4>3 DEF GiveBack, TypeOK
      <4> QED
        BY <4>2, <4>3
    <3> QED
      BY <1>0, <1>n, <2>2, <3>1, <3>2
  <2> QED
    BY <2>5, <2>6
<1>9. ASSUME NEW c \in Calls, Invalidate(c) PROVE Bounded(u)'
  <2>1. ~Holds(c, u) /\ ~Holds(c, u)'
    BY <1>9 DEF Invalidate, Move, Holds, TypeOK
  <2>2. Held(u)' = Held(u)
    BY <1>9, <2>1, HeldStep DEF Invalidate, Move
  <2>3. cache'[u] \in {cache[u], NotCached}
    BY <1>9 DEF Invalidate, TypeOK
  <2> QED
    BY <1>0, <1>9, <1>n, <2>2, <2>3 DEF Invalidate
<1>10. ASSUME NEW c \in Calls, Die(c) PROVE Bounded(u)'
  <2>1. ~Holds(c, u)'
    BY <1>10 DEF Die, Move, Holds, TypeOK
  <2>2. Held(u)' <= Held(u)
    <3>1. Amount(c) \in Nat
      BY InputTypes, MaxAmountIsNat
    <3>2. Held(u)' = Held(u) \/ Held(u)' = Held(u) - Amount(c)
      BY <1>10, <2>1, HeldStep DEF Die, Move
    <3> QED
      BY <1>n, <3>1, <3>2
  <2> QED
    BY <1>0, <1>10, <2>2 DEF Die
<1>11. ASSUME NEW v \in Users, Expire(v) PROVE Bounded(u)'
  <2>1. HeldUnits(u)' = HeldUnits(u)
    BY <1>11 DEF Expire, HeldUnits, Holds, Amount, Payer, IsDebit
  <2>2. cache'[u] \in {cache[u], NotCached}
    BY <1>11 DEF Expire, TypeOK
  <2> QED
    BY <1>0, <1>11, <1>n, <2>1, <2>2 DEF Expire, Held
<1>12. CASE UNCHANGED vars
  <2>1. HeldUnits(u)' = HeldUnits(u)
    BY <1>12 DEF vars, HeldUnits, Holds, Amount, Payer, IsDebit
  <2> QED
    BY <1>0, <1>12, <1>n, <2>1 DEF vars, Held
<1> QED
  BY <1>2, <1>3, <1>4, <1>5, <1>6, <1>7, <1>8, <1>9, <1>10, <1>11, <1>12 DEF Next, Step

\* However many calls interleave and wherever they fail, everything a user can
\* still spend and everything the user's calls hold is in the ledger, until an
\* entry is rewritten over an open reservation or given back a debit that landed.
THEOREM ReservationsCovered == Spec => []Covered
<1>1. Init => IInv
  BY TypeInit, ProgressInit, SeenInit, CoveredInit DEF IInv
<1>2. IInv /\ [Next]_vars => IInv'
  BY TypeStep, ProgressStep, SeenStep, CoveredStep DEF IInv
<1>3. IInv => Covered
  BY DEF IInv
<1> QED
  BY <1>1, <1>2, <1>3, PTL DEF Spec

----
(***************************************************************************)
(* The sums behind the books, of whatever amounts: what rounding may do to *)
(* fees, that no posting is refused after the money has left, and what the *)
(* score of a merchant and the choice of a rail promise.                   *)
(***************************************************************************)

----
(* Rounding *)

LEMMA DivMod ==
    ASSUME NEW p \in Nat, NEW w \in Nat \ {0}
    PROVE  /\ p \div w \in Nat /\ p % w \in Nat
           /\ p = w * (p \div w) + (p % w) /\ p % w < w
OBVIOUS

\* A half-up quotient is off by less than a half below and by a half at most above.
LEMMA HalfUpNear ==
    ASSUME NEW p \in Nat, NEW w \in Nat \ {0}
    PROVE  /\ HalfUp(p, w) \in Nat
           /\ 2 * (w * HalfUp(p, w)) <= 2 * p + w
           /\ 2 * p < 2 * (w * HalfUp(p, w)) + w
<1> DEFINE q == p \div w
           r == p % w
<1>1. q \in Nat /\ r \in Nat /\ p = w * q + r /\ r < w
  BY DivMod
<1>2. HalfUp(p, w) = q + (IF 2 * r >= w THEN 1 ELSE 0)
  BY DEF HalfUp
<1> HIDE DEF q, r
<1>3. w * (q + 1) = w * q + w /\ w * q \in Nat
  BY <1>1
<1> QED
  BY <1>1, <1>2, <1>3

\* Multiples keep their order, and the other way round.
LEMMA Multiples ==
    ASSUME NEW a \in Int, NEW b \in Int, NEW w \in Nat \ {0}
    PROVE  /\ w * a \in Int /\ w * (a + b) = w * a + w * b /\ w * (a - b) = w * a - w * b
           /\ a <= b <=> w * a <= w * b
           /\ a < b <=> w * a < w * b
OBVIOUS

----
(* Fees *)

\* A fee is within half a sen of its rate, and within the amount.
THEOREM FeeIsNear ==
    ASSUME NEW amount \in Nat, NEW bps \in 0..BasisPoints
    PROVE  /\ FeeHalfUp(amount, bps) \in 0..amount
           /\ 2 * (BasisPoints * FeeHalfUp(amount, bps)) <= 2 * (amount * bps) + BasisPoints
           /\ 2 * (amount * bps) < 2 * (BasisPoints * FeeHalfUp(amount, bps)) + BasisPoints
<1> DEFINE fee == FeeHalfUp(amount, bps)
<1>1. BasisPoints \in Nat \ {0}
  BY DEF BasisPoints
<1>2. amount * bps \in Nat /\ amount * bps <= amount * BasisPoints
  BY <1>1
<1>3. /\ fee \in Nat
      /\ 2 * (BasisPoints * fee) <= 2 * (amount * bps) + BasisPoints
      /\ 2 * (amount * bps) < 2 * (BasisPoints * fee) + BasisPoints
  BY <1>1, <1>2, HalfUpNear DEF FeeHalfUp
<1> HIDE DEF fee
<1>4. fee <= amount
  <2>1. SUFFICES ASSUME fee >= amount + 1 PROVE FALSE
    BY <1>3
  <2>2. BasisPoints * (amount + 1) <= BasisPoints * fee
    BY <1>1, <1>3, <2>1, Multiples
  <2>3. BasisPoints * (amount + 1) = amount * BasisPoints + BasisPoints
    BY <1>1
  <2> QED
    BY <1>1, <1>2, <1>3, <2>2, <2>3
<1> QED
  BY <1>3, <1>4 DEF fee

\* Below half of the amount the rate leaves something, of one sen too.
LEMMA FeeLeavesSome ==
    ASSUME NEW amount \in Nat \ {0}, NEW bps \in Nat, 2 * bps < BasisPoints
    PROVE  FeeHalfUp(amount, bps) < amount
<1> DEFINE fee == FeeHalfUp(amount, bps)
<1>1. BasisPoints \in Nat \ {0} /\ bps \in 0..BasisPoints
  BY DEF BasisPoints
<1>2. fee \in Nat /\ 2 * (BasisPoints * fee) <= 2 * (amount * bps) + BasisPoints
  BY <1>1, FeeIsNear
<1> HIDE DEF fee
<1>3. amount * (2 * bps) + amount <= amount * BasisPoints
  BY <1>1
<1>4. amount * (2 * bps) = 2 * (amount * bps)
  OBVIOUS
<1>5. SUFFICES ASSUME fee >= amount PROVE FALSE
  BY <1>2 DEF fee
<1>6. BasisPoints * amount <= BasisPoints * fee
  BY <1>1, <1>2, <1>5, Multiples
<1>7. BasisPoints * amount = amount * BasisPoints /\ BasisPoints <= amount * BasisPoints
  BY <1>1
<1>8. amount * bps \in Nat /\ amount * BasisPoints \in Nat
  BY <1>1
<1> QED
  BY <1>1, <1>2, <1>3, <1>4, <1>6, <1>7, <1>8

----
(* Postings *)

\* Entries that add up to 0, the first two of them not 0, are a posting.
LEMMA EntriesPost ==
    ASSUME NEW a \in Int \ {0}, NEW b \in Int \ {0}, NEW c \in Int, a + b + c = 0
    PROVE  Validate(Entries(a, b, c))
<1>1. CASE c = 0
  <2>1. Entries(a, b, c) = <<a, b>>
    BY <1>1 DEF Entries
  <2>2. Len(<<a, b>>) = 2 /\ DOMAIN <<a, b>> = {1, 2} /\ <<a, b>>[1] = a /\ <<a, b>>[2] = b
    OBVIOUS
  <2>3. Sum(<<a, b>>) = 0
    BY <1>1, <2>2 DEF Sum
  <2> QED
    BY <2>1, <2>2, <2>3 DEF Validate
<1>2. CASE c # 0
  <2>1. Entries(a, b, c) = <<a, b, c>>
    BY <1>2 DEF Entries
  <2> QED
    BY <1>2, <2>1 DEF Validate, Sum
<1> QED
  BY <1>1, <1>2

\* A payment at less than half its amount in fees is always posted.
THEOREM PaymentPosts ==
    ASSUME NEW amount \in Nat \ {0}, NEW bps \in Nat, 2 * bps < BasisPoints
    PROVE  Validate(NewMerchantPayment(amount, bps))
<1>1. bps \in 0..BasisPoints
  BY DEF BasisPoints
<1>2. FeeHalfUp(amount, bps) \in Nat /\ FeeHalfUp(amount, bps) < amount
  BY <1>1, FeeLeavesSome, FeeIsNear
<1> DEFINE fee == FeeHalfUp(amount, bps)
<1> HIDE DEF fee
<1>3. fee \in Nat /\ fee < amount
  BY <1>2 DEF fee
<1>4. Validate(Entries(-amount, amount - fee, fee))
  BY <1>3, EntriesPost
<1> QED
  BY <1>4 DEF NewMerchantPayment, fee

\* The holdback of a merchant stays within its bounds, whatever the float rounds to.
LEMMA HoldbackInBounds ==
    ASSUME NEW loss \in Int
    PROVE  HoldbackBps(loss) \in MinHoldbackBps..MaxHoldbackBps
<1>1. HoldbackBps(loss) = Clamp(2 * (IF loss < 0 THEN 0 ELSE loss), MinHoldbackBps, MaxHoldbackBps)
  BY DEF HoldbackBps
<1> QED
  BY <1>1 DEF Clamp, MinHoldbackBps, MaxHoldbackBps

\* The bank has been paid when a payout is posted: for no factors of a merchant and no
\* amount, of one sen too, is the posting refused.
THEOREM PayoutPosts ==
    ASSUME NEW gross \in Nat \ {0}, NEW f \in Factors, NEW e \in Evaluate(f)
    PROVE  Validate(NewInstantPayout(gross, e.holdbackBps))
<1>1. PICK loss \in ExpectedLossCentiBps(f) : e.holdbackBps = HoldbackBps(loss)
  BY DEF Evaluate
<1>2. loss \in Int
  BY DEF ExpectedLossCentiBps, AgeLoss, Factors
<1> DEFINE bps == e.holdbackBps
<1>3. HoldbackBps(loss) \in MinHoldbackBps..MaxHoldbackBps
  BY <1>2, HoldbackInBounds
<1>4. bps \in MinHoldbackBps..MaxHoldbackBps
  BY <1>1, <1>3
<1> HIDE DEF bps
<1>5. bps \in Nat /\ bps \in 0..BasisPoints /\ 2 * bps < BasisPoints
  BY <1>4 DEF BasisPoints, MinHoldbackBps, MaxHoldbackBps
<1> DEFINE holdback == FeeHalfUp(gross, bps)
<1>6. holdback \in Nat /\ holdback < gross
  BY <1>5, FeeLeavesSome, FeeIsNear
<1> HIDE DEF holdback
<1>7. Validate(Entries(-gross, gross - holdback, holdback))
  BY <1>6, EntriesPost
<1> QED
  BY <1>7 DEF NewInstantPayout, holdback, bps

----
(* Refunds *)

\* A refund is never refused for its fee, if the payment had been at less than half of it.
THEOREM RefundPosts ==
    ASSUME NEW gross \in Nat \ {0}, NEW fee \in Nat, 2 * fee < gross, NEW refund \in 1..gross
    PROVE  /\ ProportionalFee(gross, fee, refund) \in Nat
           /\ ProportionalFee(gross, fee, refund) < refund
           /\ Validate(NewRefund(refund, ProportionalFee(gross, fee, refund)))
<1> DEFINE returned == ProportionalFee(gross, fee, refund)
<1>1. fee * refund \in Nat
  OBVIOUS
<1>2. returned \in Nat /\ 2 * (gross * returned) <= 2 * (fee * refund) + gross
  BY <1>1, HalfUpNear DEF ProportionalFee
<1> HIDE DEF returned
<1>3. returned < refund
  <2>1. SUFFICES ASSUME refund <= returned PROVE FALSE
    BY <1>2
  <2>2. gross * refund <= gross * returned
    BY <1>2, <2>1, Multiples
  <2>3. (gross - 1) * refund = gross * refund - refund /\ (2 * fee) * refund = 2 * (fee * refund)
    OBVIOUS
  <2>4. (2 * fee) * refund <= (gross - 1) * refund
    OBVIOUS
  <2>5. gross * refund \in Nat /\ gross <= gross * refund
    OBVIOUS
  <2> QED
    BY <1>1, <1>2, <2>2, <2>3, <2>4, <2>5
<1>4. Validate(Entries(-(refund - returned), refund, -returned))
  BY <1>2, <1>3, EntriesPost
<1>5. Validate(NewRefund(refund, returned))
  BY <1>4 DEF NewRefund
<1> QED
  BY <1>2, <1>3, <1>5 DEF returned

\* A payment that is refunded in full leaves nothing: the wallet, the merchant and the fee
\* account get back what the payment moved.
THEOREM FullRefundReverses ==
    ASSUME NEW gross \in Nat \ {0}, NEW bps \in 0..BasisPoints
    PROVE  LET fee == FeeHalfUp(gross, bps)
           IN  NewRefund(gross, ProportionalFee(gross, fee, gross))
                   = Entries(-(gross - fee), gross, -fee)
<1> DEFINE fee == FeeHalfUp(gross, bps)
           returned == ProportionalFee(gross, fee, gross)
<1>1. fee \in Nat
  BY FeeIsNear
<1> HIDE DEF fee
<1>2. fee * gross \in Nat /\ fee * gross = gross * fee
  BY <1>1
<1>3. /\ returned \in Nat
      /\ 2 * (gross * returned) <= 2 * (fee * gross) + gross
      /\ 2 * (fee * gross) < 2 * (gross * returned) + gross
  BY <1>2, HalfUpNear DEF ProportionalFee
<1> HIDE DEF returned
<1>4. returned <= fee
  <2>1. SUFFICES ASSUME fee + 1 <= returned PROVE FALSE
    BY <1>1, <1>3
  <2>2. gross * fee + gross * 1 <= gross * returned
    BY <1>1, <1>3, <2>1, Multiples
  <2> QED
    BY <1>2, <1>3, <2>2
<1>5. fee <= returned
  <2>1. SUFFICES ASSUME returned + 1 <= fee PROVE FALSE
    BY <1>1, <1>3
  <2>2. gross * returned + gross * 1 <= gross * fee
    BY <1>1, <1>3, <2>1, Multiples
  <2> QED
    BY <1>2, <1>3, <2>2
<1>6. returned = fee
  BY <1>1, <1>3, <1>4, <1>5
<1> QED
  BY <1>6 DEF NewRefund, returned, fee

\* A payment refunded in two parts gives back at most one sen of fee that was never taken.
THEOREM RefundsInParts ==
    ASSUME NEW gross \in Nat \ {0}, NEW fee \in Nat,
           NEW r \in Nat \ {0}, NEW s \in Nat \ {0}, r + s <= gross
    PROVE  ProportionalFee(gross, fee, r) + ProportionalFee(gross, fee, s) <= fee + 1
<1> DEFINE f == ProportionalFee(gross, fee, r)
           g == ProportionalFee(gross, fee, s)
<1>1. fee * r \in Nat /\ fee * s \in Nat
  OBVIOUS
<1>2. f \in Nat /\ 2 * (gross * f) <= 2 * (fee * r) + gross
  BY <1>1, HalfUpNear DEF ProportionalFee
<1>3. g \in Nat /\ 2 * (gross * g) <= 2 * (fee * s) + gross
  BY <1>1, HalfUpNear DEF ProportionalFee
<1> HIDE DEF f, g
<1>4. fee * r + fee * s <= gross * fee
  OBVIOUS
<1>5. gross * (f + g) <= gross * (fee + 1)
  <2>1. gross * (f + g) = gross * f + gross * g /\ gross * f \in Nat /\ gross * g \in Nat
    BY <1>2, <1>3, Multiples
  <2>2. gross * (fee + 1) = gross * fee + gross /\ gross * fee \in Nat
    OBVIOUS
  <2> QED
    BY <1>1, <1>2, <1>3, <1>4, <2>1, <2>2
<1>6. f + g <= fee + 1
  BY <1>2, <1>3, <1>5, Multiples
<1> QED
  BY <1>6 DEF f, g

----
(* Risk, rails, offers, splits *)

\* More disputes, with no fewer refunds, never make the holdback smaller, although the
\* rates are weighed with floats that are rounded up; nor do more refunds.
THEOREM HoldbackMonotone ==
    ASSUME NEW f \in Factors, NEW g \in Factors, f.ageDays = g.ageDays,
           f.disputeRateBps <= g.disputeRateBps, f.refundRateBps <= g.refundRateBps,
           f.disputeRateBps < g.disputeRateBps \/ f.refundRateBps < g.refundRateBps,
           NEW d \in Evaluate(f), NEW e \in Evaluate(g)
    PROVE  d.holdbackBps <= e.holdbackBps
<1>1. PICK k \in ExpectedLossCentiBps(f) : d.holdbackBps = HoldbackBps(k)
  BY DEF Evaluate
<1>2. PICK l \in ExpectedLossCentiBps(g) : e.holdbackBps = HoldbackBps(l)
  BY DEF Evaluate
<1> DEFINE age == AgeLoss(f.ageDays)
           exactF == 25 * f.disputeRateBps + 2 * f.refundRateBps + age
           exactG == 25 * g.disputeRateBps + 2 * g.refundRateBps + age
<1>3. age \in Nat
  BY DEF AgeLoss, Factors
<1> HIDE DEF age
<1>4. exactF \in Nat /\ exactG \in Nat /\ exactF + 1 <= exactG
  BY <1>3 DEF Factors
<1>5. k \in {exactF, exactF + 1} /\ l \in {exactG, exactG + 1}
  BY DEF ExpectedLossCentiBps, age
<1> HIDE DEF exactF, exactG
<1>6. k \in Nat /\ l \in Nat /\ k <= l
  BY <1>4, <1>5
<1>7. /\ HoldbackBps(k) = Clamp(2 * k, MinHoldbackBps, MaxHoldbackBps)
      /\ HoldbackBps(l) = Clamp(2 * l, MinHoldbackBps, MaxHoldbackBps)
  BY <1>6 DEF HoldbackBps
<1>8. HoldbackBps(k) <= HoldbackBps(l)
  BY <1>6, <1>7 DEF Clamp, MinHoldbackBps, MaxHoldbackBps
<1> QED
  BY <1>1, <1>2, <1>8

\* A rail that is known to be degraded is chosen only if it is the first of the list, if
\* BI-FAST is not there or degraded too, and if the bank has no healthy rail of its own.
THEOREM DegradedOnlyWithoutFast ==
    ASSUME NEW rails, NEW bankCode, NEW degraded, Select(rails, bankCode, degraded) \in degraded
    PROVE  /\ Select(rails, bankCode, degraded) = rails[1]
           /\ \A i \in DOMAIN rails : rails[i] = "bifast" => "bifast" \in degraded
           /\ bankCode = "BCA" => \A i \in DOMAIN rails :
                                      rails[i] = "bank_internal" => "bank_internal" \in degraded
BY DEF Select

\* The shares never ask for more than the total, and the owner's part is the largest, by
\* less than a sen for each who takes part.
THEOREM SharesLeaveOwnersPart ==
    ASSUME NEW total \in Nat, NEW payers \in Nat \ {0}
    PROVE  LET share == Share(total, payers)
               rest == total - payers * share
           IN  share \in Nat /\ rest \in share..(share + payers)
<1> DEFINE share == Share(total, payers)
<1>1. payers + 1 \in Nat \ {0}
  OBVIOUS
<1>2. /\ share \in Nat /\ total % (payers + 1) \in Nat
      /\ total = (payers + 1) * share + (total % (payers + 1))
      /\ total % (payers + 1) < payers + 1
  BY <1>1, DivMod DEF Share
<1> HIDE DEF share
<1>3. (payers + 1) * share = payers * share + share /\ payers * share \in Nat
  BY <1>2
<1>4. total - payers * share \in share..(share + payers)
  BY <1>2, <1>3
<1> QED
  BY <1>2, <1>4 DEF share

\* A cashback is never worth more than its cap or than its rate of what was spent, and
\* its points are worth no more than it and less than a point less.  Rate and cap are
\* not negative here.  Nothing in the code or in the table keeps a rate from being more
\* than the whole: a cashback stays within what was spent as long as its rate is at most
\* that.
THEOREM CashbackBounded ==
    ASSUME NEW offer, NEW spend \in Nat, NEW None, offer.kind = "cashback",
           offer.valueBps \in Nat, offer.valueBps # None,
           offer.maxBenefit = None \/ offer.maxBenefit \in Nat
    PROVE  LET b == Benefit(offer, spend, None)
           IN  /\ b.value \in Nat /\ 10000 * b.value <= spend * offer.valueBps
               /\ offer.maxBenefit # None => b.value <= offer.maxBenefit
               /\ b.value - 100 * b.points \in 0..99
               /\ offer.valueBps <= 10000 => b.value <= spend
<1> DEFINE bps == offer.valueBps
<1>0. bps \in Nat
  OBVIOUS
<1> DEFINE full == (spend * bps) \div 10000
           value == IF offer.maxBenefit # None /\ full > offer.maxBenefit THEN offer.maxBenefit ELSE full
<1>1. Benefit(offer, spend, None) = [value |-> value, points |-> value \div 100]
  BY DEF Benefit
<1> HIDE DEF bps
<1>2. spend * bps \in Nat /\ (bps <= 10000 => spend * bps <= 10000 * spend)
  BY <1>0
<1>3. full \in Nat /\ 10000 * full <= spend * bps
  BY <1>2
<1> HIDE DEF full
<1>4. /\ value \in Nat /\ value <= full
      /\ offer.maxBenefit # None => value <= offer.maxBenefit
  BY <1>3
<1> HIDE DEF value
<1>5. 10000 * value <= spend * bps /\ (bps <= 10000 => value <= spend)
  BY <1>2, <1>3, <1>4
<1>6. value - 100 * (value \div 100) \in 0..99
  BY <1>4
<1> QED
  BY <1>1, <1>4, <1>5, <1>6 DEF bps

\* While withdrawals are pending, a cache that is in step with the ledger is reported as
\* one that disagrees: what is held has left the ledger account already.
THEOREM HeldIsTakenTwice ==
    ASSUME NEW fromLedger \in Int, NEW held \in Nat, NEW None, fromLedger # None
    PROVE  Balance(fromLedger, held, fromLedger, None).cacheAgreed <=> held = 0
<1>1. Balance(fromLedger, held, fromLedger, None).cacheAgreed
          = (fromLedger = None \/ fromLedger = fromLedger - held)
  BY Zenon DEF Balance
<1>2. fromLedger = fromLedger - held <=> held = 0
  OBVIOUS
<1> QED
  BY <1>1, <1>2
=============================================================================
