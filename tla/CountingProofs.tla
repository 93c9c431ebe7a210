--------------------------- MODULE CountingProofs ---------------------------
(***************************************************************************)
(* What is counted and added up, for every number of requests, awards and  *)
(* lines: the slots of admission control, the counters of the velocity     *)
(* rules, points and offers, and what reconciliation reports.              *)
(***************************************************************************)
EXTENDS Gate, Loyalty, Reconcile, FiniteSetTheorems, SequenceTheorems, WellFoundedInduction, TLAPS

----
(***************************************************************************)
(* Sums over finite sets: SumFunctionOnSet of the community modules, whose *)
(* recursion takes one element after another as CHOOSE gives them.         *)
(*                                                                         *)
(* What the recursion computes is proved by a least counterexample: strict *)
(* inclusion of finite sets is well founded, so that a set of sets that is *)
(* not empty has one that contains no other.                               *)
(***************************************************************************)

First(s) == CHOOSE x \in s : TRUE

\* CHOOSE takes an element if there is one.
LEMMA FirstIn == ASSUME NEW s, s # {} PROVE First(s) \in s
BY DEF First

AddsUp(f, g, S) ==
    g = [s \in SUBSET S |-> IF s = {} THEN 0 ELSE f[First(s)] + g[s \ {First(s)}]]

LEMMA SumIs ==
    ASSUME NEW f, NEW S, \E g : AddsUp(f, g, S)
    PROVE  \E g : AddsUp(f, g, S) /\ SumFunctionOnSet(f, S) = g[S]
BY DEF SumFunctionOnSet, FoldFunctionOnSet, MapThenFoldSet, AddsUp, First

LEMMA Least ==
    ASSUME NEW S, IsFiniteSet(S), NEW T, T \subseteq SUBSET S, T # {}
    PROVE  \E s \in T : \A t \in T : t \subseteq s => t = s
<1>1. IsWellFoundedOn(StrictSubsetOrdering(S), SUBSET S)
  BY FS_StrictSubsetOrderingWellFounded, FS_FiniteSubsetsOfFinite
<1>2. PICK s \in T : \A t \in T : <<t, s>> \notin StrictSubsetOrdering(S)
  BY <1>1, WFMin
<1> QED
  BY <1>2 DEF StrictSubsetOrdering

\* One equation of the recursion.
LEMMA SumUnfold ==
    ASSUME NEW f, NEW S, NEW g, AddsUp(f, g, S), NEW s \in SUBSET S
    PROVE  /\ g[{}] = 0
           /\ s # {} => g[s] = f[First(s)] + g[s \ {First(s)}]
BY DEF AddsUp

\* The recursion has one solution.
LEMMA SumUnique ==
    ASSUME NEW f, NEW S, IsFiniteSet(S), NEW g, AddsUp(f, g, S), NEW R \in SUBSET S, NEW h, AddsUp(f, h, R)
    PROVE  \A s \in SUBSET R : g[s] = h[s]
<1> DEFINE Bad == {s \in SUBSET R : g[s] # h[s]}
<1> SUFFICES ASSUME Bad # {} PROVE FALSE
  OBVIOUS
<1>1. PICK s \in Bad : \A t \in Bad : t \subseteq s => t = s
  <2>1. IsFiniteSet(R) /\ Bad \subseteq SUBSET R
    BY FS_Subset
  <2> HIDE DEF Bad
  <2> QED
    BY <2>1, Least
<1>2. s # {}
  BY SumUnfold
<1>3. First(s) \in s
  BY <1>2, FirstIn
<1>4. g[s \ {First(s)}] = h[s \ {First(s)}]
  BY <1>1, <1>3
<1>5. g[s] = h[s]
  BY <1>2, <1>4, SumUnfold
<1> QED
  BY <1>5

\* The recursion has a solution.
LEMMA SumExists ==
    ASSUME NEW f, NEW S, IsFiniteSet(S)
    PROVE  \E g : AddsUp(f, g, S)
<1> DEFINE Bad == {s \in SUBSET S : ~ \E g : AddsUp(f, g, s)}
<1> SUFFICES ASSUME Bad # {} PROVE FALSE
  <2>1. S \notin Bad => \E g : AddsUp(f, g, S)
    OBVIOUS
  <2> QED
    BY <2>1
<1>1. PICK s \in Bad : \A t \in Bad : t \subseteq s => t = s
  <2>1. Bad \subseteq SUBSET S
    OBVIOUS
  <2> HIDE DEF Bad
  <2> QED
    BY <2>1, Least
<1>2. \A t \in SUBSET s : t # s => \E g : AddsUp(f, g, t) /\ SumFunctionOnSet(f, t) = g[t]
  <2>1. ASSUME NEW t \in SUBSET s, t # s PROVE \E g : AddsUp(f, g, t)
    BY <1>1, <2>1
  <2> QED
    BY <2>1, SumIs
<1> DEFINE h == [t \in SUBSET s |-> IF t = {} THEN 0 ELSE f[First(t)] + SumFunctionOnSet(f, t \ {First(t)})]
<1>3. ASSUME NEW t \in SUBSET s, t # s PROVE h[t] = SumFunctionOnSet(f, t)
  <2>1. PICK g : AddsUp(f, g, t) /\ SumFunctionOnSet(f, t) = g[t]
    BY <1>2, <1>3
  <2>2. CASE t = {}
    BY <2>1, <2>2, SumUnfold
  <2>3. CASE t # {}
    <3>1. First(t) \in t
      BY <2>3, FirstIn
    <3>2. PICK k : AddsUp(f, k, t \ {First(t)}) /\ SumFunctionOnSet(f, t \ {First(t)}) = k[t \ {First(t)}]
      BY <1>2, <3>1
    <3>3. IsFiniteSet(t)
      BY FS_Subset
    <3>4. g[t \ {First(t)}] = k[t \ {First(t)}]
      BY <2>1, <3>2, <3>3, SumUnique
    <3> QED
      BY <2>1, <2>3, <3>2, <3>4, SumUnfold
  <2> QED
    BY <2>2, <2>3
<1>4. h = [t \in SUBSET s |-> IF t = {} THEN 0 ELSE f[First(t)] + h[t \ {First(t)}]]
  <2>1. ASSUME NEW t \in SUBSET s, t # {} PROVE h[t \ {First(t)}] = SumFunctionOnSet(f, t \ {First(t)})
    <3>1. t \ {First(t)} \in SUBSET s /\ t \ {First(t)} # s
      BY <2>1, FirstIn
    <3> HIDE DEF h
    <3> QED
      BY <1>3, <3>1
  <2> QED
    BY <2>1
<1>5. AddsUp(f, h, s)
  <2> HIDE DEF h
  <2> QED
    BY <1>4 DEF AddsUp
<1> QED
  BY <1>5

\* The sum over a finite set, taken apart at the element that CHOOSE takes first.
LEMMA SumEmpty ==
    ASSUME NEW f
    PROVE  SumFunctionOnSet(f, {}) = 0
<1>1. PICK g : AddsUp(f, g, {}) /\ SumFunctionOnSet(f, {}) = g[{}]
  BY FS_EmptySet, SumExists, SumIs
<1> QED
  BY <1>1, SumUnfold

LEMMA SumStep ==
    ASSUME NEW f, NEW S, IsFiniteSet(S), S # {}
    PROVE  SumFunctionOnSet(f, S) = f[First(S)] + SumFunctionOnSet(f, S \ {First(S)})
<1>1. PICK g : AddsUp(f, g, S) /\ SumFunctionOnSet(f, S) = g[S]
  BY SumExists, SumIs
<1>2. IsFiniteSet(S \ {First(S)})
  BY FS_Subset
<1>3. PICK k : AddsUp(f, k, S \ {First(S)}) /\ SumFunctionOnSet(f, S \ {First(S)}) = k[S \ {First(S)}]
  BY <1>2, SumExists, SumIs
<1>4. g[S \ {First(S)}] = k[S \ {First(S)}]
  BY <1>1, <1>3, SumUnique
<1> QED
  BY <1>1, <1>3, <1>4, SumUnfold

\* The sum of integers is one, and it can be taken apart at any element.
LEMMA SumType ==
    ASSUME NEW S, IsFiniteSet(S), NEW f, \A x \in S : f[x] \in Int
    PROVE  SumFunctionOnSet(f, S) \in Int
<1> DEFINE Bad == {s \in SUBSET S : SumFunctionOnSet(f, s) \notin Int}
<1> SUFFICES ASSUME Bad # {} PROVE FALSE
  OBVIOUS
<1>1. PICK s \in Bad : \A t \in Bad : t \subseteq s => t = s
  <2>1. Bad \subseteq SUBSET S
    OBVIOUS
  <2> HIDE DEF Bad
  <2> QED
    BY <2>1, Least
<1>2. IsFiniteSet(s)
  BY FS_Subset
<1>3. s # {}
  <2>1. SumFunctionOnSet(f, {}) \in Int
    BY SumEmpty
  <2> QED
    BY <2>1
<1>4. First(s) \in s
  BY <1>3, FirstIn
<1>5. SumFunctionOnSet(f, s \ {First(s)}) \in Int
  BY <1>1, <1>4
<1>6. SumFunctionOnSet(f, s) = f[First(s)] + SumFunctionOnSet(f, s \ {First(s)})
  BY <1>2, <1>3, SumStep
<1>7. f[First(s)] \in Int
  BY <1>4
<1> HIDE DEF Bad
<1>8. SumFunctionOnSet(f, s) \in Int
  BY <1>5, <1>6, <1>7
<1> QED
  BY <1>8 DEF Bad

LEMMA SumWithout ==
    ASSUME NEW S, IsFiniteSet(S), NEW f, \A x \in S : f[x] \in Int, NEW x \in S
    PROVE  SumFunctionOnSet(f, S) = f[x] + SumFunctionOnSet(f, S \ {x})
<1> DEFINE Bad == {s \in SUBSET S : \E y \in s : SumFunctionOnSet(f, s) # f[y] + SumFunctionOnSet(f, s \ {y})}
<1> SUFFICES ASSUME Bad # {} PROVE FALSE
  OBVIOUS
<1>1. PICK s \in Bad : \A t \in Bad : t \subseteq s => t = s
  <2>1. Bad \subseteq SUBSET S
    OBVIOUS
  <2> HIDE DEF Bad
  <2> QED
    BY <2>1, Least
<1>2. PICK y \in s : SumFunctionOnSet(f, s) # f[y] + SumFunctionOnSet(f, s \ {y})
  BY <1>1
<1> DEFINE c == First(s)
<1>3. c \in s
  BY FirstIn
<1>4. \A t \in SUBSET S : IsFiniteSet(t) /\ SumFunctionOnSet(f, t) \in Int
  BY FS_Subset, SumType
<1>5. SumFunctionOnSet(f, s) = f[c] + SumFunctionOnSet(f, s \ {c})
  BY <1>3, <1>4, SumStep
<1>6. c # y
  BY <1>2, <1>5
<1>7. SumFunctionOnSet(f, s \ {c}) = f[y] + SumFunctionOnSet(f, (s \ {c}) \ {y})
  <2>1. s \ {c} \notin Bad /\ y \in s \ {c} /\ s \ {c} \in SUBSET S
    BY <1>1, <1>3, <1>6
  <2> QED
    BY <2>1
<1>8. SumFunctionOnSet(f, s \ {y}) = f[c] + SumFunctionOnSet(f, (s \ {y}) \ {c})
  <2>1. s \ {y} \notin Bad /\ c \in s \ {y} /\ s \ {y} \in SUBSET S
    BY <1>1, <1>3, <1>6
  <2> QED
    BY <2>1
<1>9. (s \ {c}) \ {y} = (s \ {y}) \ {c}
  OBVIOUS
<1>10. /\ f[c] \in Int /\ f[y] \in Int /\ SumFunctionOnSet(f, (s \ {c}) \ {y}) \in Int
  <2>1. (s \ {c}) \ {y} \in SUBSET S
    OBVIOUS
  <2> QED
    BY <1>3, <1>4, <2>1
<1>11. SumFunctionOnSet(f, s) = f[y] + SumFunctionOnSet(f, s \ {y})
  <2> DEFINE rest == SumFunctionOnSet(f, (s \ {c}) \ {y})
  <2>1. SumFunctionOnSet(f, s) = f[c] + (f[y] + rest) /\ SumFunctionOnSet(f, s \ {y}) = f[c] + rest
    BY <1>5, <1>7, <1>8, <1>9
  <2>2. rest \in Int
    BY <1>10
  <2> HIDE DEF rest, Bad, c
  <2> QED
    BY <1>10, <2>1, <2>2
<1> QED
  BY <1>2, <1>11

\* One element more.
LEMMA SumWith ==
    ASSUME NEW S, IsFiniteSet(S), NEW f, NEW x, x \notin S, \A y \in S \cup {x} : f[y] \in Int
    PROVE  SumFunctionOnSet(f, S \cup {x}) = SumFunctionOnSet(f, S) + f[x]
<1>1. IsFiniteSet(S \cup {x}) /\ (S \cup {x}) \ {x} = S
  BY FS_AddElement
<1>2. SumFunctionOnSet(f, S \cup {x}) = f[x] + SumFunctionOnSet(f, (S \cup {x}) \ {x})
  BY <1>1, SumWithout
<1>3. SumFunctionOnSet(f, S) \in Int /\ f[x] \in Int
  BY SumType
<1>4. SumFunctionOnSet(f, S \cup {x}) = f[x] + SumFunctionOnSet(f, S)
  BY <1>1, <1>2
<1> QED
  BY <1>3, <1>4

\* Of two functions, the one that is nowhere larger has the smaller sum.
LEMMA SumOrder ==
    ASSUME NEW S, IsFiniteSet(S), NEW f, NEW g, \A x \in S : f[x] \in Int /\ g[x] \in Int /\ f[x] <= g[x]
    PROVE  SumFunctionOnSet(f, S) <= SumFunctionOnSet(g, S)
<1> DEFINE Bad == {s \in SUBSET S : ~ (SumFunctionOnSet(f, s) <= SumFunctionOnSet(g, s))}
<1> SUFFICES ASSUME Bad # {} PROVE FALSE
  OBVIOUS
<1>1. PICK s \in Bad : \A t \in Bad : t \subseteq s => t = s
  <2>1. Bad \subseteq SUBSET S
    OBVIOUS
  <2> HIDE DEF Bad
  <2> QED
    BY <2>1, Least
<1>2. s \subseteq S /\ IsFiniteSet(s) /\ s # {}
  <2>1. SumFunctionOnSet(f, {}) <= SumFunctionOnSet(g, {})
    BY SumEmpty
  <2> QED
    BY <2>1, FS_Subset
<1>3. PICK x : x \in s
  BY <1>2
<1> DEFINE r == s \ {x}
<1>4. /\ SumFunctionOnSet(f, s) = f[x] + SumFunctionOnSet(f, r)
      /\ SumFunctionOnSet(g, s) = g[x] + SumFunctionOnSet(g, r)
  BY <1>2, <1>3, SumWithout
<1>5. SumFunctionOnSet(f, r) \in Int /\ SumFunctionOnSet(g, r) \in Int
  <2>1. IsFiniteSet(r) /\ r \subseteq S
    BY <1>2, FS_Subset
  <2> HIDE DEF r, Bad
  <2> QED
    BY <2>1, SumType
<1>6. SumFunctionOnSet(f, r) <= SumFunctionOnSet(g, r)
  BY <1>1, <1>3
<1>7. f[x] \in Int /\ g[x] \in Int /\ f[x] <= g[x]
  BY <1>2, <1>3
<1>8. SumFunctionOnSet(f, s) <= SumFunctionOnSet(g, s)
  <2> HIDE DEF r, Bad
  <2> QED
    BY <1>4, <1>5, <1>6, <1>7
<1> QED
  BY <1>8

\* Natural numbers add up to one, and the fewer the less.
LEMMA SumNat ==
    ASSUME NEW S, IsFiniteSet(S), NEW f, \A x \in S : f[x] \in Nat
    PROVE  SumFunctionOnSet(f, S) \in Nat
<1> DEFINE Bad == {s \in SUBSET S : SumFunctionOnSet(f, s) \notin Nat}
<1> SUFFICES ASSUME Bad # {} PROVE FALSE
  OBVIOUS
<1>1. PICK s \in Bad : \A t \in Bad : t \subseteq s => t = s
  <2>1. Bad \subseteq SUBSET S
    OBVIOUS
  <2> HIDE DEF Bad
  <2> QED
    BY <2>1, Least
<1>2. s \subseteq S /\ IsFiniteSet(s) /\ s # {}
  <2>1. SumFunctionOnSet(f, {}) \in Nat
    BY SumEmpty
  <2> QED
    BY <2>1, FS_Subset
<1>3. PICK x : x \in s
  BY <1>2
<1>4. SumFunctionOnSet(f, s) = f[x] + SumFunctionOnSet(f, s \ {x})
  BY <1>2, <1>3, SumWithout
<1>5. SumFunctionOnSet(f, s \ {x}) \in Nat
  BY <1>1, <1>3
<1>6. f[x] \in Nat
  BY <1>2, <1>3
<1>7. SumFunctionOnSet(f, s) \in Nat
  <2> HIDE DEF Bad
  <2> QED
    BY <1>4, <1>5, <1>6
<1> QED
  BY <1>7

LEMMA SumFewer ==
    ASSUME NEW T, IsFiniteSet(T), NEW f, \A x \in T : f[x] \in Nat, NEW S, S \subseteq T
    PROVE  SumFunctionOnSet(f, S) <= SumFunctionOnSet(f, T)
<1> DEFINE Bad == {t \in SUBSET (T \ S) : ~ (SumFunctionOnSet(f, S) <= SumFunctionOnSet(f, S \cup t))}
<1>1. \A t \in SUBSET T : IsFiniteSet(t) /\ SumFunctionOnSet(f, t) \in Nat
  BY FS_Subset, SumNat
<1>2. SUFFICES ASSUME Bad # {} PROVE FALSE
  <2>1. T \ S \in SUBSET (T \ S) /\ S \cup (T \ S) = T
    OBVIOUS
  <2>2. Bad = {} => SumFunctionOnSet(f, S) <= SumFunctionOnSet(f, S \cup (T \ S))
    BY <2>1
  <2> HIDE DEF Bad
  <2> QED
    BY <2>1, <2>2
<1>3. PICK t \in Bad : \A u \in Bad : u \subseteq t => u = t
  <2>1. Bad \subseteq SUBSET (T \ S) /\ IsFiniteSet(T \ S)
    BY FS_Subset
  <2> HIDE DEF Bad
  <2> QED
    BY <1>2, <2>1, Least
<1>4. t \subseteq T \ S /\ t # {}
  <2>1. S \cup {} = S
    OBVIOUS
  <2>2. SumFunctionOnSet(f, S) <= SumFunctionOnSet(f, S \cup {})
    BY <1>1, <2>1
  <2> QED
    BY <2>2
<1>5. PICK x : x \in t
  BY <1>4
<1> DEFINE r == S \cup (t \ {x})
<1>6. SumFunctionOnSet(f, S) <= SumFunctionOnSet(f, r)
  <2>1. t \ {x} \in SUBSET (T \ S) /\ t \ {x} \notin Bad
    BY <1>3, <1>4, <1>5
  <2> QED
    BY <2>1
<1>7. S \cup t = r \cup {x} /\ x \notin r /\ r \subseteq T /\ x \in T
  BY <1>4, <1>5
<1>8. SumFunctionOnSet(f, S \cup t) = SumFunctionOnSet(f, r) + f[x]
  <2> HIDE DEF r, Bad
  <2>1. \A y \in r \cup {x} : f[y] \in Int
    BY <1>7
  <2>2. IsFiniteSet(r) /\ x \notin r
    BY <1>1, <1>7
  <2>3. SumFunctionOnSet(f, r \cup {x}) = SumFunctionOnSet(f, r) + f[x]
    BY <2>1, <2>2, SumWith
  <2> QED
    BY <1>7, <2>3
<1>9. SumFunctionOnSet(f, S) <= SumFunctionOnSet(f, S \cup t)
  <2> HIDE DEF r, Bad
  <2>1. f[x] \in Nat /\ SumFunctionOnSet(f, r) \in Nat /\ SumFunctionOnSet(f, S) \in Nat
    BY <1>1, <1>7
  <2> QED
    BY <1>6, <1>8, <2>1
<1> QED
  BY <1>9

\* Functions that agree have the same sum.
LEMMA SumSame ==
    ASSUME NEW S, IsFiniteSet(S), NEW f, NEW g, \A x \in S : f[x] \in Int /\ g[x] = f[x]
    PROVE  SumFunctionOnSet(f, S) = SumFunctionOnSet(g, S)
<1>1. \A x \in S : f[x] \in Int /\ g[x] \in Int /\ f[x] <= g[x] /\ g[x] <= f[x]
  OBVIOUS
<1>2. SumFunctionOnSet(f, S) <= SumFunctionOnSet(g, S)
  BY <1>1, SumOrder
<1>3. SumFunctionOnSet(g, S) <= SumFunctionOnSet(f, S)
  BY <1>1, SumOrder
<1>4. SumFunctionOnSet(f, S) \in Int /\ SumFunctionOnSet(g, S) \in Int
  BY <1>1, SumType
<1> QED
  BY <1>2, <1>3, <1>4

\* The sums of two sets that have nothing in common.
LEMMA SumUnion ==
    ASSUME NEW S, IsFiniteSet(S), NEW T, IsFiniteSet(T), S \cap T = {}, NEW f, \A x \in S \cup T : f[x] \in Int
    PROVE  SumFunctionOnSet(f, S \cup T) = SumFunctionOnSet(f, S) + SumFunctionOnSet(f, T)
<1> DEFINE Bad == {t \in SUBSET T : SumFunctionOnSet(f, S \cup t) # SumFunctionOnSet(f, S) + SumFunctionOnSet(f, t)}
<1> SUFFICES ASSUME Bad # {} PROVE FALSE
  <2>1. T \in SUBSET T
    OBVIOUS
  <2> QED
    BY <2>1
<1>1. PICK t \in Bad : \A u \in Bad : u \subseteq t => u = t
  <2>1. Bad \subseteq SUBSET T
    OBVIOUS
  <2> HIDE DEF Bad
  <2> QED
    BY <2>1, Least
<1>2. \A u \in SUBSET T : IsFiniteSet(u) /\ IsFiniteSet(S \cup u) /\ SumFunctionOnSet(f, u) \in Int
  BY FS_Subset, FS_Union, SumType
<1>3. SumFunctionOnSet(f, S) \in Int
  BY SumType
<1>4. t # {}
  <2>1. S \cup {} = S
    OBVIOUS
  <2>2. SumFunctionOnSet(f, S \cup {}) = SumFunctionOnSet(f, S) + SumFunctionOnSet(f, {})
    BY <1>3, <2>1, SumEmpty
  <2> QED
    BY <2>2
<1>5. PICK x : x \in t
  BY <1>4
<1> DEFINE r == t \ {x}
<1>6. SumFunctionOnSet(f, S \cup r) = SumFunctionOnSet(f, S) + SumFunctionOnSet(f, r)
  BY <1>1, <1>5
<1>7. /\ r \in SUBSET T /\ t = r \cup {x} /\ S \cup t = (S \cup r) \cup {x}
      /\ x \notin r /\ x \notin S \cup r /\ x \in T
  BY <1>1, <1>5
<1> HIDE DEF r
<1>8. SumFunctionOnSet(f, t) = SumFunctionOnSet(f, r) + f[x]
  <2>1. IsFiniteSet(r) /\ \A y \in r \cup {x} : f[y] \in Int
    BY <1>2, <1>7
  <2> HIDE DEF Bad
  <2> QED
    BY <1>7, <2>1, SumWith
<1>9. SumFunctionOnSet(f, S \cup t) = SumFunctionOnSet(f, S \cup r) + f[x]
  <2>1. IsFiniteSet(S \cup r) /\ \A y \in (S \cup r) \cup {x} : f[y] \in Int
    BY <1>2, <1>7
  <2> HIDE DEF Bad
  <2> QED
    BY <1>7, <2>1, SumWith
<1>10. SumFunctionOnSet(f, S \cup t) = SumFunctionOnSet(f, S) + SumFunctionOnSet(f, t)
  <2>1. f[x] \in Int /\ SumFunctionOnSet(f, r) \in Int
    BY <1>2, <1>7
  <2> HIDE DEF Bad
  <2> QED
    BY <1>3, <1>6, <1>8, <1>9, <2>1
<1> QED
  BY <1>10

\* The sum of differences is the difference of the sums.
LEMMA SumMinus ==
    ASSUME NEW S, IsFiniteSet(S), NEW f, NEW g, NEW h,
           \A x \in S : f[x] \in Int /\ g[x] \in Int /\ h[x] = f[x] - g[x]
    PROVE  SumFunctionOnSet(h, S) = SumFunctionOnSet(f, S) - SumFunctionOnSet(g, S)
<1> DEFINE Bad == {s \in SUBSET S : SumFunctionOnSet(h, s) # SumFunctionOnSet(f, s) - SumFunctionOnSet(g, s)}
<1> SUFFICES ASSUME Bad # {} PROVE FALSE
  OBVIOUS
<1>1. PICK s \in Bad : \A t \in Bad : t \subseteq s => t = s
  <2>1. Bad \subseteq SUBSET S
    OBVIOUS
  <2> HIDE DEF Bad
  <2> QED
    BY <2>1, Least
<1>2. s \subseteq S /\ IsFiniteSet(s) /\ s # {}
  <2>1. SumFunctionOnSet(h, {}) = SumFunctionOnSet(f, {}) - SumFunctionOnSet(g, {})
    BY SumEmpty
  <2> QED
    BY <2>1, FS_Subset
<1>3. PICK x : x \in s
  BY <1>2
<1> DEFINE r == s \ {x}
<1>4. f[x] \in Int /\ g[x] \in Int /\ h[x] = f[x] - g[x] /\ \A y \in s : f[y] \in Int /\ g[y] \in Int /\ h[y] \in Int
  BY <1>2, <1>3
<1>5. /\ SumFunctionOnSet(f, s) = f[x] + SumFunctionOnSet(f, r)
      /\ SumFunctionOnSet(g, s) = g[x] + SumFunctionOnSet(g, r)
      /\ SumFunctionOnSet(h, s) = h[x] + SumFunctionOnSet(h, r)
  <2> HIDE DEF Bad
  <2> QED
    BY <1>2, <1>3, <1>4, SumWithout
<1>6. SumFunctionOnSet(h, r) = SumFunctionOnSet(f, r) - SumFunctionOnSet(g, r)
  BY <1>1, <1>3
<1>7. SumFunctionOnSet(f, r) \in Int /\ SumFunctionOnSet(g, r) \in Int
  <2>1. IsFiniteSet(r) /\ r \subseteq s
    BY <1>2, FS_Subset
  <2> HIDE DEF r, Bad
  <2> QED
    BY <1>4, <2>1, SumType
<1>8. SumFunctionOnSet(h, s) = SumFunctionOnSet(f, s) - SumFunctionOnSet(g, s)
  <2> HIDE DEF r, Bad
  <2> QED
    BY <1>4, <1>5, <1>6, <1>7
<1> QED
  BY <1>8

\* What has no amount does not count.
LEMMA SumMore ==
    ASSUME NEW T, IsFiniteSet(T), NEW f, NEW S, S \subseteq T, \A x \in S : f[x] \in Int, \A x \in T \ S : f[x] = 0
    PROVE  SumFunctionOnSet(f, T) = SumFunctionOnSet(f, S)
<1>1. IsFiniteSet(S) /\ IsFiniteSet(T \ S) /\ S \cap (T \ S) = {} /\ S \cup (T \ S) = T
  BY FS_Subset
<1>2. \A x \in T \ S : f[x] \in Int /\ f[x] = f[x] - f[x]
  OBVIOUS
<1>3. SumFunctionOnSet(f, T \ S) = SumFunctionOnSet(f, T \ S) - SumFunctionOnSet(f, T \ S)
  BY <1>1, <1>2, SumMinus
<1>4. SumFunctionOnSet(f, T \ S) \in Int /\ SumFunctionOnSet(f, S) \in Int
  BY <1>1, <1>2, SumType
<1>5. SumFunctionOnSet(f, S \cup (T \ S)) = SumFunctionOnSet(f, S) + SumFunctionOnSet(f, T \ S)
  BY <1>1, <1>2, SumUnion
<1>6. SumFunctionOnSet(f, T \ S) = 0
  BY <1>3, <1>4
<1>7. SumFunctionOnSet(f, T) = SumFunctionOnSet(f, S) + SumFunctionOnSet(f, T \ S)
  BY <1>1, <1>5
<1> QED
  BY <1>4, <1>6, <1>7

\* One amount changes.
LEMMA SumChange ==
    ASSUME NEW S, IsFiniteSet(S), NEW f, NEW g, NEW x \in S,
           \A y \in S : f[y] \in Int /\ g[y] \in Int, \A y \in S \ {x} : g[y] = f[y]
    PROVE  SumFunctionOnSet(g, S) = SumFunctionOnSet(f, S) + g[x] - f[x]
<1>1. SumFunctionOnSet(f, S) = f[x] + SumFunctionOnSet(f, S \ {x})
  BY SumWithout
<1>2. SumFunctionOnSet(g, S) = g[x] + SumFunctionOnSet(g, S \ {x})
  BY SumWithout
<1>3. IsFiniteSet(S \ {x})
  BY FS_Subset
<1>4. SumFunctionOnSet(f, S \ {x}) = SumFunctionOnSet(g, S \ {x}) /\ SumFunctionOnSet(f, S \ {x}) \in Int
  BY <1>3, SumSame, SumType
<1> QED
  BY <1>1, <1>2, <1>4

----
(***************************************************************************)
(* Admission control: slots are given back on every way out.  The          *)
(* invariant counts the requests by their program counter, and says that   *)
(* the line holds those that wait, each once.                              *)
(***************************************************************************)

Pcs == {"new", "full", "select", "waiting", "sent", "leave", "rules", "done"}

\* The requests that are at one of these steps, and how many.
In(f, S) == {r \in Requests : f[r] \in S}
Many(f, S) == Cardinality(In(f, S))

Taking == {"sent", "rules"}
Counted == {"select", "waiting", "sent", "leave"}
Placed == {"select", "waiting", "sent"}

LimiterType ==
    /\ used \in Nat /\ queued \in Nat
    /\ line \in Seq(Requests)
    /\ pc \in [Requests -> Pcs]

LineInv ==
    /\ \A i \in DOMAIN line : pc[line[i]] = "waiting"
    /\ \A i, j \in DOMAIN line : line[i] = line[j] => i = j
    /\ Len(line) = Many(pc, {"waiting"})

SlotInv ==
    /\ used = Many(pc, Taking) /\ used <= InFlight
    /\ line # <<>> => used = InFlight

QueueInv ==
    /\ queued = Many(pc, Counted)
    /\ Many(pc, Placed) <= Queue

IInv == LimiterType /\ LineInv /\ SlotInv /\ QueueInv

----
(* Counting *)

LEMMA Finite ==
    ASSUME NEW f, NEW S
    PROVE  IsFiniteSet(In(f, S)) /\ Many(f, S) \in Nat
BY FiniteRequests, FS_Subset, FS_CardinalityType DEF In, Many

\* The count of a set of steps before and after request r has moved to step q.
Shifts(f, g, r, q, S) ==
    /\ Many(f, S) \in Nat /\ Many(g, S) \in Nat
    /\ Many(g, S) = Many(f, S) + (IF q \in S THEN 1 ELSE 0) - (IF f[r] \in S THEN 1 ELSE 0)

LEMMA Move ==
    ASSUME NEW f \in [Requests -> Pcs], NEW r \in Requests, NEW q \in Pcs, NEW g,
           g = [f EXCEPT ![r] = q]
    PROVE  g \in [Requests -> Pcs] /\ \A S : Shifts(f, g, r, q, S)
<1>1. g \in [Requests -> Pcs]
  OBVIOUS
<1> SUFFICES ASSUME NEW S PROVE Shifts(f, g, r, q, S)
  BY <1>1
<1>2. IsFiniteSet(In(f, S)) /\ IsFiniteSet(In(g, S)) /\ Many(f, S) \in Nat /\ Many(g, S) \in Nat
  BY Finite
<1>3. r \in In(f, S) <=> f[r] \in S
  BY DEF In
<1>4. CASE q \in S
  <2>1. In(g, S) = In(f, S) \cup {r}
    BY <1>4 DEF In
  <2>2. Many(g, S) = IF f[r] \in S THEN Many(f, S) ELSE Many(f, S) + 1
    BY <1>2, <1>3, <2>1, FS_AddElement DEF Many
  <2> QED
    BY <1>2, <1>4, <2>2 DEF Shifts
<1>5. CASE q \notin S
  <2>1. In(g, S) = In(f, S) \ {r}
    BY <1>5 DEF In
  <2>2. Many(g, S) = IF f[r] \in S THEN Many(f, S) - 1 ELSE Many(f, S)
    BY <1>2, <1>3, <2>1, FS_RemoveElement DEF Many
  <2> QED
    BY <1>2, <1>5, <2>2 DEF Shifts
<1> QED
  BY <1>4, <1>5

\* The four counts of the invariant.
Counts(f, g, r, q) ==
    /\ Shifts(f, g, r, q, Taking) /\ Shifts(f, g, r, q, Counted)
    /\ Shifts(f, g, r, q, Placed) /\ Shifts(f, g, r, q, {"waiting"})

LEMMA MoveAll ==
    ASSUME NEW f \in [Requests -> Pcs], NEW r \in Requests, NEW q \in Pcs, NEW g,
           g = [f EXCEPT ![r] = q]
    PROVE  g \in [Requests -> Pcs] /\ Counts(f, g, r, q)
BY Move, Zenon DEF Counts

----
(* The line *)

\* Requests that move without waiting before or after leave the line as it was.
LEMMA LineStays ==
    ASSUME LimiterType, LineInv, UNCHANGED line, NEW r \in Requests, pc[r] # "waiting",
           NEW q \in Pcs \ {"waiting"}, pc' = [pc EXCEPT ![r] = q]
    PROVE  LineInv'
<1>1. \A i \in DOMAIN line : line[i] \in Requests /\ line[i] # r
  BY DEF LimiterType, LineInv
<1>2. pc \in [Requests -> Pcs] /\ q \in Pcs
  BY DEF LimiterType
<1>3. Counts(pc, pc', r, q)
  BY <1>2, MoveAll
<1>4. Many(pc', {"waiting"}) = Many(pc, {"waiting"})
  BY <1>3 DEF Counts, Shifts
<1> QED
  BY <1>1, <1>4 DEF LineInv, LimiterType

\* Whoever gives a slot back hands it to the head of the line.
LEMMA GivesBack ==
    ASSUME IInv, NEW r \in Requests, pc[r] \in Taking, GiveBack([pc EXCEPT ![r] = "done"])
    PROVE  /\ used' \in Nat /\ line' \in Seq(Requests) /\ pc' \in [Requests -> Pcs]
           /\ LineInv' /\ SlotInv'
           /\ Many(pc', Counted) = Many(pc, Counted) - (IF pc[r] = "sent" THEN 1 ELSE 0)
           /\ Many(pc', Placed) <= Queue
<1> DEFINE p == [pc EXCEPT ![r] = "done"]
<1>0. InFlight \in Nat \ {0} /\ Queue \in Nat
  BY LimitsAreNatural
<1>a. pc \in [Requests -> Pcs] /\ "done" \in Pcs /\ "sent" \in Pcs
  BY DEF IInv, LimiterType, Pcs
<1>b. p \in [Requests -> Pcs] /\ Counts(pc, p, r, "done")
  BY <1>a, MoveAll
<1>1. /\ Many(p, Taking) = Many(pc, Taking) - 1 /\ Many(pc, Taking) \in Nat /\ Many(p, Taking) \in Nat
      /\ Many(p, Counted) = Many(pc, Counted) - (IF pc[r] = "sent" THEN 1 ELSE 0)
      /\ Many(p, Placed) <= Many(pc, Placed) /\ Many(p, Placed) \in Nat /\ Many(pc, Placed) \in Nat
      /\ Many(p, {"waiting"}) = Many(pc, {"waiting"})
  BY <1>b DEF Counts, Shifts, Taking, Counted, Placed
<1>2. CASE line = <<>>
  <2>1. used' = used - 1 /\ pc' = p /\ line' = line
    BY <1>2 DEF GiveBack
  <2>2. LineInv'
    BY <2>1, LineStays DEF IInv, Pcs, Taking
  <2> HIDE DEF p
  <2>a. used = Many(pc, Taking) /\ used <= InFlight
    BY DEF IInv, SlotInv
  <2>b. used' = Many(pc', Taking) /\ used' \in Nat /\ used' <= InFlight
    BY <1>0, <1>1, <2>1, <2>a
  <2>3. SlotInv' /\ used' \in Nat
    BY <1>2, <2>1, <2>b DEF SlotInv
  <2> QED
    BY <1>0, <1>b, <1>1, <2>1, <2>2, <2>3 DEF IInv, LimiterType, QueueInv
<1>3. CASE line # <<>>
  <2> DEFINE h == Head(line)
  <2>1. used' = used /\ line' = Tail(line) /\ pc' = [p EXCEPT ![h] = "sent"]
    BY <1>3 DEF GiveBack
  <2>2. /\ line \in Seq(Requests) /\ h = line[1] /\ 1 \in DOMAIN line /\ Len(line) \in Nat
        /\ Tail(line) \in Seq(Requests) /\ Len(Tail(line)) = Len(line) - 1
        /\ \A i \in DOMAIN Tail(line) : Tail(line)[i] = line[i + 1] /\ i + 1 \in DOMAIN line
    BY <1>3, HeadTailProperties DEF IInv, LimiterType
  <2>3. h \in Requests /\ pc[h] = "waiting" /\ h # r /\ p[h] = "waiting"
    BY <1>a, <2>2 DEF IInv, LineInv, Taking
  <2> HIDE DEF h
  <2>4. /\ pc' \in [Requests -> Pcs]
        /\ Many(pc', Taking) = Many(pc, Taking)
        /\ Many(pc', Counted) = Many(p, Counted)
        /\ Many(pc', Placed) = Many(p, Placed)
        /\ Many(pc', {"waiting"}) = Len(line) - 1
    <3>1. pc' \in [Requests -> Pcs] /\ Counts(p, pc', h, "sent")
      BY <1>a, <1>b, <2>1, <2>3, MoveAll
    <3>2. Many(pc, {"waiting"}) = Len(line)
      BY DEF IInv, LineInv
    <3> HIDE DEF p
    <3> QED
      BY <1>1, <2>3, <3>1, <3>2 DEF Counts, Shifts, Taking, Counted, Placed
  <2>5. LineInv'
    <3>1. \A i \in DOMAIN line' : pc'[line'[i]] = "waiting"
      <4> SUFFICES ASSUME NEW i \in DOMAIN Tail(line) PROVE pc'[Tail(line)[i]] = "waiting"
        BY <2>1
      <4>1. Tail(line)[i] = line[i + 1] /\ i + 1 \in DOMAIN line /\ i + 1 # 1
        BY <2>2
      <4>2. line[i + 1] # h /\ line[i + 1] # r /\ line[i + 1] \in Requests /\ pc[line[i + 1]] = "waiting"
        BY <2>2, <4>1 DEF IInv, LineInv, Taking
      <4>3. p[line[i + 1]] = "waiting"
        BY <1>a, <4>2
      <4> HIDE DEF p
      <4> QED
        BY <1>b, <2>1, <4>1, <4>2, <4>3
    <3>2. \A i, j \in DOMAIN line' : line'[i] = line'[j] => i = j
      BY <2>1, <2>2 DEF IInv, LineInv
    <3> QED
      BY <2>1, <2>2, <2>4, <3>1, <3>2 DEF LineInv
  <2>6. SlotInv'
    BY <1>3, <2>1, <2>4 DEF IInv, SlotInv
  <2> HIDE DEF p
  <2> QED
    BY <1>0, <1>1, <2>1, <2>2, <2>4, <2>5, <2>6 DEF IInv, LimiterType, QueueInv
<1> QED
  BY <1>2, <1>3

\* A sequence without its entry i.
Lacks(s, i, t) ==
    /\ t \in Seq(Requests) /\ Len(t) = Len(s) - 1
    /\ \A k \in 1..(Len(s) - 1) : t[k] = IF k < i THEN s[k] ELSE s[k + 1]

LEMMA Without ==
    ASSUME NEW s \in Seq(Requests), NEW i \in 1..Len(s)
    PROVE  Lacks(s, i, SubSeq(s, 1, i - 1) \o SubSeq(s, i + 1, Len(s)))
<1> DEFINE a == SubSeq(s, 1, i - 1)
           b == SubSeq(s, i + 1, Len(s))
           c == a \o b
<1>1. Len(s) \in Nat /\ i \in Int /\ 1 <= i /\ i <= Len(s) /\ \A k \in 1..Len(s) : s[k] \in Requests
  OBVIOUS
<1>2. a \in Seq(Requests) /\ Len(a) = i - 1 /\ \A k \in 1..(i - 1) : a[k] = s[k]
  <2>1. \A k \in 1..(i - 1) : s[k] \in Requests
    BY <1>1
  <2> QED
    BY <1>1, <2>1, SubSeqProperties
<1>3. b \in Seq(Requests) /\ Len(b) = Len(s) - i /\ \A k \in 1..(Len(s) - i) : b[k] = s[i + k]
  <2>1. i + 1 \in Int /\ Len(s) \in Int /\ \A k \in (i + 1)..Len(s) : s[k] \in Requests
    BY <1>1
  <2>2. /\ b \in Seq(Requests)
        /\ Len(b) = IF i + 1 <= Len(s) THEN Len(s) - (i + 1) + 1 ELSE 0
        /\ \A k \in 1..(Len(s) - (i + 1) + 1) : b[k] = s[(i + 1) + k - 1]
    BY <2>1, SubSeqProperties
  <2> HIDE DEF b
  <2> QED
    BY <1>1, <2>2
<1>4. /\ c \in Seq(Requests) /\ Len(c) = Len(a) + Len(b)
      /\ \A k \in 1..(Len(a) + Len(b)) : c[k] = IF k <= Len(a) THEN a[k] ELSE b[k - Len(a)]
  BY <1>2, <1>3, ConcatProperties
<1> HIDE DEF a, b, c
<1>5. \A k \in 1..(Len(s) - 1) : c[k] = IF k < i THEN s[k] ELSE s[k + 1]
  <2> SUFFICES ASSUME NEW k \in 1..(Len(s) - 1)
               PROVE  c[k] = IF k < i THEN s[k] ELSE s[k + 1]
    OBVIOUS
  <2>0. /\ k \in Int /\ Len(a) = i - 1 /\ k \in 1..(Len(a) + Len(b))
        /\ c[k] = IF k <= Len(a) THEN a[k] ELSE b[k - Len(a)]
    <3>1. Len(a) = i - 1 /\ Len(b) = Len(s) - i
      BY <1>2, <1>3
    <3>2. Len(a) + Len(b) = Len(s) - 1
      BY <1>1, <3>1
    <3> QED
      BY <1>4, <3>1, <3>2
  <2>1. CASE k < i
    <3>1. k <= i - 1 /\ k \in 1..(i - 1)
      BY <1>1, <2>0, <2>1
    <3> QED
      BY <1>2, <2>0, <2>1, <3>1
  <2>2. CASE ~ (k < i)
    <3>1. c[k] = b[k - (i - 1)] /\ k - (i - 1) \in 1..(Len(s) - i)
      <4>1. ~ (k <= i - 1) /\ k - (i - 1) \in 1..(Len(s) - i)
        BY <1>1, <2>0, <2>2
      <4> QED
        BY <2>0, <4>1
    <3>2. b[k - (i - 1)] = s[i + (k - (i - 1))] /\ i + (k - (i - 1)) = k + 1
      BY <1>1, <1>3, <3>1
    <3> QED
      BY <2>2, <3>1, <3>2
  <2> QED
    BY <2>1, <2>2
<1>6. Lacks(s, i, c)
  BY <1>1, <1>2, <1>3, <1>4, <1>5 DEF Lacks
<1> QED
  BY <1>6 DEF a, b, c

\* A request that stops waiting leaves the others in their order.
LEMMA LineLoses ==
    ASSUME LimiterType, LineInv, NEW i \in DOMAIN line, Lacks(line, i, line'),
           pc' = [pc EXCEPT ![line[i]] = "leave"]
    PROVE  LineInv'
<1>1. line \in Seq(Requests) /\ Len(line) \in Nat /\ i \in 1..Len(line) /\ DOMAIN line = 1..Len(line)
  BY DEF LimiterType
<1>4. /\ Len(line') = Len(line) - 1 /\ DOMAIN line' = 1..(Len(line) - 1)
      /\ \A k \in DOMAIN line' : line'[k] = IF k < i THEN line[k] ELSE line[k + 1]
  BY <1>1 DEF Lacks
<1>5. \A k \in DOMAIN line' : \E n \in DOMAIN line : n # i /\ line'[k] = line[n]
  BY <1>1, <1>4
<1>6. \A k \in DOMAIN line' : pc'[line'[k]] = "waiting"
  <2> SUFFICES ASSUME NEW k \in DOMAIN line' PROVE pc'[line'[k]] = "waiting"
    OBVIOUS
  <2>1. PICK n \in DOMAIN line : n # i /\ line'[k] = line[n]
    BY <1>5
  <2>2. line[n] # line[i] /\ line[n] \in Requests /\ pc[line[n]] = "waiting"
    BY <1>1, <2>1 DEF LineInv
  <2>3. pc \in [Requests -> Pcs]
    BY DEF LimiterType
  <2> QED
    BY <2>1, <2>2, <2>3
<1>7. \A k, n \in DOMAIN line' : line'[k] = line'[n] => k = n
  <2> SUFFICES ASSUME NEW k \in DOMAIN line', NEW n \in DOMAIN line', line'[k] = line'[n] PROVE k = n
    OBVIOUS
  <2>1. \A x, y \in DOMAIN line : line[x] = line[y] => x = y
    BY DEF LineInv
  <2> QED
    BY <1>1, <1>4, <2>1
<1>8. Many(pc', {"waiting"}) = Len(line')
  <2>1. pc \in [Requests -> Pcs] /\ line[i] \in Requests /\ "leave" \in Pcs
    BY <1>1 DEF LimiterType, Pcs
  <2>2. Counts(pc, pc', line[i], "leave") /\ pc[line[i]] = "waiting" /\ Many(pc, {"waiting"}) = Len(line)
    BY <2>1, MoveAll DEF LineInv
  <2>3. Shifts(pc, pc', line[i], "leave", {"waiting"})
    BY <2>2 DEF Counts
  <2>4. Many(pc', {"waiting"}) = Len(line) - 1
    BY <2>2, <2>3 DEF Shifts
  <2> QED
    BY <1>4, <2>4
<1> QED
  BY <1>4, <1>6, <1>7, <1>8 DEF LineInv

\* One that starts to wait stands at the end.
LEMMA LineGains ==
    ASSUME LimiterType, LineInv, NEW r \in Requests, pc[r] = "select",
           line' = Append(line, r), pc' = [pc EXCEPT ![r] = "waiting"]
    PROVE  line' \in Seq(Requests) /\ LineInv'
<1>1. line \in Seq(Requests) /\ Len(line) \in Nat /\ DOMAIN line = 1..Len(line)
  BY DEF LimiterType
<1>2. /\ line' \in Seq(Requests) /\ Len(line') = Len(line) + 1 /\ DOMAIN line' = 1..(Len(line) + 1)
      /\ \A k \in 1..Len(line) : line'[k] = line[k]
      /\ line'[Len(line) + 1] = r
  BY <1>1, AppendProperties
<1>3. \A k \in 1..Len(line) : line[k] # r /\ line[k] \in Requests /\ pc[line[k]] = "waiting"
  BY <1>1 DEF LineInv
<1>4. \A k \in DOMAIN line' : pc'[line'[k]] = "waiting"
  BY <1>1, <1>2, <1>3 DEF LimiterType
<1>5. \A k, n \in DOMAIN line' : line'[k] = line'[n] => k = n
  BY <1>1, <1>2, <1>3 DEF LineInv
<1>6. Many(pc', {"waiting"}) = Len(line')
  <2>1. pc \in [Requests -> Pcs] /\ "waiting" \in Pcs /\ Many(pc, {"waiting"}) = Len(line)
    BY DEF LimiterType, LineInv, Pcs
  <2>2. Counts(pc, pc', r, "waiting")
    BY <2>1, MoveAll
  <2> QED
    BY <1>1, <1>2, <2>1, <2>2 DEF Counts, Shifts
<1> QED
  BY <1>2, <1>4, <1>5, <1>6 DEF LineInv

LEMMA Nested ==
    ASSUME NEW f
    PROVE  /\ Many(f, Counted) \in Nat /\ Many(f, Placed) \in Nat /\ Many(f, {"waiting"}) \in Nat
           /\ Many(f, {"waiting"}) <= Many(f, Placed) /\ Many(f, Placed) <= Many(f, Counted)
<1>1. In(f, {"waiting"}) \subseteq In(f, Placed) /\ In(f, Placed) \subseteq In(f, Counted)
  BY DEF In, Placed, Counted
<1> QED
  BY <1>1, Finite, FS_Subset DEF Many

----
(* The invariant *)

LEMMA Starts == Init => IInv
<1> SUFFICES ASSUME Init PROVE IInv
  OBVIOUS
<1>1. \A S \in {Taking, Counted, Placed, {"waiting"}} : Many(pc, S) = 0
  <2>1. \A S \in {Taking, Counted, Placed, {"waiting"}} : In(pc, S) = {}
    BY DEF In, Init, Taking, Counted, Placed
  <2> QED
    BY <2>1, FS_EmptySet DEF Many
<1>2. LimiterType
  BY DEF Init, LimiterType, Pcs
<1>3. LineInv
  BY <1>1 DEF Init, LineInv
<1>4. SlotInv /\ QueueInv
  BY <1>1, LimitsAreNatural DEF Init, SlotInv, QueueInv
<1> QED
  BY <1>2, <1>3, <1>4 DEF IInv

\* The conditions of Moves on the counters.
Fits(p, q) ==
    /\ p \in Pcs \ {"waiting"} /\ q \in Pcs \ {"waiting"}
    /\ used' = used + (IF q \in Taking THEN 1 ELSE 0) - (IF p \in Taking THEN 1 ELSE 0)
    /\ queued' = queued + (IF q \in Counted THEN 1 ELSE 0) - (IF p \in Counted THEN 1 ELSE 0)
    /\ used' <= InFlight /\ (line # <<>> => used' = InFlight)
    /\ q \in Placed /\ p \notin Placed => queued' <= Queue

\* A step of one request that leaves the line as it was.
LEMMA Moves ==
    ASSUME IInv, UNCHANGED line, NEW r \in Requests, NEW q,
           pc' = [pc EXCEPT ![r] = q], Fits(pc[r], q)
    PROVE  IInv'
<1>0. InFlight \in Nat /\ Queue \in Nat
  BY LimitsAreNatural
<1>1. pc \in [Requests -> Pcs] /\ q \in Pcs /\ used \in Nat /\ queued \in Nat
  BY DEF IInv, LimiterType, Fits
<1>f. /\ used' = used + (IF q \in Taking THEN 1 ELSE 0) - (IF pc[r] \in Taking THEN 1 ELSE 0)
      /\ queued' = queued + (IF q \in Counted THEN 1 ELSE 0) - (IF pc[r] \in Counted THEN 1 ELSE 0)
      /\ used' <= InFlight /\ (line # <<>> => used' = InFlight)
      /\ q \in Placed /\ pc[r] \notin Placed => queued' <= Queue
      /\ q # "waiting" /\ pc[r] # "waiting"
  BY DEF Fits
<1>2. pc' \in [Requests -> Pcs] /\ Counts(pc, pc', r, q)
  BY <1>1, MoveAll
<1>3. used = Many(pc, Taking) /\ queued = Many(pc, Counted) /\ Many(pc, Placed) <= Queue
  BY DEF IInv, SlotInv, QueueInv
<1>4. used' = Many(pc', Taking) /\ used' \in Nat
  BY <1>2, <1>3, <1>f DEF Counts, Shifts
<1>5. queued' = Many(pc', Counted) /\ queued' \in Nat
  BY <1>2, <1>3, <1>f DEF Counts, Shifts
<1>6. Many(pc', Placed) <= Queue
  <2>1. Many(pc', Placed) <= Many(pc', Counted) /\ Many(pc', Placed) \in Nat /\ Many(pc, Placed) \in Nat
    BY Nested
  <2>2. CASE q \in Placed /\ pc[r] \notin Placed
    BY <1>0, <1>5, <1>f, <2>1, <2>2
  <2>3. CASE ~ (q \in Placed /\ pc[r] \notin Placed)
    <3>1. Many(pc', Placed) <= Many(pc, Placed)
      BY <1>2, <2>3 DEF Counts, Shifts
    <3> QED
      BY <1>0, <1>3, <2>1, <3>1
  <2> QED
    BY <2>2, <2>3
<1>7. LineInv'
  BY <1>1, <1>f, LineStays DEF IInv
<1>8. LimiterType'
  BY <1>2, <1>4, <1>5 DEF IInv, LimiterType
<1>9. SlotInv' /\ QueueInv'
  BY <1>4, <1>5, <1>6, <1>f DEF SlotInv, QueueInv
<1> QED
  BY <1>7, <1>8, <1>9 DEF IInv

\* A step that touches neither the slots nor the queue.
LEMMA Elsewhere ==
    ASSUME IInv, UNCHANGED <<limiterVars, pc>>
    PROVE  IInv'
BY DEF IInv, LimiterType, LineInv, SlotInv, QueueInv, limiterVars, Many, In

LEMMA Steps == IInv /\ [Next]_vars => IInv'
<1> SUFFICES ASSUME IInv, [Next]_vars PROVE IInv'
  OBVIOUS
<1>0. InFlight \in Nat /\ Queue \in Nat /\ used \in Nat /\ queued \in Nat /\ pc \in [Requests -> Pcs]
  BY LimitsAreNatural DEF IInv, LimiterType
<1>t. used <= InFlight /\ (line # <<>> => used = InFlight)
  BY DEF IInv, SlotInv
<1>q. queued = Many(pc, Counted) /\ Many(pc, Placed) <= Queue
  BY DEF IInv, QueueInv
<1>1. ASSUME NEW r \in Requests, Arrive(r) PROVE IInv'
  <2>1. pc[r] = "new" /\ UNCHANGED <<line, queued>>
    BY <1>1 DEF Arrive
  <2>2. CASE used < InFlight
    <3>1. used' = used + 1 /\ pc' = [pc EXCEPT ![r] = "rules"]
      BY <1>1, <2>2 DEF Arrive
    <3>f. Fits("new", "rules")
      BY <1>0, <1>t, <2>1, <2>2, <3>1 DEF Fits, Pcs, Taking, Counted, Placed
    <3> QED
      BY <2>1, <3>1, <3>f, Moves
  <2>3. CASE ~ (used < InFlight)
    <3>1. used' = used /\ pc' = [pc EXCEPT ![r] = "full"]
      BY <1>1, <2>3 DEF Arrive
    <3>f. Fits("new", "full")
      BY <1>0, <1>t, <2>1, <3>1 DEF Fits, Pcs, Taking, Counted, Placed
    <3> QED
      BY <2>1, <3>1, <3>f, Moves
  <2> QED
    BY <2>2, <2>3
<1>2. ASSUME NEW r \in Requests, Count(r) PROVE IInv'
  <2>1. pc[r] = "full" /\ UNCHANGED <<line, used>> /\ queued' = queued + 1
    BY <1>2 DEF Count
  <2>2. CASE Full
    <3>1. pc' = [pc EXCEPT ![r] = "leave"]
      BY <1>2, <2>2 DEF Count
    <3>f. Fits("full", "leave")
      BY <1>0, <1>t, <2>1, <3>1 DEF Fits, Pcs, Taking, Counted, Placed
    <3> QED
      BY <2>1, <3>1, <3>f, Moves
  <2>3. CASE ~ Full
    <3>1. pc' = [pc EXCEPT ![r] = "select"] /\ queued' <= Queue
      BY <1>0, <1>2, <2>1, <2>3 DEF Count, Full
    <3>f. Fits("full", "select")
      BY <1>0, <1>t, <2>1, <3>1 DEF Fits, Pcs, Taking, Counted, Placed
    <3> QED
      BY <2>1, <3>1, <3>f, Moves
  <2> QED
    BY <2>2, <2>3
<1>3. ASSUME NEW r \in Requests, Select(r) PROVE IInv'
  <2>1. pc[r] = "select" /\ UNCHANGED queued
    BY <1>3 DEF Select
  <2>2. CASE used < InFlight
    <3>1. used' = used + 1 /\ pc' = [pc EXCEPT ![r] = "sent"] /\ UNCHANGED line
      BY <1>3, <2>2 DEF Select
    <3>f. Fits("select", "sent")
      BY <1>0, <1>t, <2>1, <2>2, <3>1 DEF Fits, Pcs, Taking, Counted, Placed
    <3> QED
      BY <2>1, <3>1, <3>f, Moves
  <2>3. CASE ~ (used < InFlight)
    <3>1. line' = Append(line, r) /\ pc' = [pc EXCEPT ![r] = "waiting"] /\ used' = used
      BY <1>3, <2>3 DEF Select
    <3>2. line' \in Seq(Requests) /\ LineInv'
      BY <2>1, <3>1, LineGains DEF IInv
    <3>3. pc' \in [Requests -> Pcs] /\ Counts(pc, pc', r, "waiting")
      BY <1>0, <3>1, MoveAll DEF Pcs
    <3>4. /\ Many(pc', Taking) = Many(pc, Taking) /\ Many(pc', Counted) = Many(pc, Counted)
          /\ Many(pc', Placed) = Many(pc, Placed)
      BY <2>1, <3>3 DEF Counts, Shifts, Taking, Counted, Placed
    <3>5. LimiterType'
      BY <1>0, <2>1, <3>1, <3>2, <3>3 DEF LimiterType
    <3>6. SlotInv' /\ QueueInv'
      BY <1>0, <1>t, <1>q, <2>1, <2>3, <3>1, <3>4 DEF IInv, SlotInv, QueueInv
    <3> QED
      BY <3>2, <3>5, <3>6 DEF IInv
  <2> QED
    BY <2>2, <2>3
<1>4. ASSUME NEW r \in Requests, Admit(r) PROVE IInv'
  <2>1. pc[r] = "sent" /\ queued' = queued - 1
    BY <1>4 DEF Admit
  <2>2. CASE r \in gone
    <3>1. GiveBack([pc EXCEPT ![r] = "done"])
      BY <1>4, <2>2 DEF Admit, Abandoned
    <3>2. /\ used' \in Nat /\ line' \in Seq(Requests) /\ pc' \in [Requests -> Pcs]
          /\ LineInv' /\ SlotInv'
          /\ Many(pc', Counted) = Many(pc, Counted) - 1 /\ Many(pc', Placed) <= Queue
      BY <2>1, <3>1, GivesBack DEF Taking
    <3>3. queued' = Many(pc', Counted) /\ queued' \in Nat
      BY <1>q, <2>1, <3>2, Nested
    <3> QED
      BY <3>2, <3>3 DEF IInv, LimiterType, QueueInv
  <2>3. CASE r \notin gone
    <3>1. pc' = [pc EXCEPT ![r] = "rules"] /\ UNCHANGED <<used, line>>
      BY <1>4, <2>3 DEF Admit
    <3>f. Fits("sent", "rules")
      BY <1>0, <1>t, <2>1, <3>1 DEF Fits, Pcs, Taking, Counted, Placed
    <3> QED
      BY <2>1, <3>1, <3>f, Moves
  <2> QED
    BY <2>2, <2>3
<1>5. ASSUME NEW r \in Requests, StopWaiting(r) PROVE IInv'
  <2>1. pc[r] = "waiting" /\ UNCHANGED <<used, queued>> /\ pc' = [pc EXCEPT ![r] = "leave"]
    BY <1>5 DEF StopWaiting
  <2>2. PICK i \in DOMAIN line :
           line[i] = r /\ line' = SubSeq(line, 1, i - 1) \o SubSeq(line, i + 1, Len(line))
    BY <1>5 DEF StopWaiting
  <2>3. line \in Seq(Requests) /\ i \in 1..Len(line)
    BY DEF IInv, LimiterType
  <2>4. Lacks(line, i, line')
    BY <2>2, <2>3, Without
  <2>5. LineInv' /\ line' \in Seq(Requests)
    BY <2>1, <2>2, <2>4, LineLoses DEF IInv, Lacks
  <2>6. pc' \in [Requests -> Pcs] /\ Counts(pc, pc', r, "leave")
    BY <1>0, <2>1, MoveAll DEF Pcs
  <2>7. /\ Many(pc', Taking) = Many(pc, Taking) /\ Many(pc', Counted) = Many(pc, Counted)
        /\ Many(pc', Placed) = Many(pc, Placed) - 1 /\ Many(pc, Placed) \in Nat
    BY <2>1, <2>6 DEF Counts, Shifts, Taking, Counted, Placed
  <2>8. LimiterType'
    BY <1>0, <2>1, <2>5, <2>6 DEF LimiterType
  <2>9. line # <<>>
    BY <2>3
  <2>10. SlotInv' /\ QueueInv'
    BY <1>0, <1>t, <1>q, <2>1, <2>7, <2>9 DEF IInv, SlotInv, QueueInv
  <2> QED
    BY <2>5, <2>8, <2>10 DEF IInv
<1>6. ASSUME NEW r \in Requests, Leave(r) PROVE IInv'
  <2>1. /\ pc[r] = "leave" /\ UNCHANGED <<used, line>> /\ queued' = queued - 1
        /\ pc' = [pc EXCEPT ![r] = "done"]
    BY <1>6 DEF Leave
  <2>f. Fits("leave", "done")
    BY <1>0, <1>t, <2>1 DEF Fits, Pcs, Taking, Counted, Placed
  <2> QED
    BY <2>1, <2>f, Moves
<1>7. ASSUME NEW r \in Requests, HangUp(r) PROVE IInv'
  BY <1>7, Elsewhere DEF HangUp
<1>8. ASSUME NEW r \in Requests, Observe(r) PROVE IInv'
  BY <1>8, Elsewhere DEF Observe
<1>9. ASSUME NEW r \in Requests, Finish(r) PROVE IInv'
  <2>1. pc[r] = "rules" /\ UNCHANGED queued /\ GiveBack([pc EXCEPT ![r] = "done"])
    BY <1>9 DEF Finish
  <2>2. /\ used' \in Nat /\ line' \in Seq(Requests) /\ pc' \in [Requests -> Pcs]
        /\ LineInv' /\ SlotInv'
        /\ Many(pc', Counted) = Many(pc, Counted) /\ Many(pc', Placed) <= Queue
    BY <2>1, GivesBack, Nested DEF Taking
  <2> QED
    BY <1>0, <1>q, <2>1, <2>2 DEF IInv, LimiterType, QueueInv
<1>10. ASSUME NEW i \in RuleIds, WindowEnds(i) PROVE IInv'
  BY <1>10, Elsewhere DEF WindowEnds
<1>11. CASE UNCHANGED vars
  BY <1>11, Elsewhere DEF vars
<1> QED
  BY <1>1, <1>2, <1>3, <1>4, <1>5, <1>6, <1>7, <1>8, <1>9, <1>10, <1>11 DEF Next

LEMMA Shows == IInv => SlotsComeBack
<1> SUFFICES ASSUME IInv PROVE SlotsComeBack
  OBVIOUS
<1>1. Slots = In(pc, Taking)
  BY DEF Slots, In, Taking
<1>2. {r \in Requests : pc[r] \in {"select", "waiting", "sent", "leave"}} = In(pc, Counted)
  BY DEF In, Counted
<1>3. Len(line) <= Queue
  BY Nested, LimitsAreNatural DEF IInv, LineInv, QueueInv
<1> QED
  BY <1>1, <1>2, <1>3 DEF IInv, SlotInv, QueueInv, SlotsComeBack, Many

\* Slots are given back on every way out of the middleware, nobody waits while one is
\* free, and the queue is never longer than its limit: for every number of requests.
THEOREM SlotsAreGivenBack == Spec => []SlotsComeBack
BY Starts, Steps, Shows, PTL DEF Spec

----
(***************************************************************************)
(* The velocity rules.  What decides is the sum over the requests that a   *)
(* rule counts and has not stopped: it stays below the threshold, because  *)
(* the counter is never less than what it counts.                          *)
(***************************************************************************)

\* The requests that a rule still counts, and those of them that it has not stopped.
CountedBy(i) == {r \in Requests : i \in counted[r]}
Unstopped(i) ==
    {r \in CountedBy(i) : /\ Checks(i, SubjectOf[r])
                          /\ pc[r] = "rules" => Severity[decision[r]] < Severity[Rules[i].action]}

Stops(i) == Active(i) /\ Refuses(Rules[i].action)

Answers == {"none", "shed", "abandoned", "refused", "failed", "served"}

RuleType ==
    /\ counter \in [RuleIds -> Nat]
    /\ at \in [Requests -> 1..6]
    /\ decision \in [Requests -> DOMAIN Severity]
    /\ counted \in [Requests -> SUBSET RuleIds] /\ barred \in [Requests -> SUBSET RuleIds]
    /\ answer \in [Requests -> Answers]

RequestInv ==
    \A r \in Requests :
        /\ answer[r] = "served" => pc[r] = "done"
        /\ pc[r] \notin {"rules", "done"} => at[r] = From(1, SubjectOf[r])

SumInv ==
    \A i \in RuleIds :
        /\ Added(i, CountedBy(i)) <= counter[i]
        /\ Stops(i) => Added(i, Unstopped(i)) < Threshold[i]

\* A rule that had no room for a request is still ahead of it, or has stopped it.
BarInv ==
    \A r \in Requests, i \in RuleIds :
        Stops(i) /\ i \in barred[r] =>
            /\ answer[r] # "served" /\ Checks(i, SubjectOf[r])
            /\ pc[r] # "done" => /\ counter[i] >= Threshold[i]
                                 /\ at[r] <= i \/ Severity[decision[r]] >= Severity[Rules[i].action]

RuleInv == RuleType /\ RequestInv /\ SumInv /\ BarInv

LEMMA FiveRules ==
    /\ RuleIds = 1..5 /\ Len(Rules) = 5
    /\ \A i \in RuleIds : Rules[i].action \in DOMAIN Severity /\ Threshold[i] \in Nat \ {0}
    /\ DOMAIN Severity = {"allow", "flag", "require_otp", "hold_withdrawal", "freeze"}
    /\ \A d \in DOMAIN Severity : Severity[d] \in Nat
<1>1. RuleIds = 1..5
  BY DEF RuleIds, DefaultRules
<1>2. DOMAIN Rules = 1..5 /\ Len(Rules) = 5
  BY <1>1 DEF Rules
<1>3. \A i \in RuleIds : Rules[i].action = DefaultRules[i].action
  BY DEF Rules, RuleIds, DefaultRules
<1>4. \A i \in RuleIds : DefaultRules[i].action \in {"flag", "freeze", "hold_withdrawal", "require_otp"}
  BY <1>1 DEF DefaultRules
<1> QED
  BY <1>1, <1>2, <1>3, <1>4, ThresholdsAndModes DEF Severity

\* The next rule is the first of those that ask.
LEMMA NextRule ==
    ASSUME NEW k \in 1..6, NEW s
    PROVE  /\ From(k, s) \in 1..6
           /\ \A i \in RuleIds : i >= k /\ Active(i) /\ Checks(i, s) => From(k, s) <= i
<1> DEFINE asking == {j \in RuleIds : j >= k /\ Rules[j].mode # "disabled" /\ (Triggers(j, s) \/ Checks(j, s))}
<1>1. CASE asking = {}
  BY <1>1, FiveRules DEF From, Active
<1>2. CASE asking # {}
  <2>1. \E j \in asking : \A l \in asking : j <= l
    <3>1. asking \subseteq 1..5
      BY FiveRules
    <3> HIDE DEF asking
    <3>2. CASE 1 \in asking
      BY <3>1, <3>2
    <3>3. CASE asking \subseteq 2..5 /\ 2 \in asking
      BY <3>3
    <3>4. CASE asking \subseteq 3..5 /\ 3 \in asking
      BY <3>4
    <3>5. CASE asking \subseteq 4..5 /\ 4 \in asking
      BY <3>5
    <3>6. CASE asking \subseteq {5} /\ 5 \in asking
      BY <3>6
    <3>7. \A j \in asking : j \in {1, 2, 3, 4, 5}
      BY <3>1
    <3>8. /\ 1 \notin asking => asking \subseteq 2..5
          /\ 1 \notin asking /\ 2 \notin asking => asking \subseteq 3..5
          /\ 1 \notin asking /\ 2 \notin asking /\ 3 \notin asking => asking \subseteq 4..5
          /\ 1 \notin asking /\ 2 \notin asking /\ 3 \notin asking /\ 4 \notin asking => asking \subseteq {5}
      BY <3>7
    <3>9. 1 \in asking \/ 2 \in asking \/ 3 \in asking \/ 4 \in asking \/ 5 \in asking
      BY <1>2, <3>7
    <3> QED
      BY <3>2, <3>3, <3>4, <3>5, <3>6, <3>8, <3>9
  <2>2. From(k, s) = CHOOSE j \in asking : \A l \in asking : j <= l
    BY <1>2 DEF From
  <2>3. From(k, s) \in asking /\ \A l \in asking : From(k, s) <= l
    <3> HIDE DEF asking
    <3> QED
      BY <2>1, <2>2
  <2>4. \A i \in RuleIds : i >= k /\ Active(i) /\ Checks(i, s) => i \in asking
    BY DEF Active
  <2> QED
    BY <2>3, <2>4, FiveRules
<1> QED
  BY <1>1, <1>2

LEMMA Weights ==
    ASSUME NEW i \in RuleIds
    PROVE  /\ \A r \in Requests : Delta(i, SubjectOf[r]) \in Nat
           /\ \A S \in SUBSET Requests : Added(i, S) \in Nat
           /\ \A S, T \in SUBSET Requests : S \subseteq T => Added(i, S) <= Added(i, T)
           /\ \A S \in SUBSET Requests, r \in Requests :
                 r \notin S => Added(i, S \cup {r}) = Added(i, S) + Delta(i, SubjectOf[r])
<1> DEFINE f == [r \in Requests |-> Delta(i, SubjectOf[r])]
<1>1. \A r \in Requests : Delta(i, SubjectOf[r]) \in Nat /\ f[r] = Delta(i, SubjectOf[r])
  BY SubjectsAreSubjects DEF Delta
<1>2. \A S \in SUBSET Requests : IsFiniteSet(S) /\ Added(i, S) = SumFunctionOnSet(f, S)
  BY FiniteRequests, FS_Subset DEF Added
<1> HIDE DEF f
<1>3. \A S \in SUBSET Requests : SumFunctionOnSet(f, S) \in Nat
  BY <1>1, <1>2, SumNat
<1>4. \A S, T \in SUBSET Requests : S \subseteq T => SumFunctionOnSet(f, S) <= SumFunctionOnSet(f, T)
  BY <1>1, <1>2, SumFewer
<1>5. \A S \in SUBSET Requests, r \in Requests :
         r \notin S => SumFunctionOnSet(f, S \cup {r}) = SumFunctionOnSet(f, S) + f[r]
  <2> SUFFICES ASSUME NEW S \in SUBSET Requests, NEW r \in Requests, r \notin S
               PROVE  SumFunctionOnSet(f, S \cup {r}) = SumFunctionOnSet(f, S) + f[r]
    OBVIOUS
  <2>1. IsFiniteSet(S) /\ \A y \in S \cup {r} : f[y] \in Int
    BY <1>1, <1>2
  <2> QED
    BY <2>1, SumWith
<1>6. \A S \in SUBSET Requests, r \in Requests : S \cup {r} \in SUBSET Requests
  OBVIOUS
<1> QED
  BY <1>1, <1>2, <1>3, <1>4, <1>5, <1>6

LEMMA Shrinks ==
    ASSUME NEW i \in RuleIds, NEW S \in SUBSET Requests, NEW T \in SUBSET Requests, S \subseteq T, NEW n \in Nat
    PROVE  /\ Added(i, T) <= n => Added(i, S) <= n
           /\ Added(i, T) < n => Added(i, S) < n
BY Weights

LEMMA Sets == \A i \in RuleIds : CountedBy(i) \subseteq Requests /\ Unstopped(i) \subseteq CountedBy(i)
BY DEF CountedBy, Unstopped

LEMMA RulesStart == Init => RuleInv
<1> SUFFICES ASSUME Init PROVE RuleInv
  OBVIOUS
<1>1. RuleType
  BY NextRule, FiveRules DEF Init, RuleType, Answers
<1>2. RequestInv /\ BarInv
  BY DEF Init, RequestInv, BarInv
<1>3. SumInv
  <2>1. ASSUME NEW i \in RuleIds
        PROVE  /\ Added(i, CountedBy(i)) <= counter[i]
               /\ Stops(i) => Added(i, Unstopped(i)) < Threshold[i]
    <3>1. CountedBy(i) = {} /\ Unstopped(i) = {} /\ counter[i] = 0
      BY DEF Init, CountedBy, Unstopped
    <3>2. Added(i, {}) = 0
      BY SumEmpty DEF Added
    <3> QED
      BY <3>1, <3>2, FiveRules
  <2> QED
    BY <2>1 DEF SumInv
<1> QED
  BY <1>1, <1>2, <1>3 DEF RuleInv

\* Requests that move on elsewhere: none of them leaves the rules or ends well.
Unruly ==
    /\ answer' \in [Requests -> Answers]
    /\ \A q \in Requests :
          /\ answer'[q] = "served" => answer[q] = "served"
          /\ pc[q] = "rules" => pc'[q] = "rules"
          /\ pc[q] = "done" => pc'[q] = "done"
          /\ pc'[q] \notin {"rules", "done"} => pc[q] \notin {"rules", "done"}

\* A request is counted by fewer rules, and is stopped by as many.
LEMMA SumsShrink ==
    ASSUME RuleType, SumInv, NEW i \in RuleIds, counter'[i] = counter[i],
           CountedBy(i)' \subseteq CountedBy(i), Stops(i) => Unstopped(i)' \subseteq Unstopped(i)
    PROVE  /\ Added(i, CountedBy(i)') <= counter'[i]
           /\ Stops(i) => Added(i, Unstopped(i)') < Threshold[i]
<1>1. counter[i] \in Nat /\ Threshold[i] \in Nat
  BY FiveRules DEF RuleType
<1>2. CountedBy(i)' \in SUBSET Requests /\ Unstopped(i)' \in SUBSET Requests
  BY DEF CountedBy, Unstopped
<1>3. CountedBy(i) \in SUBSET Requests /\ Unstopped(i) \in SUBSET Requests
  BY DEF CountedBy, Unstopped
<1>4. Added(i, CountedBy(i)) <= counter[i] /\ (Stops(i) => Added(i, Unstopped(i)) < Threshold[i])
  BY DEF SumInv
<1>5. Added(i, CountedBy(i)') <= counter[i]
  BY <1>1, <1>2, <1>3, <1>4, Shrinks
<1>6. Stops(i) => Added(i, Unstopped(i)') < Threshold[i]
  BY <1>1, <1>2, <1>3, <1>4, Shrinks
<1> QED
  BY <1>5, <1>6

LEMMA SumsAreKept ==
    ASSUME RuleType, SumInv, counter' = counter,
           \A i \in RuleIds : /\ CountedBy(i)' \subseteq CountedBy(i)
                              /\ Stops(i) => Unstopped(i)' \subseteq Unstopped(i)
    PROVE  SumInv'
<1>1. ASSUME NEW i \in RuleIds
      PROVE  /\ Added(i, CountedBy(i)') <= counter'[i]
             /\ Stops(i) => Added(i, Unstopped(i)') < Threshold[i]
  BY SumsShrink
<1> QED
  BY <1>1 DEF SumInv, Added, Stops, CountedBy, Unstopped

LEMMA RulesElsewhere ==
    ASSUME RuleInv, UNCHANGED ruleVars, Unruly
    PROVE  RuleInv'
<1>1. RuleType'
  BY DEF RuleInv, RuleType, ruleVars, Unruly
<1>2. RequestInv'
  BY DEF RuleInv, RequestInv, ruleVars, Unruly
<1>3. SumInv'
  <2>1. \A i \in RuleIds : CountedBy(i)' = CountedBy(i) /\ Unstopped(i)' \subseteq Unstopped(i)
    BY DEF CountedBy, Unstopped, ruleVars, Unruly
  <2> QED
    BY <2>1, SumsAreKept DEF RuleInv, ruleVars
<1>4. BarInv'
  BY DEF RuleInv, BarInv, ruleVars, Unruly, Stops
<1> QED
  BY <1>1, <1>2, <1>3, <1>4 DEF RuleInv

\* The slot that a request gives back moves at most one other, from the line.
LEMMA GivenOn ==
    ASSUME IInv, NEW r \in Requests, pc[r] # "waiting", GiveBack([pc EXCEPT ![r] = "done"])
    PROVE  /\ pc'[r] = "done"
           /\ \A q \in Requests \ {r} : pc'[q] = pc[q] \/ (pc[q] = "waiting" /\ pc'[q] = "sent")
<1>0. pc \in [Requests -> Pcs] /\ line \in Seq(Requests)
  BY DEF IInv, LimiterType
<1>1. CASE line = <<>>
  BY <1>0, <1>1 DEF GiveBack
<1>2. CASE line # <<>>
  <2>1. Head(line) \in Requests /\ Head(line) = line[1] /\ 1 \in DOMAIN line
    BY <1>0, <1>2
  <2>2. pc[Head(line)] = "waiting"
    BY <2>1 DEF IInv, LineInv
  <2>3. pc' = [[pc EXCEPT ![r] = "done"] EXCEPT ![Head(line)] = "sent"]
    BY <1>2 DEF GiveBack
  <2> QED
    BY <1>0, <2>1, <2>2, <2>3
<1> QED
  BY <1>1, <1>2

LEMMA RulesArrive ==
    ASSUME IInv, RuleInv, NEW r \in Requests, Arrive(r)
    PROVE  RuleInv'
<1> DEFINE bars == {i \in RuleIds : Checks(i, SubjectOf[r]) /\ counter[i] >= Threshold[i]}
<1>1. /\ pc[r] = "new" /\ \E p \in {"rules", "full"} : pc' = [pc EXCEPT ![r] = p]
      /\ barred' = [barred EXCEPT ![r] = bars]
      /\ UNCHANGED <<counter, at, decision, counted, answer>>
  BY DEF Arrive
<1>2. pc \in [Requests -> Pcs] /\ barred \in [Requests -> SUBSET RuleIds]
  BY DEF IInv, LimiterType, RuleInv, RuleType
<1>3. RuleType'
  BY <1>1, <1>2 DEF RuleInv, RuleType
<1>4. RequestInv'
  BY <1>1, <1>2 DEF RuleInv, RequestInv
<1>5. SumInv'
  <2>1. \A i \in RuleIds : CountedBy(i)' = CountedBy(i) /\ Unstopped(i)' \subseteq Unstopped(i)
    BY <1>1, <1>2 DEF CountedBy, Unstopped
  <2> QED
    BY <1>1, <2>1, SumsAreKept DEF RuleInv
<1>6. BarInv'
  <2>1. \A q \in Requests \ {r} : pc'[q] = pc[q] /\ barred'[q] = barred[q]
    BY <1>1, <1>2
  <2>2. at[r] = From(1, SubjectOf[r]) /\ answer[r] # "served"
    BY <1>1 DEF RuleInv, RequestInv
  <2>3. \A i \in bars : Stops(i) => at[r] <= i
    BY <2>2, NextRule, FiveRules DEF Stops
  <2>4. \A i \in bars : i \in RuleIds /\ Checks(i, SubjectOf[r]) /\ counter[i] >= Threshold[i]
    OBVIOUS
  <2>5. barred'[r] = bars
    BY <1>1, <1>2
  <2> HIDE DEF bars
  <2>6. ASSUME NEW q \in Requests, NEW i \in RuleIds, Stops(i), i \in barred'[q]
        PROVE  /\ answer[q] # "served" /\ Checks(i, SubjectOf[q])
               /\ pc'[q] # "done" => /\ counter[i] >= Threshold[i]
                                     /\ at[q] <= i \/ Severity[decision[q]] >= Severity[Rules[i].action]
    <3>1. CASE q = r
      BY <2>2, <2>3, <2>4, <2>5, <2>6, <3>1
    <3>2. CASE q # r
      BY <2>1, <2>6, <3>2 DEF RuleInv, BarInv
    <3> QED
      BY <3>1, <3>2
  <2> QED
    BY <1>1, <2>6 DEF BarInv, Stops
<1> QED
  BY <1>3, <1>4, <1>5, <1>6 DEF RuleInv

LEMMA RulesFinish ==
    ASSUME IInv, RuleInv, NEW r \in Requests, Finish(r)
    PROVE  RuleInv'
<1>1. /\ pc[r] = "rules" /\ UNCHANGED <<queued, counter, gone>>
      /\ GiveBack([pc EXCEPT ![r] = "done"])
      /\ at' = [at EXCEPT ![r] = From(1, SubjectOf[r])]
      /\ decision' = [decision EXCEPT ![r] = "allow"]
      /\ counted' = [counted EXCEPT ![r] = IF answer'[r] = "served" THEN @ ELSE {}]
      /\ barred' = [barred EXCEPT ![r] = IF answer'[r] = "served" THEN @ ELSE {}]
  BY DEF Finish
<1>2. \E a \in {"failed", "refused", "served"} : answer' = [answer EXCEPT ![r] = a]
  BY DEF Finish
<1>3. answer'[r] = "served" => at[r] \notin RuleIds /\ ~Refuses(decision[r])
  <2>1. answer[r] # "served"
    BY <1>1 DEF RuleInv, RequestInv
  <2>2. \/ at[r] \in RuleIds /\ answer' = [answer EXCEPT ![r] = "failed"]
        \/ /\ at[r] \notin RuleIds
           /\ answer' = [answer EXCEPT ![r] = IF Refuses(decision[r]) THEN "refused" ELSE "served"]
    BY DEF Finish
  <2>3. CASE at[r] \in RuleIds /\ answer' = [answer EXCEPT ![r] = "failed"]
    BY <2>1, <2>3
  <2>4. CASE /\ at[r] \notin RuleIds
             /\ answer' = [answer EXCEPT ![r] = IF Refuses(decision[r]) THEN "refused" ELSE "served"]
    BY <2>1, <2>4
  <2> QED
    BY <2>2, <2>3, <2>4
<1>4. /\ pc'[r] = "done"
      /\ \A q \in Requests \ {r} : pc'[q] = pc[q] \/ (pc[q] = "waiting" /\ pc'[q] = "sent")
  BY <1>1, GivenOn
<1>5. /\ at \in [Requests -> 1..6] /\ decision \in [Requests -> DOMAIN Severity]
      /\ counted \in [Requests -> SUBSET RuleIds] /\ barred \in [Requests -> SUBSET RuleIds]
  BY DEF RuleInv, RuleType
<1>6. RuleType'
  <2>1. From(1, SubjectOf[r]) \in 1..6 /\ "allow" \in DOMAIN Severity
    BY NextRule, FiveRules
  <2> QED
    BY <1>1, <1>2, <1>5, <2>1 DEF RuleInv, RuleType, Answers
<1>7. \A q \in Requests \ {r} : /\ answer'[q] = answer[q] /\ at'[q] = at[q] /\ decision'[q] = decision[q]
                               /\ counted'[q] = counted[q] /\ barred'[q] = barred[q]
  BY <1>1, <1>2, <1>5
<1>8. /\ answer'[r] = "served" => counted'[r] = counted[r] /\ barred'[r] = barred[r]
      /\ answer'[r] # "served" => counted'[r] = {} /\ barred'[r] = {}
  BY <1>1, <1>5
<1>9. RequestInv'
  BY <1>4, <1>7 DEF RuleInv, RequestInv
<1>10. \A i \in RuleIds : Stops(i) /\ answer'[r] = "served" => Severity[decision[r]] < Severity[Rules[i].action]
  <2>1. decision[r] \in DOMAIN Severity
    BY <1>5
  <2> QED
    BY <1>3, <2>1, FiveRules DEF Stops, Refuses
<1>11. SumInv'
  <2>1. \A i \in RuleIds : CountedBy(i)' \subseteq CountedBy(i)
    BY <1>7, <1>8 DEF CountedBy
  <2>2. \A i \in RuleIds : Stops(i) => Unstopped(i)' \subseteq Unstopped(i)
    BY <1>4, <1>7, <1>8, <1>10, <2>1 DEF Unstopped, CountedBy
  <2> QED
    BY <1>1, <2>1, <2>2, SumsAreKept DEF RuleInv
<1>12. BarInv'
  <2>1. ASSUME NEW i \in RuleIds, Stops(i), answer'[r] = "served" PROVE i \notin barred[r]
    <3>1. at[r] = 6
      BY <1>3, <1>5, <2>1, FiveRules
    <3>2. ~ (at[r] <= i)
      BY <3>1, FiveRules
    <3>3. ~ (Severity[decision[r]] >= Severity[Rules[i].action])
      <4>1. Severity[decision[r]] \in Nat /\ Severity[Rules[i].action] \in Nat
        BY <1>5, FiveRules
      <4> QED
        BY <1>10, <2>1, <4>1
    <3> QED
      BY <1>1, <2>1, <3>2, <3>3 DEF RuleInv, BarInv
  <2>2. \A i \in RuleIds : Stops(i) => i \notin barred'[r]
    BY <1>8, <2>1
  <2> QED
    BY <1>1, <1>4, <1>7, <2>2 DEF RuleInv, BarInv, Stops
<1> QED
  BY <1>6, <1>9, <1>11, <1>12 DEF RuleInv

LEMMA RulesWindow ==
    ASSUME RuleInv, NEW i \in RuleIds, WindowEnds(i)
    PROVE  RuleInv'
<1>1. /\ counter' = [counter EXCEPT ![i] = 0]
      /\ counted' = [r \in Requests |-> counted[r] \ {i}]
      /\ barred' = [r \in Requests |-> barred[r] \ {i}]
      /\ UNCHANGED <<at, decision, pc, answer>>
  BY DEF WindowEnds
<1>2. RuleType'
  BY <1>1 DEF RuleInv, RuleType
<1>3. RequestInv'
  BY <1>1 DEF RuleInv, RequestInv
<1>4. counter \in [RuleIds -> Nat]
  BY DEF RuleInv, RuleType
<1>5. SumInv'
  <2>1. ASSUME NEW j \in RuleIds
        PROVE  /\ Added(j, CountedBy(j)') <= counter'[j]
               /\ Stops(j) => Added(j, Unstopped(j)') < Threshold[j]
    <3>1. CASE j = i
      <4>1. CountedBy(j)' = {} /\ Unstopped(j)' = {} /\ counter'[j] = 0
        BY <1>1, <1>4, <3>1 DEF CountedBy, Unstopped
      <4>2. Added(j, {}) = 0
        BY SumEmpty DEF Added
      <4> QED
        BY <4>1, <4>2, FiveRules
    <3>2. CASE j # i
      <4>1. CountedBy(j)' \subseteq CountedBy(j) /\ Unstopped(j)' \subseteq Unstopped(j) /\ counter'[j] = counter[j]
        BY <1>1, <1>4, <3>2 DEF CountedBy, Unstopped
      <4> QED
        BY <4>1, SumsShrink DEF RuleInv
    <3> QED
      BY <3>1, <3>2
  <2> QED
    BY <2>1 DEF SumInv, Added, Stops, CountedBy, Unstopped
<1>6. BarInv'
  <2>1. \A r \in Requests, j \in RuleIds : j \in barred'[r] => j \in barred[r] /\ j # i /\ counter'[j] = counter[j]
    BY <1>1, <1>4
  <2> QED
    BY <1>1, <2>1 DEF RuleInv, BarInv, Stops
<1> QED
  BY <1>2, <1>3, <1>5, <1>6 DEF RuleInv

LEMMA RulesObserve ==
    ASSUME IInv, RuleInv, NEW r \in Requests, Observe(r)
    PROVE  RuleInv'
<1> DEFINE s == SubjectOf[r]
<1>1. PICK i \in RuleIds : i = at[r]
  BY DEF Observe
<1> DEFINE adds == Triggers(i, s)
           observed == IF adds THEN counter[i] + Delta(i, s) ELSE counter[i]
           acts == Active(i) /\ Checks(i, s) /\ Trips(i, observed) /\ Stronger(i, decision[r])
<1>2. /\ pc[r] = "rules" /\ UNCHANGED <<pc, answer, barred>>
      /\ counter' = [counter EXCEPT ![i] = observed]
      /\ counted' = IF adds THEN [counted EXCEPT ![r] = @ \cup {i}] ELSE counted
      /\ decision' = [decision EXCEPT ![r] = IF acts THEN Rules[i].action ELSE @]
      /\ at' = [at EXCEPT ![r] = From(i + 1, s)]
  BY <1>1 DEF Observe
<1>3. /\ counter \in [RuleIds -> Nat] /\ at \in [Requests -> 1..6] /\ decision \in [Requests -> DOMAIN Severity]
      /\ counted \in [Requests -> SUBSET RuleIds]
  BY DEF RuleInv, RuleType
<1>4. /\ observed \in Nat /\ observed >= counter[i]
      /\ adds => observed = counter[i] + Delta(i, s)
      /\ ~adds => observed = counter[i]
  <2>1. counter[i] \in Nat /\ Delta(i, s) \in Nat
    BY <1>3, Weights
  <2> HIDE DEF adds
  <2> QED
    BY <2>1
<1>5. /\ \A q \in Requests \ {r} : decision'[q] = decision[q] /\ at'[q] = at[q] /\ counted'[q] = counted[q]
      /\ \A j \in RuleIds \ {i} : counter'[j] = counter[j]
      /\ counter'[i] = observed
      /\ at'[r] = From(i + 1, s)
      /\ counted'[r] = IF adds THEN counted[r] \cup {i} ELSE counted[r]
      /\ decision'[r] = IF acts THEN Rules[i].action ELSE decision[r]
  <2> HIDE DEF adds, observed, acts
  <2> QED
    BY <1>2, <1>3
<1>6. decision[r] \in DOMAIN Severity /\ decision'[r] \in DOMAIN Severity
  <2> HIDE DEF acts
  <2> QED
    BY <1>3, <1>5, FiveRules
\* The decision never gets weaker, and a rule that trips has its own.
<1>7. Severity[decision'[r]] \in Nat /\ Severity[decision[r]] \in Nat /\ Severity[decision'[r]] >= Severity[decision[r]]
  <2>1. acts => Severity[Rules[i].action] > Severity[decision[r]]
    BY DEF Stronger
  <2> HIDE DEF acts
  <2> QED
    BY <1>5, <1>6, <2>1, FiveRules
<1>8. Stops(i) /\ Checks(i, s) /\ observed >= Threshold[i] => Severity[decision'[r]] >= Severity[Rules[i].action]
  <2> SUFFICES ASSUME Stops(i), Checks(i, s), observed >= Threshold[i]
               PROVE  Severity[decision'[r]] >= Severity[Rules[i].action]
    OBVIOUS
  <2>1. acts <=> Severity[Rules[i].action] > Severity[decision[r]]
    BY DEF Stops, Trips, Stronger
  <2>2. Severity[Rules[i].action] \in Nat
    BY FiveRules
  <2> HIDE DEF acts
  <2> QED
    BY <1>5, <1>7, <2>1, <2>2
<1>9. RuleType'
  <2>1. From(i + 1, s) \in 1..6
    <3>1. i + 1 \in 1..6
      BY FiveRules
    <3> QED
      BY <3>1, NextRule
  <2>2. at' \in [Requests -> 1..6]
    BY <1>2, <1>3, <2>1
  <2>3. decision' \in [Requests -> DOMAIN Severity]
    <3> HIDE DEF acts
    <3> QED
      BY <1>2, <1>3, FiveRules
  <2>4. counter' \in [RuleIds -> Nat]
    <3> HIDE DEF observed
    <3> QED
      BY <1>2, <1>3, <1>4
  <2>5. counted' \in [Requests -> SUBSET RuleIds]
    <3> HIDE DEF adds
    <3> QED
      BY <1>2, <1>3
  <2> QED
    BY <1>2, <2>2, <2>3, <2>4, <2>5 DEF RuleInv, RuleType
<1>10. RequestInv'
  BY <1>2, <1>5 DEF RuleInv, RequestInv
<1> HIDE DEF observed, acts
<1>11. \A j \in RuleIds :
          /\ j # i \/ ~adds => CountedBy(j)' = CountedBy(j)
          /\ j = i /\ adds => CountedBy(j)' = CountedBy(j) \cup {r}
  <2> HIDE DEF adds
  <2>1. \A j \in RuleIds \ {i} : j \in counted'[r] <=> j \in counted[r]
    BY <1>5
  <2>2. adds => i \in counted'[r]
    BY <1>5
  <2>3. ~adds => counted'[r] = counted[r]
    BY <1>5
  <2> QED
    BY <1>5, <2>1, <2>2, <2>3 DEF CountedBy
<1>12. ASSUME NEW j \in RuleIds
       PROVE  /\ Added(j, CountedBy(j)') <= counter'[j]
              /\ Stops(j) => Added(j, Unstopped(j)') < Threshold[j]
  <2>1. \A q \in Requests : q \in Unstopped(j)' /\ q \in CountedBy(j) => q \in Unstopped(j)
    <3>1. Severity[Rules[j].action] \in Nat
      BY FiveRules
    <3> QED
      BY <1>2, <1>5, <1>7, <3>1 DEF Unstopped
  <2>2. CASE j # i
    <3>1. CountedBy(j)' = CountedBy(j) /\ counter'[j] = counter[j]
      BY <1>5, <1>11, <2>2
    <3>2. Unstopped(j)' \subseteq CountedBy(j)' /\ CountedBy(j) \subseteq Requests
      BY DEF Unstopped, CountedBy
    <3>3. Unstopped(j)' \subseteq Unstopped(j)
      BY <2>1, <3>1, <3>2
    <3> QED
      BY <3>1, <3>3, SumsShrink DEF RuleInv
  <2>3. CASE j = i
    <3>1. CountedBy(i) \in SUBSET Requests /\ CountedBy(i)' \in SUBSET Requests /\ Unstopped(i)' \in SUBSET CountedBy(i)'
      BY DEF CountedBy, Unstopped
    <3>2. Added(i, CountedBy(i)) <= counter[i] /\ (Stops(i) => Added(i, Unstopped(i)) < Threshold[i])
      BY DEF RuleInv, SumInv
    <3>3. Added(i, CountedBy(i)') <= observed
      <4>1. Added(i, CountedBy(i)) \in Nat /\ Delta(i, s) \in Nat /\ counter[i] \in Nat
        BY <1>3, <3>1, Weights
      <4>2. CASE adds /\ r \notin CountedBy(i)
        <5>1. Added(i, CountedBy(i)') = Added(i, CountedBy(i)) + Delta(i, s)
          <6>1. CountedBy(i)' = CountedBy(i) \cup {r}
            BY <1>11, <4>2
          <6>2. Added(i, CountedBy(i) \cup {r}) = Added(i, CountedBy(i)) + Delta(i, SubjectOf[r])
            BY <3>1, <4>2, Weights
          <6> QED
            BY <6>1, <6>2
        <5>2. observed = counter[i] + Delta(i, s)
          BY <1>4, <4>2
        <5> HIDE DEF s
        <5> QED
          BY <3>2, <4>1, <5>1, <5>2
      <4>3. CASE ~ (adds /\ r \notin CountedBy(i))
        <5>1. CountedBy(i)' = CountedBy(i)
          BY <1>11, <4>3
        <5> QED
          BY <1>4, <3>2, <4>1, <5>1
      <4> QED
        BY <4>2, <4>3
    <3>4. ASSUME Stops(i) PROVE Added(i, Unstopped(i)') < Threshold[i]
      <4>1. CASE r \notin Unstopped(i)'
        <5>1. Unstopped(i)' \subseteq Unstopped(i)
          <6>1. \A q \in CountedBy(i)' : q # r => q \in CountedBy(i)
            <7>1. CountedBy(i)' = CountedBy(i) \/ CountedBy(i)' = CountedBy(i) \cup {r}
              BY <1>11
            <7> QED
              BY <7>1
          <6> QED
            BY <2>1, <2>3, <3>1, <4>1, <6>1
        <5>2. Unstopped(i)' \in SUBSET Requests /\ Unstopped(i) \in SUBSET Requests /\ Threshold[i] \in Nat
          BY <3>1, FiveRules DEF Unstopped, CountedBy
        <5> QED
          BY <3>2, <3>4, <5>1, <5>2, Shrinks
      <4>2. CASE r \in Unstopped(i)'
        <5>1. Checks(i, s) /\ Severity[decision'[r]] < Severity[Rules[i].action]
          BY <1>2, <4>2 DEF Unstopped
        <5>2. Severity[Rules[i].action] \in Nat /\ Threshold[i] \in Nat
          BY FiveRules
        <5>3. ~ (observed >= Threshold[i])
          BY <1>7, <1>8, <3>4, <5>1, <5>2
        <5>4. observed < Threshold[i]
          BY <1>4, <5>2, <5>3
        <5>5. Added(i, CountedBy(i)') \in Nat
          BY <3>1, Weights
        <5>6. Added(i, CountedBy(i)') < Threshold[i]
          BY <1>4, <3>3, <5>2, <5>4, <5>5
        <5>7. Unstopped(i)' \in SUBSET Requests
          BY <3>1
        <5> QED
          BY <3>1, <5>2, <5>6, <5>7, Shrinks
      <4> QED
        BY <4>1, <4>2
    <3>5. counter'[i] = observed
      BY <1>5
    <3> QED
      BY <2>3, <3>3, <3>4, <3>5
  <2> QED
    BY <2>2, <2>3
<1>13. SumInv'
  BY <1>12 DEF SumInv, Added, Stops, CountedBy, Unstopped
<1>14. BarInv'
  <2>1. ASSUME NEW q \in Requests, NEW j \in RuleIds, Stops(j), j \in barred[q]
        PROVE  /\ answer[q] # "served" /\ Checks(j, SubjectOf[q])
               /\ pc[q] # "done" => /\ counter'[j] >= Threshold[j]
                                    /\ at'[q] <= j \/ Severity[decision'[q]] >= Severity[Rules[j].action]
    <3>1. /\ answer[q] # "served" /\ Checks(j, SubjectOf[q])
          /\ pc[q] # "done" => /\ counter[j] >= Threshold[j]
                               /\ at[q] <= j \/ Severity[decision[q]] >= Severity[Rules[j].action]
      BY <2>1 DEF RuleInv, BarInv
    <3>2. pc[q] # "done" => counter'[j] >= Threshold[j]
      <4>1. counter[j] \in Nat /\ Threshold[j] \in Nat
        BY <1>3, FiveRules
      <4> QED
        BY <1>4, <1>5, <3>1, <4>1
    <3>3. CASE q # r
      BY <1>5, <3>1, <3>2, <3>3
    <3>4. CASE q = r
      <4>1. CASE i < j
        <5>1. i + 1 \in 1..6 /\ j >= i + 1 /\ Active(j) /\ Checks(j, s)
          BY <2>1, <3>1, <3>4, <4>1, FiveRules DEF Stops
        <5>2. at'[r] <= j
          BY <1>5, <5>1, NextRule
        <5> QED
          BY <3>1, <3>2, <3>4, <5>2
      <4>2. CASE i = j
        <5>1. counter'[i] = observed /\ Checks(i, s)
          BY <1>5, <3>1, <3>4, <4>2
        <5>2. Severity[decision'[r]] >= Severity[Rules[i].action]
          BY <1>2, <1>8, <2>1, <3>2, <3>4, <4>2, <5>1
        <5> QED
          BY <3>1, <3>2, <3>4, <4>2, <5>2
      <4>3. CASE j < i
        <5>1. Severity[decision[r]] >= Severity[Rules[j].action]
          BY <1>1, <1>2, <3>1, <3>4, <4>3, FiveRules
        <5>2. Severity[Rules[j].action] \in Nat
          BY FiveRules
        <5>3. Severity[decision'[r]] >= Severity[Rules[j].action]
          BY <1>7, <5>1, <5>2
        <5> QED
          BY <3>1, <3>2, <3>4, <5>3
      <4>4. i \in Int /\ j \in Int
        BY FiveRules
      <4> QED
        BY <4>1, <4>2, <4>3, <4>4
    <3> QED
      BY <3>3, <3>4
  <2> QED
    BY <1>2, <2>1 DEF BarInv, Stops
<1> QED
  BY <1>9, <1>10, <1>13, <1>14 DEF RuleInv

LEMMA RulesStep ==
    ASSUME IInv, RuleInv, [Next]_vars
    PROVE  RuleInv'
<1>0. pc \in [Requests -> Pcs] /\ answer \in [Requests -> Answers]
  BY DEF IInv, LimiterType, RuleInv, RuleType
<1>1. ASSUME NEW r \in Requests, Arrive(r) PROVE RuleInv'
  BY <1>1, RulesArrive
<1>2. ASSUME NEW r \in Requests, Count(r) PROVE RuleInv'
  <2>1. /\ pc[r] = "full" /\ UNCHANGED ruleVars
        /\ \E p \in {"leave", "select"} : pc' = [pc EXCEPT ![r] = p]
        /\ answer' = answer \/ answer' = [answer EXCEPT ![r] = "shed"]
    BY <1>2 DEF Count
  <2>2. Unruly
    BY <1>0, <2>1 DEF Unruly, Answers
  <2> QED
    BY <2>1, <2>2, RulesElsewhere
<1>3. ASSUME NEW r \in Requests, Select(r) PROVE RuleInv'
  <2>1. /\ pc[r] = "select" /\ UNCHANGED <<ruleVars, answer>>
        /\ \E p \in {"sent", "waiting"} : pc' = [pc EXCEPT ![r] = p]
    BY <1>3 DEF Select
  <2>2. Unruly
    BY <1>0, <2>1 DEF Unruly, Answers
  <2> QED
    BY <2>1, <2>2, RulesElsewhere
<1>4. ASSUME NEW r \in Requests, Admit(r) PROVE RuleInv'
  <2>1. pc[r] = "sent" /\ UNCHANGED ruleVars
    BY <1>4 DEF Admit
  <2>2. CASE r \in gone
    <3>1. GiveBack([pc EXCEPT ![r] = "done"]) /\ answer' = [answer EXCEPT ![r] = "abandoned"]
      BY <1>4, <2>2 DEF Admit, Abandoned
    <3>2. Unruly
      BY <1>0, <2>1, <3>1, GivenOn DEF Unruly, Answers
    <3> QED
      BY <2>1, <3>2, RulesElsewhere
  <2>3. CASE r \notin gone
    <3>1. pc' = [pc EXCEPT ![r] = "rules"] /\ UNCHANGED answer
      BY <1>4, <2>3 DEF Admit
    <3>2. Unruly
      BY <1>0, <2>1, <3>1 DEF Unruly, Answers
    <3> QED
      BY <2>1, <3>2, RulesElsewhere
  <2> QED
    BY <2>2, <2>3
<1>5. ASSUME NEW r \in Requests, StopWaiting(r) PROVE RuleInv'
  <2>1. /\ pc[r] = "waiting" /\ UNCHANGED ruleVars /\ pc' = [pc EXCEPT ![r] = "leave"]
        /\ answer' = [answer EXCEPT ![r] = "shed"] \/ answer' = [answer EXCEPT ![r] = "abandoned"]
    BY <1>5 DEF StopWaiting
  <2>2. Unruly
    BY <1>0, <2>1 DEF Unruly, Answers
  <2> QED
    BY <2>1, <2>2, RulesElsewhere
<1>6. ASSUME NEW r \in Requests, Leave(r) PROVE RuleInv'
  <2>1. pc[r] = "leave" /\ UNCHANGED <<ruleVars, answer>> /\ pc' = [pc EXCEPT ![r] = "done"]
    BY <1>6 DEF Leave
  <2>2. Unruly
    BY <1>0, <2>1 DEF Unruly, Answers
  <2> QED
    BY <2>1, <2>2, RulesElsewhere
<1>7. CASE UNCHANGED <<ruleVars, pc, answer>>
  BY <1>0, <1>7, RulesElsewhere DEF Unruly, Answers
<1>8. ASSUME NEW r \in Requests, HangUp(r) PROVE RuleInv'
  BY <1>7, <1>8 DEF HangUp
<1>9. ASSUME NEW r \in Requests, Observe(r) PROVE RuleInv'
  BY <1>9, RulesObserve
<1>10. ASSUME NEW r \in Requests, Finish(r) PROVE RuleInv'
  BY <1>10, RulesFinish
<1>11. ASSUME NEW i \in RuleIds, WindowEnds(i) PROVE RuleInv'
  BY <1>11, RulesWindow
<1>12. CASE UNCHANGED vars
  BY <1>7, <1>12 DEF vars
<1> QED
  BY <1>1, <1>2, <1>3, <1>4, <1>5, <1>6, <1>8, <1>9, <1>10, <1>11, <1>12 DEF Next

LEMMA RulesShow == RuleInv => RulesHold
<1> SUFFICES ASSUME RuleInv, NEW i \in RuleIds, Active(i), Refuses(Rules[i].action)
             PROVE  /\ Added(i, {r \in Requests : answer[r] = "served" /\ i \in counted[r] /\ Checks(i, SubjectOf[r])})
                          < Threshold[i]
                    /\ \A r \in Requests : answer[r] = "served" => i \notin barred[r]
  BY DEF RulesHold
<1> DEFINE passed == {r \in Requests : answer[r] = "served" /\ i \in counted[r] /\ Checks(i, SubjectOf[r])}
<1>1. passed \subseteq Unstopped(i) /\ passed \in SUBSET Requests /\ Unstopped(i) \in SUBSET Requests
  BY DEF RuleInv, RequestInv, Unstopped, CountedBy
<1>2. Added(i, Unstopped(i)) < Threshold[i] /\ Threshold[i] \in Nat
  BY FiveRules DEF RuleInv, SumInv, Stops
<1>3. Added(i, passed) < Threshold[i]
  <2> HIDE DEF passed
  <2> QED
    BY <1>1, <1>2, Shrinks
<1>4. \A r \in Requests : answer[r] = "served" => i \notin barred[r]
  BY DEF RuleInv, BarInv, Stops
<1> QED
  BY <1>3, <1>4

\* What an active rule that refuses lets pass within one window stays below its
\* threshold, and a request that comes when the threshold has been reached is not served:
\* for every number of requests, every amount and every table of modes and thresholds.
THEOREM RulesAreKept == Spec => []RulesHold
<1>1. Init => IInv /\ RuleInv
  BY Starts, RulesStart
<1>2. IInv /\ RuleInv /\ [Next]_vars => IInv' /\ RuleInv'
  BY Steps, RulesStep
<1>3. RuleInv => RulesHold
  BY RulesShow
<1> QED
  BY <1>1, <1>2, <1>3, PTL DEF Spec

\* Slots, counters, decisions and what is noted of each request have their types.
THEOREM GateTypes == Spec => []TypeOK
<1>1. Init => IInv /\ RuleInv
  BY Starts, RulesStart
<1>2. IInv /\ RuleInv /\ [Next]_vars => IInv' /\ RuleInv'
  BY Steps, RulesStep
<1>3. IInv /\ RuleInv => TypeOK
  <2> SUFFICES ASSUME IInv, RuleInv PROVE TypeOK
    OBVIOUS
  <2>1. used \in 0..InFlight /\ queued \in Nat /\ line \in Seq(Requests)
    BY LimitsAreNatural DEF IInv, LimiterType, SlotInv
  <2>2. Len(line) <= Queue
    BY Shows DEF SlotsComeBack
  <2>3. /\ counter \in [RuleIds -> Nat] /\ at \in [Requests -> 1..(Len(Rules) + 1)]
        /\ decision \in [Requests -> DOMAIN Severity]
        /\ counted \in [Requests -> SUBSET RuleIds] /\ barred \in [Requests -> SUBSET RuleIds]
    BY FiveRules DEF RuleInv, RuleType
  <2> QED
    BY <2>1, <2>2, <2>3 DEF TypeOK
<1> QED
  BY <1>1, <1>2, <1>3, PTL DEF Spec

----
(***************************************************************************)
(* Points and offers.  What is noted of calls that overlapped explains     *)
(* every debt, every award that was taken twice and every offer that was   *)
(* earned too often, because calls that have read and have not yet written *)
(* are beside each other, and one that has ended is beside nothing new.    *)
(***************************************************************************)

LotStates == {"none", "fresh", "due", "cleared"}
RequestStates == {"pending", "declined", "paid", "expired"}

PointType ==
    /\ points \in [Users -> Int] /\ lot \in [Lots -> LotStates] /\ expired \in [Lots -> Nat]
    /\ stage \in [Calls -> Stages \cup Users]
    /\ found \in [Calls -> [Users -> SUBSET Lots]]
    /\ quota \in Nat \cup {Absent} /\ kept \in BOOLEAN
    /\ redeemed \subseteq Calls /\ granted \subseteq Calls /\ cut \subseteq Calls
    /\ swept \subseteq Calls \X Users /\ lucky \subseteq Lots /\ undercut \subseteq Calls

\* No more is asked than there are payers to be asked.
AskInv ==
    /\ asked \in [Calls -> Seq(RequestStates)]
    /\ \A c \in Calls : /\ Len(asked[c]) <= Len(PayersOf[c])
                        /\ stage[c] = "new" => asked[c] = <<>>
                        /\ stage[c] = "ask" => Len(asked[c]) < Len(PayersOf[c])

\* Calls of one kind that are under way are beside each other.
BesideInv ==
    /\ \A c, d \in Redeeming : c # d /\ UserOf[c] = UserOf[d] => {c, d} \in beside
    /\ \A c, d \in Applying : c # d /\ UserOf[c] = UserOf[d] => {c, d} \in beside
    /\ \A s, t \in Sweeping : s # t => {s, t} \in beside
    /\ \A c \in redeemed \cup granted : stage[c] = "done"

\* What the entries of each award and call add up to: what it gave, less what it took or
\* sweeps have taken of it.
Entered ==
    [l \in Lots |-> (IF lot[l] = "none" THEN 0 ELSE PointsOf[l])
                   - expired[l] * PointsOf[l]
                   - (IF l \in redeemed THEN PointsOf[l] ELSE 0)]

\* A redemption under way is still covered, unless a sweep or one beside it took from that.
PointsInv ==
    /\ \A u \in Users : points[u] = SumFunctionOnSet(Entered, Of(u, Lots))
    /\ OverdrawnHasCause
    /\ \A c \in Redeeming :
          c \notin undercut /\ (\A d \in Of(UserOf[c], redeemed) : {c, d} \notin beside) =>
             points[UserOf[c]] >= PointsOf[c]

\* Who has been let through has room, unless a call beside it has taken that.
OfferInv ==
    /\ \A c \in granted : SamePayment(c, granted) = {}
    /\ \A c \in Calls : stage[c] \in {"account", "commit"} =>
          /\ SamePayment(c, granted) = {}
          /\ \A d \in SamePayment(c, Calls) : stage[d] \notin {"account", "commit"}
    /\ \A u \in Users : (\A c, d \in Of(u, granted) : c # d => {c, d} \notin beside) =>
          Cardinality(Of(u, granted)) <= PerUser
    /\ \A c \in Applying : (\A d \in Of(UserOf[c], granted) : {c, d} \notin beside) =>
          Cardinality(Of(UserOf[c], granted)) < PerUser

\* Those that have taken of the quota: they are granted, or on the way.
Takers == granted \cup {c \in Calls : stage[c] \in {"begin", "record", "account", "commit"}}

QuotaInv == kept => quota \in Nat /\ quota + Cardinality(Takers) <= Total

\* Awards go from fresh to due to cleared, and only what is due is found.
LotInv ==
    /\ \A c \in Calls \ granted : lot[c] = "none"
    /\ \A l \in Lots : expired[l] > 0 =>
          /\ lot[l] \in {"due", "cleared"}
          /\ \E t \in Calls : <<t, UserOf[l]>> \in swept
    /\ \A s \in Calls, u \in Users : \A l \in found[s][u] :
          UserOf[l] = u /\ lot[l] \in {"due", "cleared"}
    /\ \A s \in Calls : stage[s] \in Users =>
          /\ <<s, stage[s]>> \in swept
          /\ \A l \in found[s][stage[s]] : expired[l] > 0

\* Who has taken an award that is still due is about to clear it, and who has found one
\* that is taken was beside who took it.
SweepInv ==
    cut = {} => \A l \in Lots : expired[l] > 0 =>
        /\ lot[l] = "due" => \E t \in Calls : stage[t] = UserOf[l]
        /\ \A s \in Sweeping : stage[s] # UserOf[l] /\ l \in found[s][UserOf[l]] =>
              \E t \in Calls : t # s /\ <<t, UserOf[l]>> \in swept /\ {s, t} \in beside

\* What falls due behind a sweep is lucky, and the rest was found.
LuckInv ==
    /\ \A s \in Sweeping, l \in Lots : lot[l] = "due" => l \in lucky \/ l \in found[s][UserOf[l]]
    /\ AwardsExpireOnce

LoyaltyInv ==
    /\ PointType /\ AskInv /\ BesideInv /\ PointsInv /\ OfferInv /\ QuotaInv /\ LotInv /\ SweepInv /\ LuckInv

\* What every call may do.
Acts(c) == Step(c) \/ Fail(c)

\* Where a call goes, and by which statement.
Ways(c) ==
    /\ stage[c] # "done" /\ stage' = [stage EXCEPT ![c] = stage'[c]]
    /\ stage'[c] \in Stages \cup Users /\ stage'[c] # "new"
    /\ stage'[c] = "redeem" => ReadBalance(c)
    /\ stage'[c] = "take" => CountUsed(c)
    /\ stage'[c] = "begin" => TakeQuota(c)
    /\ stage'[c] = "record" => BeginGrant(c)
    /\ stage'[c] \in {"account", "commit"} => RecordRedemption(c) \/ PointAccount(c)
    /\ stage'[c] = "expire" => FindStale(c) \/ ClearExpiry(c)
    /\ stage'[c] \in Users => \E u \in Users : InsertExpire(c, u)
    /\ stage'[c] = "ask" => InsertSplit(c) \/ AskNext(c)

\* Which statement of it writes what.
Writes(c) ==
    /\ redeemed' = redeemed \/ InsertRedeem(c)
    /\ granted' = granted \/ CommitGrant(c)
    /\ points' = points \/ InsertRedeem(c) \/ CommitGrant(c) \/ \E u \in Users : InsertExpire(c, u)
    /\ lot' = lot \/ CommitGrant(c) \/ ClearExpiry(c)
    /\ UNCHANGED <<expired, swept, undercut>> \/ \E u \in Users : InsertExpire(c, u)
    /\ beside' = beside \/ ReadBalance(c) \/ CountUsed(c) \/ FindStale(c)
    /\ found' = found \/ FindStale(c) \/ ClearExpiry(c)
    /\ cut' = cut \/ (stage[c] \in Users /\ cut' = cut \cup {c})
    /\ stage[c] \in Users => cut' = cut \cup {c} \/ ClearExpiry(c)
    /\ quota' = quota \/ TakeQuota(c)
    /\ asked' = asked \/ AskNext(c)
    /\ UNCHANGED <<kept, lucky>>

LEMMA StagesApart ==
    /\ Users \cap Stages = {}
    /\ Stages = {"new", "redeem", "count", "take", "begin", "record", "account", "commit", "expire", "ask", "done"}
BY UsersAreNoStages DEF Stages

LEMMA Going ==
    ASSUME PointType, NEW c \in Calls, Acts(c)
    PROVE  Ways(c) /\ Writes(c)
<1> USE StagesApart DEF PointType, Ways, Writes, Goto, offerVars, pointVars
<1>1. CASE ReadBalance(c)
  BY <1>1 DEF ReadBalance
<1>2. CASE InsertRedeem(c)
  BY <1>2 DEF InsertRedeem
<1>3. CASE LoadPromo(c)
  BY <1>3 DEF LoadPromo
<1>4. CASE CountUsed(c)
  BY <1>4 DEF CountUsed
<1>5. CASE TakeQuota(c)
  BY <1>5 DEF TakeQuota
<1>6. CASE BeginGrant(c)
  BY <1>6 DEF BeginGrant
<1>7. CASE RecordRedemption(c)
  BY <1>7 DEF RecordRedemption
<1>8. CASE PointAccount(c)
  BY <1>8 DEF PointAccount
<1>9. CASE CommitGrant(c)
  BY <1>9 DEF CommitGrant
<1>10. CASE FindStale(c)
  BY <1>10 DEF FindStale
<1>11. ASSUME NEW u \in Users, InsertExpire(c, u) PROVE Ways(c) /\ Writes(c)
  BY <1>11 DEF InsertExpire
<1>12. CASE ClearExpiry(c)
  BY <1>12 DEF ClearExpiry
<1>13. CASE InsertSplit(c)
  BY <1>13 DEF InsertSplit
<1>14. CASE AskNext(c)
  BY <1>14 DEF AskNext
<1>15. CASE Fail(c)
  BY <1>15 DEF Fail
<1> QED
  BY <1>1, <1>2, <1>3, <1>4, <1>5, <1>6, <1>7, <1>8, <1>9, <1>10, <1>11, <1>12, <1>13, <1>14, <1>15
     DEF Acts, Step, RedeemStep, ApplyStep, SweepStep, AskStep

\* The others stay where they are.
LEMMA Others ==
    ASSUME PointType, NEW c \in Calls, Ways(c)
    PROVE  /\ \A d \in Calls \ {c} : stage'[d] = stage[d]
           /\ stage' \in [Calls -> Stages \cup Users]
BY DEF PointType, Ways

\* History only grows.
LEMMA Growing ==
    ASSUME PointType, NEW c \in Calls, Writes(c)
    PROVE  /\ redeemed \subseteq redeemed' /\ granted \subseteq granted' /\ beside \subseteq beside'
           /\ swept \subseteq swept' /\ cut \subseteq cut' /\ undercut \subseteq undercut'
<1>1. redeemed \subseteq redeemed'
  BY DEF Writes, InsertRedeem
<1>2. granted \subseteq granted'
  BY DEF Writes, CommitGrant
<1>3. beside \subseteq beside'
  BY DEF Writes, ReadBalance, CountUsed, FindStale
<1>4. swept \subseteq swept'
  BY DEF Writes, InsertExpire
<1>5. cut \subseteq cut'
  BY DEF Writes
<1>6. undercut \subseteq undercut'
  BY DEF Writes, InsertExpire
<1> QED
  BY <1>1, <1>2, <1>3, <1>4, <1>5, <1>6

LEMMA LotFacts ==
    /\ Calls \subseteq Lots /\ IsFiniteSet(Lots) /\ IsFiniteSet(Calls)
    /\ \A l \in Lots : UserOf[l] \in Users /\ PointsOf[l] \in Nat
    /\ \A S \in SUBSET Lots : SumFunctionOnSet(PointsOf, S) \in Nat
    /\ PerUser \in Nat /\ Total \in Nat /\ Absent \notin Int
<1>1. Calls \subseteq Lots /\ IsFiniteSet(Lots) /\ IsFiniteSet(Calls)
  BY LotsDiffer, FS_Subset DEF Lots
<1>2. \A l \in Lots : UserOf[l] \in Users /\ PointsOf[l] \in Nat
  BY LotsAreAwards
<1>3. ASSUME NEW S \in SUBSET Lots PROVE SumFunctionOnSet(PointsOf, S) \in Nat
  <2>1. IsFiniteSet(S)
    BY <1>1, FS_Subset
  <2> QED
    BY <1>2, <2>1, SumNat
<1> QED
  BY <1>1, <1>2, <1>3, QuotasAreNatural

LEMMA PointTypeKept ==
    ASSUME PointType, NEW c \in Calls, Acts(c)
    PROVE  PointType'
<1>0. Ways(c) /\ Writes(c)
  BY Going
<1>1. points' \in [Users -> Int]
  <2>1. CASE InsertRedeem(c)
    <3>1. UserOf[c] \in Users /\ PointsOf[c] \in Nat
      BY LotFacts
    <3> QED
      BY <2>1, <3>1 DEF PointType, InsertRedeem
  <2>2. CASE CommitGrant(c)
    <3>1. UserOf[c] \in Users /\ PointsOf[c] \in Nat
      BY LotFacts
    <3> QED
      BY <2>2, <3>1 DEF PointType, CommitGrant
  <2>3. ASSUME NEW u \in Users, InsertExpire(c, u) PROVE points' \in [Users -> Int]
    <3>1. SumFunctionOnSet(PointsOf, found[c][u]) \in Nat
      BY LotFacts DEF PointType
    <3> QED
      BY <2>3, <3>1 DEF PointType, InsertExpire
  <2> QED
    BY <1>0, <2>1, <2>2, <2>3 DEF Writes, PointType
<1>2. lot' \in [Lots -> LotStates]
  <2>1. CASE CommitGrant(c)
    BY <2>1 DEF PointType, CommitGrant, LotStates
  <2>2. CASE ClearExpiry(c)
    BY <2>2 DEF PointType, ClearExpiry, LotStates
  <2> QED
    BY <1>0, <2>1, <2>2 DEF Writes, PointType
<1>3. expired' \in [Lots -> Nat] /\ swept' \subseteq Calls \X Users /\ undercut' \subseteq Calls
  <2>1. ASSUME NEW u \in Users, InsertExpire(c, u)
        PROVE  expired' \in [Lots -> Nat] /\ swept' \subseteq Calls \X Users /\ undercut' \subseteq Calls
    <3>1. \A l \in Lots : expired[l] \in Nat
      BY DEF PointType
    <3>2. Of(u, redeemed \cup Redeeming) \subseteq Calls
      BY DEF PointType, Of, Redeeming
    <3>3. expired' \in [Lots -> Nat]
      BY <2>1, <3>1 DEF InsertExpire
    <3>4. swept' \subseteq Calls \X Users
      BY <2>1 DEF InsertExpire, PointType
    <3>5. undercut' = undercut \cup Of(u, redeemed \cup Redeeming) /\ undercut \subseteq Calls
      BY <2>1 DEF InsertExpire, PointType
    <3> QED
      BY <3>2, <3>3, <3>4, <3>5
  <2> QED
    BY <1>0, <2>1 DEF Writes, PointType
<1>4. found' \in [Calls -> [Users -> SUBSET Lots]]
  <2>1. CASE FindStale(c)
    <3>1. \A u \in Users : Due(u) \in SUBSET Lots
      BY DEF Due, Of
    <3> QED
      BY <2>1, <3>1 DEF PointType, FindStale
  <2>2. CASE ClearExpiry(c)
    BY <2>2 DEF PointType, ClearExpiry
  <2> QED
    BY <1>0, <2>1, <2>2 DEF Writes, PointType
<1>5. quota' \in Nat \cup {Absent}
  <2>1. CASE TakeQuota(c)
    BY <2>1, LotFacts DEF PointType, TakeQuota
  <2> QED
    BY <1>0, <2>1 DEF Writes, PointType
<1>6. redeemed' \subseteq Calls /\ granted' \subseteq Calls /\ cut' \subseteq Calls
  BY <1>0 DEF Writes, PointType, InsertRedeem, CommitGrant
<1>7. stage' \in [Calls -> Stages \cup Users] /\ kept' \in BOOLEAN /\ lucky' \subseteq Lots
  BY <1>0, Others DEF Writes, PointType
<1> QED
  BY <1>1, <1>2, <1>3, <1>4, <1>5, <1>6, <1>7 DEF PointType

LEMMA BesideKept ==
    ASSUME PointType, BesideInv, NEW c \in Calls, Acts(c)
    PROVE  BesideInv'
<1>0. Ways(c) /\ Writes(c)
  BY Going
<1>1. beside \subseteq beside' /\ \A d \in Calls \ {c} : stage'[d] = stage[d]
  BY <1>0, Growing, Others
<1>2. ASSUME NEW S, NEW d \in S PROVE {c, d} \in Beside(c, S) /\ {d, c} \in Beside(c, S)
  BY DEF Beside
<1>3. ASSUME NEW a \in Redeeming', NEW b \in Redeeming', a # b, UserOf[a] = UserOf[b]
      PROVE  {a, b} \in beside'
  <2>1. CASE a # c /\ b # c
    BY <1>1, <1>3, <2>1 DEF BesideInv, Redeeming
  <2>2. CASE a = c \/ b = c
    <3>1. ReadBalance(c)
      BY <1>0, <1>3, <2>2 DEF Redeeming, Ways
    <3>2. Beside(c, Of(UserOf[c], Redeeming)) \subseteq beside'
      BY <3>1 DEF ReadBalance
    <3>3. \A d \in {a, b} : d # c => d \in Of(UserOf[c], Redeeming)
      BY <1>1, <1>3, <2>2 DEF Redeeming, Of
    <3> QED
      BY <1>2, <1>3, <2>2, <3>2, <3>3
  <2> QED
    BY <2>1, <2>2
<1>4. ASSUME NEW a \in Applying', NEW b \in Applying', a # b, UserOf[a] = UserOf[b]
      PROVE  {a, b} \in beside'
  <2>1. a \in Calls /\ b \in Calls
    BY DEF Applying
  <2>2. c \in Applying' => c \in Applying \/ CountUsed(c)
    BY <1>0 DEF Applying, Ways, TakeQuota, BeginGrant, RecordRedemption, PointAccount
  <2>3. CASE ~CountUsed(c)
    <3>1. a \in Applying /\ b \in Applying
      BY <1>1, <2>1, <2>2, <2>3 DEF Applying
    <3> QED
      BY <1>1, <1>4, <3>1 DEF BesideInv
  <2>4. CASE CountUsed(c)
    <3>1. Beside(c, Of(UserOf[c], Applying)) \subseteq beside'
      BY <2>4 DEF CountUsed
    <3>2. \A d \in {a, b} : d # c => d \in Applying
      BY <1>1, <2>1 DEF Applying
    <3>3. CASE a # c /\ b # c
      BY <1>1, <1>4, <3>2, <3>3 DEF BesideInv
    <3>4. CASE a = c
      <4>1. b \in Of(UserOf[c], Applying)
        BY <1>4, <3>2, <3>4 DEF Of
      <4> QED
        BY <1>2, <3>1, <3>4, <4>1
    <3>5. CASE b = c
      <4>1. a \in Of(UserOf[c], Applying)
        BY <1>4, <3>2, <3>5 DEF Of
      <4> QED
        BY <1>2, <3>1, <3>5, <4>1
    <3> QED
      BY <3>3, <3>4, <3>5
  <2> QED
    BY <2>3, <2>4
<1>5. ASSUME NEW a \in Sweeping', NEW b \in Sweeping', a # b
      PROVE  {a, b} \in beside'
  <2>1. a \in Calls /\ b \in Calls
    BY DEF Sweeping
  <2>2. c \in Sweeping' => c \in Sweeping \/ FindStale(c)
    BY <1>0 DEF Sweeping, Ways, ClearExpiry, InsertExpire
  <2>3. CASE ~FindStale(c)
    <3>1. a \in Sweeping /\ b \in Sweeping
      BY <1>1, <2>1, <2>2, <2>3 DEF Sweeping
    <3> QED
      BY <1>1, <1>5, <3>1 DEF BesideInv
  <2>4. CASE FindStale(c)
    <3>1. Beside(c, Sweeping) \subseteq beside'
      BY <2>4 DEF FindStale
    <3>2. \A d \in {a, b} : d # c => d \in Sweeping
      BY <1>1, <2>1 DEF Sweeping
    <3>3. CASE a # c /\ b # c
      BY <1>1, <1>5, <3>2, <3>3 DEF BesideInv
    <3>4. CASE a = c \/ b = c
      BY <1>2, <1>5, <3>1, <3>2, <3>4
    <3> QED
      BY <3>3, <3>4
  <2> QED
    BY <2>3, <2>4
<1>6. \A d \in redeemed' \cup granted' : stage'[d] = "done"
  <2>1. \A d \in redeemed \cup granted : d \in Calls /\ d # c /\ stage[d] = "done"
    BY <1>0 DEF BesideInv, PointType, Ways
  <2>2. CASE InsertRedeem(c)
    <3>1. stage'[c] = "done" /\ redeemed' = redeemed \cup {c} /\ granted' = granted
      BY <2>2 DEF InsertRedeem, Goto, PointType
    <3> QED
      BY <1>1, <2>1, <3>1
  <2>3. CASE CommitGrant(c)
    <3>1. stage'[c] = "done" /\ granted' = granted \cup {c} /\ redeemed' = redeemed
      BY <2>3 DEF CommitGrant, Goto, PointType
    <3> QED
      BY <1>1, <2>1, <3>1
  <2>4. CASE redeemed' = redeemed /\ granted' = granted
    BY <1>1, <2>1, <2>4
  <2> QED
    BY <1>0, <2>2, <2>3, <2>4 DEF Writes
<1> QED
  BY <1>3, <1>4, <1>5, <1>6 DEF BesideInv

\* Products, for a solver that does not multiply.
LEMMA Times ==
    ASSUME NEW p \in Nat, NEW k \in Nat
    PROVE  /\ k * p \in Nat /\ 0 * p = 0 /\ 1 * p = p
           /\ (k + 1) * p = k * p + p /\ (k - 1) * p = k * p - p
           /\ k = 0 => k * p = 0
           /\ k = 1 => k * p = p
           /\ k > 0 => (k - 1) * p \in Nat
<1>1. \A n \in Nat : n * p \in Nat
  OBVIOUS
<1>2. k > 0 => k - 1 \in Nat
  OBVIOUS
<1>3. k > 0 => (k - 1) * p \in Nat
  BY <1>1, <1>2
<1>4. k * p \in Nat /\ 0 * p = 0 /\ 1 * p = p
  OBVIOUS
<1>5. (k + 1) * p = k * p + p /\ (k - 1) * p = k * p - p
  OBVIOUS
<1>6. (k = 0 => k * p = 0) /\ (k = 1 => k * p = p)
  OBVIOUS
<1> QED
  BY <1>3, <1>4, <1>5, <1>6

\* What an award of p points that was taken k times leaves, with what was taken twice and
\* what was redeemed added back: m is what it gave, and b what was redeemed.
LEMMA OneAward ==
    ASSUME NEW p \in Nat, NEW k \in Nat, NEW m \in {0, p}, NEW b \in {0, p}, k > 0 => m = p, NEW f, NEW t
    PROVE  f = m - k * p - b /\ t = (IF k > 1 THEN (k - 1) * p ELSE 0) =>
              f \in Int /\ t \in Nat /\ t - (0 - f - b) \in Nat
<1>1. PICK q \in Nat, r \in Int : /\ q = k * p /\ r = (k - 1) * p /\ r = q - p
                                /\ (k = 0 => q = 0) /\ (k = 1 => q = p) /\ (k > 0 => r \in Nat)
  <2>1. k * p \in Nat /\ (k - 1) * p = k * p - p /\ (k = 0 => k * p = 0) /\ (k = 1 => k * p = p)
        /\ (k > 0 => (k - 1) * p \in Nat)
    BY Times
  <2>2. (k - 1) * p \in Int
    BY <2>1
  <2> QED
    BY <2>1, <2>2
<1>2. SUFFICES ASSUME f = m - k * p - b, t = IF k > 1 THEN (k - 1) * p ELSE 0
               PROVE  f \in Int /\ t \in Nat /\ t - (0 - f - b) \in Nat
  OBVIOUS
<1>3. f = m - q - b /\ t = IF k > 1 THEN r ELSE 0
  BY <1>1, <1>2
<1>4. r = q - p /\ (k = 0 => q = 0) /\ (k = 1 => q = p) /\ (k > 0 => r \in Nat)
  BY <1>1
<1> QED
  BY <1>3, <1>4

\* Who owes no more than was redeemed and taken twice, owes nothing of his own making: the
\* awards that were made and not taken are left over.
LEMMA NothingElseIsOwed ==
    ASSUME NEW S \in SUBSET Lots, NEW e \in [Lots -> Nat], NEW there, NEW spent, NEW f, NEW twice,
           \A l \in S : e[l] > 0 => l \in there,
           \A l \in S : f[l] = (IF l \in there THEN PointsOf[l] ELSE 0) - e[l] * PointsOf[l]
                               - (IF l \in spent THEN PointsOf[l] ELSE 0),
           \A l \in S : twice[l] = IF e[l] > 1 THEN (e[l] - 1) * PointsOf[l] ELSE 0
    PROVE  SumFunctionOnSet(f, S) + SumFunctionOnSet(PointsOf, S \cap spent) + SumFunctionOnSet(twice, S) >= 0
<1> DEFINE back == [l \in S |-> IF l \in spent THEN PointsOf[l] ELSE 0]
           owed == [l \in S |-> 0 - f[l] - back[l]]
           rest == [l \in S |-> twice[l] - owed[l]]
<1>1. IsFiniteSet(S) /\ IsFiniteSet(S \cap spent) /\ \A l \in S : PointsOf[l] \in Nat /\ e[l] \in Nat
  BY LotFacts, FS_Subset
<1>2. ASSUME NEW l \in S PROVE f[l] \in Int /\ twice[l] \in Nat /\ back[l] \in Nat /\ rest[l] \in Nat
  <2> DEFINE m == IF l \in there THEN PointsOf[l] ELSE 0
  <2>1. /\ PointsOf[l] \in Nat /\ e[l] \in Nat /\ m \in {0, PointsOf[l]} /\ back[l] \in {0, PointsOf[l]}
        /\ e[l] > 0 => m = PointsOf[l]
    BY <1>1
  <2>2. f[l] = m - e[l] * PointsOf[l] - back[l]
    OBVIOUS
  <2>3. twice[l] = IF e[l] > 1 THEN (e[l] - 1) * PointsOf[l] ELSE 0
    OBVIOUS
  <2>4. rest[l] = twice[l] - (0 - f[l] - back[l])
    OBVIOUS
  <2> HIDE DEF m, back, owed, rest
  <2>5. f[l] \in Int /\ twice[l] \in Nat /\ twice[l] - (0 - f[l] - back[l]) \in Nat
    BY <2>1, <2>2, <2>3, OneAward
  <2>6. back[l] \in Nat
    BY <2>1
  <2> QED
    BY <2>4, <2>5, <2>6
<1>3. SumFunctionOnSet(back, S) = SumFunctionOnSet(PointsOf, S \cap spent)
  <2>1. \A l \in S \cap spent : back[l] \in Int /\ back[l] = PointsOf[l]
    BY <1>1
  <2>2. \A l \in S \ (S \cap spent) : back[l] = 0
    OBVIOUS
  <2> HIDE DEF back
  <2>3. SumFunctionOnSet(back, S) = SumFunctionOnSet(back, S \cap spent)
    BY <1>1, <2>1, <2>2, SumMore
  <2>4. SumFunctionOnSet(PointsOf, S \cap spent) = SumFunctionOnSet(back, S \cap spent)
    BY <1>1, <2>1, SumSame
  <2> QED
    BY <2>3, <2>4
<1> DEFINE none == [l \in S |-> 0]
           debit == [l \in S |-> none[l] - f[l]]
<1>4. SumFunctionOnSet(none, S) = 0
  <2>1. \A l \in S : none[l] \in Int /\ none[l] = none[l] - none[l]
    OBVIOUS
  <2> HIDE DEF none
  <2>2. SumFunctionOnSet(none, S) = SumFunctionOnSet(none, S) - SumFunctionOnSet(none, S) /\ SumFunctionOnSet(none, S) \in Int
    BY <1>1, <2>1, SumMinus, SumType
  <2> QED
    BY <2>2
<1>5. \A l \in S : /\ none[l] \in Int /\ f[l] \in Int /\ debit[l] = none[l] - f[l] /\ debit[l] \in Int
                   /\ back[l] \in Int /\ owed[l] = debit[l] - back[l] /\ owed[l] \in Int
                   /\ twice[l] \in Int /\ rest[l] = twice[l] - owed[l] /\ rest[l] \in Nat
  BY <1>2
<1> HIDE DEF none, debit, back, owed, rest
<1>6. SumFunctionOnSet(debit, S) = SumFunctionOnSet(none, S) - SumFunctionOnSet(f, S)
  BY <1>1, <1>5, SumMinus
<1>7. SumFunctionOnSet(owed, S) = SumFunctionOnSet(debit, S) - SumFunctionOnSet(back, S)
  BY <1>1, <1>5, SumMinus
<1>8. SumFunctionOnSet(rest, S) = SumFunctionOnSet(twice, S) - SumFunctionOnSet(owed, S)
  BY <1>1, <1>5, SumMinus
<1>9. SumFunctionOnSet(rest, S) \in Nat
  BY <1>1, <1>5, SumNat
<1>10. SumFunctionOnSet(f, S) \in Int /\ SumFunctionOnSet(twice, S) \in Int /\ SumFunctionOnSet(back, S) \in Int
  BY <1>1, <1>5, SumType
<1> QED
  BY <1>3, <1>4, <1>6, <1>7, <1>8, <1>9, <1>10

\* One more redemption.
LEMMA OneMore ==
    ASSUME NEW S, S \subseteq Lots, NEW c \in Lots, c \notin S
    PROVE  SumFunctionOnSet(PointsOf, S \cup {c}) = SumFunctionOnSet(PointsOf, S) + PointsOf[c]
<1>1. IsFiniteSet(S)
  BY LotFacts, FS_Subset
<1>2. \A l \in S \cup {c} : PointsOf[l] \in Int
  BY LotFacts
<1> QED
  BY <1>1, <1>2, SumWith

\* What was entered for each award and call is a number.
LEMMA EnteredType ==
    ASSUME PointType
    PROVE  /\ \A l \in Lots : Entered[l] \in Int
           /\ \A l \in Lots : TakenTwice[l] \in Nat
<1> SUFFICES ASSUME NEW l \in Lots PROVE Entered[l] \in Int /\ TakenTwice[l] \in Nat
  OBVIOUS
<1>1. PICK p \in Nat, k \in Nat : p = PointsOf[l] /\ k = expired[l]
  BY LotFacts DEF PointType
<1>2. k * p \in Nat /\ (k > 1 => (k - 1) * p \in Nat)
  BY <1>1
<1> QED
  BY <1>1, <1>2 DEF Entered, TakenTwice

\* Each entry is on the balance of its user, and entries are all there is on it.
LEMMA EntriesAddUp ==
    ASSUME PointType, BesideInv, LotInv, PointsInv, NEW c \in Calls, Acts(c), NEW u \in Users
    PROVE  points'[u] = SumFunctionOnSet(Entered', Of(u, Lots))
<1>0. Ways(c) /\ Writes(c) /\ PointType'
  BY Going, PointTypeKept
<1>1. /\ Of(u, Lots) \subseteq Lots /\ IsFiniteSet(Of(u, Lots))
      /\ c \in Lots /\ UserOf[c] \in Users /\ PointsOf[c] \in Nat
  BY LotFacts, FS_Subset DEF Of
<1>2. \A l \in Lots : Entered[l] \in Int /\ Entered'[l] \in Int
  <2>1. \A l \in Lots : Entered[l] \in Int
    BY EnteredType
  <2>2. ASSUME NEW l \in Lots PROVE Entered'[l] \in Int
    <3>1. PICK p \in Nat, k \in Nat : p = PointsOf[l] /\ k = expired'[l]
      BY <1>0, LotFacts DEF PointType
    <3>2. k * p \in Nat
      BY <3>1
    <3> QED
      BY <3>1, <3>2 DEF Entered
  <2> QED
    BY <2>1, <2>2
<1>3. points[u] = SumFunctionOnSet(Entered, Of(u, Lots)) /\ points[u] \in Int
  BY DEF PointsInv, PointType
<1>4. c \notin redeemed /\ c \notin granted
  BY <1>0 DEF BesideInv, Ways
<1>5. CASE points' = points /\ redeemed' = redeemed /\ expired' = expired /\ \A l \in Lots : lot'[l] = "none" <=> lot[l] = "none"
  <2>1. Entered' = Entered
    BY <1>5 DEF Entered
  <2> QED
    BY <1>3, <1>5, <2>1
<1>6. ASSUME UserOf[c] = u, \A l \in Lots \ {c} : Entered'[l] = Entered[l], points'[u] = points[u] + Entered'[c] - Entered[c]
      PROVE  points'[u] = SumFunctionOnSet(Entered', Of(u, Lots))
  <2>1. c \in Of(u, Lots)
    BY <1>1, <1>6 DEF Of
  <2>2. /\ \A l \in Of(u, Lots) : Entered[l] \in Int /\ Entered'[l] \in Int
        /\ \A l \in Of(u, Lots) \ {c} : Entered'[l] = Entered[l]
    BY <1>1, <1>2, <1>6
  <2>3. SumFunctionOnSet(Entered', Of(u, Lots)) = SumFunctionOnSet(Entered, Of(u, Lots)) + Entered'[c] - Entered[c]
    BY <1>1, <2>1, <2>2, SumChange
  <2> QED
    BY <1>3, <1>6, <2>3
<1>7. ASSUME points'[u] = points[u], \A l \in Of(u, Lots) : Entered'[l] = Entered[l]
      PROVE  points'[u] = SumFunctionOnSet(Entered', Of(u, Lots))
  <2>1. \A l \in Of(u, Lots) : Entered[l] \in Int
    BY <1>1, <1>2
  <2>2. SumFunctionOnSet(Entered, Of(u, Lots)) = SumFunctionOnSet(Entered', Of(u, Lots))
    BY <1>1, <1>7, <2>1, SumSame
  <2> QED
    BY <1>3, <1>7, <2>2
<1>8. CASE InsertRedeem(c)
  <2>1. redeemed' = redeemed \cup {c} /\ lot' = lot /\ expired' = expired /\ points' = [points EXCEPT ![UserOf[c]] = @ - PointsOf[c]]
    BY <1>8 DEF InsertRedeem
  <2>2. \A l \in Lots \ {c} : Entered'[l] = Entered[l]
    BY <2>1 DEF Entered
  <2>3. Entered'[c] = Entered[c] - PointsOf[c]
    <3>1. PICK k \in Int : k = expired[c] * PointsOf[c]
      <4>1. expired[c] \in Nat
        BY <1>1 DEF PointType
      <4> QED
        BY <1>1, <4>1
    <3> QED
      BY <1>1, <1>4, <2>1, <3>1 DEF Entered
  <2>4. CASE UserOf[c] = u
    <3>1. points'[u] = points[u] - PointsOf[c]
      BY <1>1, <2>1, <2>4 DEF PointType
    <3>2. points'[u] = points[u] + Entered'[c] - Entered[c]
      BY <1>1, <1>2, <1>3, <2>3, <3>1
    <3> QED
      BY <1>6, <2>2, <2>4, <3>2
  <2>5. CASE UserOf[c] # u
    <3>1. points'[u] = points[u] /\ \A l \in Of(u, Lots) : l \in Lots \ {c}
      BY <1>1, <2>1, <2>5 DEF PointType, Of
    <3> QED
      BY <1>7, <2>2, <3>1
  <2> QED
    BY <2>4, <2>5
<1>9. CASE CommitGrant(c)
  <2>1. /\ redeemed' = redeemed /\ expired' = expired /\ points' = [points EXCEPT ![UserOf[c]] = @ + PointsOf[c]]
        /\ lot' = [lot EXCEPT ![c] = IF PointsOf[c] > 0 THEN "fresh" ELSE "none"]
    BY <1>9 DEF CommitGrant
  <2>2. lot[c] = "none" /\ lot'[c] = (IF PointsOf[c] > 0 THEN "fresh" ELSE "none") /\ \A l \in Lots \ {c} : lot'[l] = lot[l]
    BY <1>1, <1>4, <2>1 DEF LotInv, PointType
  <2>3. \A l \in Lots \ {c} : Entered'[l] = Entered[l]
    BY <2>1, <2>2 DEF Entered
  <2>4. Entered'[c] = Entered[c] + PointsOf[c]
    <3>1. PICK k \in Int : k = expired[c] * PointsOf[c]
      <4>1. expired[c] \in Nat
        BY <1>1 DEF PointType
      <4> QED
        BY <1>1, <4>1
    <3>2. (IF lot'[c] = "none" THEN 0 ELSE PointsOf[c]) = PointsOf[c] /\ (IF lot[c] = "none" THEN 0 ELSE PointsOf[c]) = 0
      BY <1>1, <2>2
    <3> QED
      BY <1>1, <1>4, <2>1, <3>1, <3>2 DEF Entered
  <2>5. CASE UserOf[c] = u
    <3>1. points'[u] = points[u] + PointsOf[c]
      BY <1>1, <2>1, <2>5 DEF PointType
    <3>2. points'[u] = points[u] + Entered'[c] - Entered[c]
      BY <1>1, <1>2, <1>3, <2>4, <3>1
    <3> QED
      BY <1>6, <2>3, <2>5, <3>2
  <2>6. CASE UserOf[c] # u
    <3>1. points'[u] = points[u] /\ \A l \in Of(u, Lots) : l \in Lots \ {c}
      BY <1>1, <2>1, <2>6 DEF PointType, Of
    <3> QED
      BY <1>7, <2>3, <3>1
  <2> QED
    BY <2>5, <2>6
<1>10. ASSUME NEW v \in Users, InsertExpire(c, v) PROVE points'[u] = SumFunctionOnSet(Entered', Of(u, Lots))
  <2>1. /\ redeemed' = redeemed /\ lot' = lot
        /\ points' = [points EXCEPT ![v] = @ - SumFunctionOnSet(PointsOf, found[c][v])]
        /\ expired' = [l \in Lots |-> expired[l] + IF l \in found[c][v] THEN 1 ELSE 0]
    BY <1>10 DEF InsertExpire
  <2>2. found[c][v] \subseteq Of(v, Lots) /\ found[c][v] \subseteq Lots
    BY DEF LotInv, PointType, Of
  <2> DEFINE taken == [l \in Lots |-> IF l \in found[c][v] THEN PointsOf[l] ELSE 0]
  <2>3. ASSUME NEW l \in Lots PROVE taken[l] \in Int /\ Entered'[l] = Entered[l] - taken[l]
    <3>1. PICK p \in Nat, k \in Nat : p = PointsOf[l] /\ k = expired[l]
      BY LotFacts DEF PointType
    <3>2. k * p \in Nat /\ (k + 1) * p = k * p + p /\ (k + 0) * p = k * p
      BY <3>1
    <3>3. CASE l \in found[c][v]
      <4>1. expired'[l] = k + 1 /\ expired'[l] * PointsOf[l] = k * p + p /\ taken[l] = p
        BY <2>1, <3>1, <3>2, <3>3
      <4> QED
        BY <2>1, <3>1, <3>2, <4>1 DEF Entered
    <3>4. CASE l \notin found[c][v]
      <4>1. expired'[l] = k /\ taken[l] = 0
        BY <2>1, <3>1, <3>4
      <4>2. Entered'[l] = Entered[l]
        BY <2>1, <3>1, <4>1 DEF Entered
      <4> QED
        BY <1>2, <4>1, <4>2
    <3> QED
      BY <3>3, <3>4
  <2>4. CASE u = v
    <3>1. \A l \in Of(u, Lots) : Entered[l] \in Int /\ taken[l] \in Int /\ Entered'[l] = Entered[l] - taken[l]
      BY <1>1, <1>2, <2>3
    <3>2. \A l \in found[c][u] : taken[l] = PointsOf[l] /\ taken[l] \in Int
      BY <2>2, <2>3, <2>4
    <3>3. \A l \in Of(u, Lots) \ found[c][u] : taken[l] = 0
      BY <1>1, <2>4
    <3> HIDE DEF taken
    <3>4. SumFunctionOnSet(Entered', Of(u, Lots)) = SumFunctionOnSet(Entered, Of(u, Lots)) - SumFunctionOnSet(taken, Of(u, Lots))
      BY <1>1, <3>1, SumMinus
    <3>5. SumFunctionOnSet(taken, Of(u, Lots)) = SumFunctionOnSet(taken, found[c][u])
      BY <1>1, <2>2, <2>4, <3>2, <3>3, SumMore
    <3>6. SumFunctionOnSet(PointsOf, found[c][u]) = SumFunctionOnSet(taken, found[c][u])
      <4>1. IsFiniteSet(found[c][u]) /\ \A l \in found[c][u] : PointsOf[l] \in Int /\ taken[l] = PointsOf[l]
        BY <1>1, <2>2, <2>4, <3>2, FS_Subset
      <4> QED
        BY <4>1, SumSame
    <3>7. points'[u] = points[u] - SumFunctionOnSet(PointsOf, found[c][u])
      BY <2>1, <2>4 DEF PointType
    <3> QED
      BY <1>3, <3>4, <3>5, <3>6, <3>7
  <2>5. CASE u # v
    <3>1. \A l \in Of(u, Lots) : l \in Lots /\ l \notin found[c][v]
      BY <1>1, <2>2, <2>5 DEF Of
    <3>2. \A l \in Of(u, Lots) : Entered'[l] = Entered[l]
      BY <1>2, <2>3, <3>1
    <3>3. points'[u] = points[u]
      BY <2>1, <2>5 DEF PointType
    <3> QED
      BY <1>7, <3>2, <3>3
  <2> QED
    BY <2>4, <2>5
<1>11. CASE /\ ~InsertRedeem(c) /\ ~CommitGrant(c) /\ ~ \E v \in Users : InsertExpire(c, v)
  <2>1. points' = points /\ redeemed' = redeemed /\ expired' = expired /\ (lot' = lot \/ ClearExpiry(c))
    BY <1>0, <1>11 DEF Writes
  <2>2. \A l \in Lots : lot'[l] = "none" <=> lot[l] = "none"
    <3>1. CASE ClearExpiry(c)
      BY <3>1 DEF ClearExpiry, Cleared, Due, Of
    <3> QED
      BY <2>1, <3>1
  <2> QED
    BY <1>5, <2>1, <2>2
<1> QED
  BY <1>8, <1>9, <1>10, <1>11

\* Debts are what was redeemed beside others or before a sweep, and what was taken twice.
LEMMA PointsKept ==
    ASSUME PointType, BesideInv, LotInv, PointsInv, NEW c \in Calls, Acts(c),
           \A u \in Users : points'[u] = SumFunctionOnSet(Entered', Of(u, Lots))
    PROVE  PointsInv'
<1>0. Ways(c) /\ Writes(c) /\ PointType'
  BY Going, PointTypeKept
<1>1. /\ redeemed \subseteq redeemed' /\ beside \subseteq beside' /\ undercut \subseteq undercut'
      /\ \A d \in Calls \ {c} : stage'[d] = stage[d]
  BY <1>0, Growing, Others
<1>2. UserOf[c] \in Users /\ PointsOf[c] \in Nat /\ c \in Lots /\ \A v \in Users : points[v] \in Int /\ points'[v] \in Int
  BY <1>0, LotFacts DEF PointType
<1>3. ASSUME NEW v \in Users
      PROVE points'[v] >= points[v] \/ (InsertRedeem(c) /\ UserOf[c] = v) \/ InsertExpire(c, v)
  <2>1. CASE InsertRedeem(c)
    BY <1>2, <2>1 DEF InsertRedeem, PointType
  <2>2. CASE CommitGrant(c)
    BY <1>2, <2>2 DEF CommitGrant, PointType
  <2>3. ASSUME NEW w \in Users, InsertExpire(c, w) PROVE points'[v] >= points[v] \/ InsertExpire(c, v)
    <3>1. CASE w = v
      BY <2>3, <3>1
    <3>2. CASE w # v
      <4>1. points'[v] = points[v]
        BY <2>3, <3>2 DEF InsertExpire, PointType
      <4> QED
        BY <1>2, <4>1
    <3> QED
      BY <3>1, <3>2
  <2>4. CASE points' = points
    BY <1>2, <2>4
  <2> QED
    BY <1>0, <2>1, <2>2, <2>3, <2>4 DEF Writes
<1>4. ASSUME NEW u \in Users
      PROVE  points'[u] + SumFunctionOnSet(PointsOf, Excused(u)') + SumFunctionOnSet(TakenTwice', Of(u, Lots)) >= 0
  <2> DEFINE Owed == SumFunctionOnSet(PointsOf, Excused(u))
             Owed1 == SumFunctionOnSet(PointsOf, Excused(u)')
             Twice == SumFunctionOnSet(TakenTwice, Of(u, Lots))
             Twice1 == SumFunctionOnSet(TakenTwice', Of(u, Lots))
  <2>1. /\ Excused(u) \subseteq Excused(u)' /\ Excused(u)' \subseteq Lots /\ IsFiniteSet(Excused(u)')
        /\ Of(u, Lots) \subseteq Lots /\ IsFiniteSet(Of(u, Lots))
    <3>1. Excused(u) \subseteq Excused(u)'
      BY <1>1 DEF Excused, Of
    <3>2. Excused(u)' \subseteq Lots
      BY <1>0, LotFacts DEF Excused, Of, PointType
    <3>3. Of(u, Lots) \subseteq Lots
      BY DEF Of
    <3> QED
      BY <3>1, <3>2, <3>3, LotFacts, FS_Subset
  <2>2. Owed \in Nat /\ Owed1 \in Nat /\ Owed <= Owed1
    <3>1. \A l \in Excused(u)' : PointsOf[l] \in Nat
      BY <2>1, LotFacts
    <3>2. Owed <= Owed1
      BY <2>1, <3>1, SumFewer
    <3>3. Excused(u) \in SUBSET Lots /\ Excused(u)' \in SUBSET Lots
      BY <2>1
    <3>4. Owed \in Nat /\ Owed1 \in Nat
      BY <3>3, LotFacts
    <3> QED
      BY <3>2, <3>4
  <2>3. ASSUME NEW l \in Lots PROVE TakenTwice[l] \in Nat /\ TakenTwice'[l] \in Nat /\ TakenTwice[l] <= TakenTwice'[l]
    <3>1. PICK p \in Nat, k \in Nat, n \in Nat : p = PointsOf[l] /\ k = expired[l] /\ n = expired'[l]
      BY <1>0, LotFacts DEF PointType
    <3>2. n = k \/ n = k + 1
      <4>1. ASSUME NEW v \in Users, InsertExpire(c, v) PROVE n = k \/ n = k + 1
        BY <3>1, <4>1 DEF InsertExpire
      <4> QED
        BY <1>0, <3>1, <4>1 DEF Writes
    <3>3. TakenTwice[l] = (IF k > 1 THEN (k - 1) * p ELSE 0) /\ TakenTwice'[l] = (IF n > 1 THEN (n - 1) * p ELSE 0)
      BY <3>1 DEF TakenTwice
    <3>4. CASE n = k
      BY <3>1, <3>3, <3>4, Times
    <3>5. CASE n = k + 1
      <4>1. n - 1 = k /\ k * p \in Nat /\ (k - 1) * p = k * p - p
        BY <3>5, Times
      <4>2. TakenTwice'[l] = IF k > 0 THEN k * p ELSE 0
        BY <3>3, <3>5, <4>1
      <4>3. CASE k > 1
        <5>1. TakenTwice'[l] = k * p /\ TakenTwice[l] = k * p - p
          BY <3>3, <4>1, <4>2, <4>3
        <5>2. k * p - p \in Nat
          BY <4>1, <4>3, Times
        <5> QED
          BY <4>1, <5>1, <5>2
      <4>4. CASE ~ (k > 1)
        <5>1. TakenTwice[l] = 0 /\ TakenTwice'[l] \in Nat
          BY <3>3, <4>1, <4>2, <4>4
        <5> QED
          BY <5>1
      <4> QED
        BY <4>3, <4>4
    <3> QED
      BY <3>2, <3>4, <3>5
  <2>4. Twice \in Nat /\ Twice1 \in Nat /\ Twice <= Twice1
    <3>1. \A l \in Of(u, Lots) : TakenTwice[l] \in Nat /\ TakenTwice'[l] \in Nat /\ TakenTwice[l] <= TakenTwice'[l]
      BY <2>1, <2>3
    <3>2. \A l \in Of(u, Lots) : TakenTwice[l] \in Int /\ TakenTwice'[l] \in Int /\ TakenTwice[l] <= TakenTwice'[l]
      BY <3>1
    <3>3. Twice <= Twice1
      BY <2>1, <3>2, SumOrder
    <3>4. Twice \in Nat /\ Twice1 \in Nat
      BY <2>1, <3>1, SumNat
    <3> QED
      BY <3>3, <3>4
  <2>5. points[u] + Owed + Twice >= 0
    BY DEF PointsInv, OverdrawnHasCause
  <2>6. SUFFICES points'[u] + Owed1 + Twice1 >= 0
    OBVIOUS
  <2> HIDE DEF Owed, Owed1, Twice, Twice1
  <2>7. CASE points'[u] >= points[u]
    BY <1>2, <2>2, <2>4, <2>5, <2>7
  <2>8. CASE InsertRedeem(c) /\ UserOf[c] = u
    <3>1. /\ points'[u] = points[u] - PointsOf[c] /\ redeemed' = redeemed \cup {c} /\ c \in Redeeming
          /\ beside' = beside /\ undercut' = undercut /\ c \notin redeemed
      BY <1>0, <1>2, <2>8 DEF InsertRedeem, PointType, Redeeming, BesideInv, Ways
    <3>2. CASE c \in undercut \/ \E d \in Of(u, redeemed) : {c, d} \in beside
      <4>1. c \in Excused(u)' /\ c \notin Excused(u)
        BY <2>8, <3>1, <3>2 DEF Excused, Of
      <4>2. Owed + PointsOf[c] <= Owed1
        <5>1. Excused(u) \cup {c} \subseteq Excused(u)' /\ \A l \in Excused(u)' : PointsOf[l] \in Nat
          BY <2>1, <4>1, LotFacts
        <5>2. SumFunctionOnSet(PointsOf, Excused(u) \cup {c}) <= Owed1
          BY <2>1, <5>1, SumFewer DEF Owed1
        <5>3. SumFunctionOnSet(PointsOf, Excused(u) \cup {c}) = SumFunctionOnSet(PointsOf, Excused(u)) + PointsOf[c]
          <6>1. Excused(u) \subseteq Lots
            BY <2>1
          <6> QED
            BY <1>2, <4>1, <6>1, OneMore
        <5> QED
          BY <5>2, <5>3 DEF Owed
      <4> QED
        BY <1>2, <2>2, <2>4, <2>5, <3>1, <4>2
    <3>3. CASE c \notin undercut /\ \A d \in Of(u, redeemed) : {c, d} \notin beside
      <4>1. points[u] >= PointsOf[c]
        BY <2>8, <3>1, <3>3 DEF PointsInv
      <4> QED
        BY <1>2, <2>2, <2>4, <3>1, <4>1
    <3> QED
      BY <3>2, <3>3
  <2>9. CASE InsertExpire(c, u)
    <3>1. /\ redeemed' = redeemed /\ lot' = lot /\ Of(u, redeemed) \subseteq undercut'
          /\ expired' = [l \in Lots |-> expired[l] + IF l \in found[c][u] THEN 1 ELSE 0]
      BY <2>9 DEF InsertExpire, Of
    <3> DEFINE there == {l \in Lots : lot'[l] # "none"}
    <3>2. \A l \in Of(u, Lots) : expired'[l] > 0 => l \in there
      <4>1. ASSUME NEW l \in Lots, expired'[l] > 0 PROVE lot[l] # "none"
        <5>1. CASE l \in found[c][u]
          BY <5>1 DEF LotInv
        <5>2. CASE l \notin found[c][u]
          <6>1. expired[l] \in Nat /\ expired'[l] = expired[l] + 0
            BY <3>1, <5>2 DEF PointType
          <6> QED
            BY <4>1, <6>1 DEF LotInv
        <5> QED
          BY <5>1, <5>2
      <4> QED
        BY <2>1, <3>1, <4>1
    <3>3. \A l \in Of(u, Lots) : /\ Entered'[l] = (IF l \in there THEN PointsOf[l] ELSE 0) - expired'[l] * PointsOf[l]
                                                  - (IF l \in redeemed' THEN PointsOf[l] ELSE 0)
                                 /\ TakenTwice'[l] = IF expired'[l] > 1 THEN (expired'[l] - 1) * PointsOf[l] ELSE 0
      BY <2>1 DEF Entered, TakenTwice
    <3>4. expired' \in [Lots -> Nat] /\ Of(u, Lots) \in SUBSET Lots
      BY <1>0, <2>1 DEF PointType
    <3>5. Of(u, Lots) \cap redeemed' = Excused(u)'
      BY <1>0, <3>1, LotFacts DEF Excused, Of, PointType
    <3> HIDE DEF there
    <3>6. SumFunctionOnSet(Entered', Of(u, Lots)) + SumFunctionOnSet(PointsOf, Of(u, Lots) \cap redeemed')
             + SumFunctionOnSet(TakenTwice', Of(u, Lots)) >= 0
      BY <3>2, <3>3, <3>4, NothingElseIsOwed
    <3> QED
      BY <3>5, <3>6 DEF Owed1, Twice1
  <2> QED
    BY <1>3, <2>7, <2>8, <2>9
<1>5. ASSUME NEW d \in Redeeming', d \notin undercut', \A e \in Of(UserOf[d], redeemed)' : {d, e} \notin beside'
      PROVE  points'[UserOf[d]] >= PointsOf[d]
  <2>1. d \in Calls /\ stage'[d] = "redeem" /\ UserOf[d] \in Users /\ PointsOf[d] \in Nat
    BY LotFacts DEF Redeeming
  <2>2. CASE d = c
    <3>1. ReadBalance(c)
      BY <1>0, <2>1, <2>2 DEF Ways
    <3>2. Covers(c) /\ points' = points
      BY <2>1, <2>2, <3>1, StagesApart DEF ReadBalance, Goto, PointType, pointVars
    <3> QED
      BY <2>2, <3>2 DEF Covers
  <2>3. CASE d # c
    <3>1. d \in Redeeming
      BY <1>1, <2>1, <2>3 DEF Redeeming
    <3>2. d \notin undercut /\ \A e \in Of(UserOf[d], redeemed) : {d, e} \notin beside
      BY <1>1, <1>5 DEF Of
    <3>3. points[UserOf[d]] >= PointsOf[d]
      BY <3>1, <3>2 DEF PointsInv
    <3>4. ~ (InsertRedeem(c) /\ UserOf[c] = UserOf[d])
      <4>1. SUFFICES ASSUME InsertRedeem(c), UserOf[c] = UserOf[d] PROVE FALSE
        OBVIOUS
      <4>2. c \in Redeeming /\ c \in Of(UserOf[d], redeemed)'
        BY <4>1 DEF InsertRedeem, Of, Redeeming
      <4>3. {d, c} \in beside
        BY <2>3, <3>1, <4>1, <4>2 DEF BesideInv
      <4> QED
        BY <1>1, <1>5, <4>2, <4>3
    <3>5. ~ InsertExpire(c, UserOf[d])
      <4>1. InsertExpire(c, UserOf[d]) => d \in undercut'
        BY <2>1, <3>1 DEF InsertExpire, Of
      <4> QED
        BY <1>5, <4>1
    <3> QED
      BY <1>2, <1>3, <2>1, <3>3, <3>4, <3>5
  <2> QED
    BY <2>2, <2>3
<1>6. OverdrawnHasCause'
  BY <1>4 DEF OverdrawnHasCause, Of
<1> QED
  BY <1>5, <1>6 DEF PointsInv, Of

\* How many calls of a user, or of all, there are.
LEMMA CallSets ==
    ASSUME NEW S, S \subseteq Calls
    PROVE  /\ IsFiniteSet(S) /\ Cardinality(S) \in Nat
           /\ \A T \in SUBSET S : Cardinality(T) \in Nat /\ Cardinality(T) <= Cardinality(S)
           /\ \A x \in Calls \ S : Cardinality(S \cup {x}) = Cardinality(S) + 1
<1>1. IsFiniteSet(S)
  BY LotFacts, FS_Subset
<1>2. \A T \in SUBSET S : IsFiniteSet(T) /\ Cardinality(T) <= Cardinality(S)
  BY <1>1, FS_Subset
<1> QED
  BY <1>1, <1>2, FS_CardinalityType, FS_AddElement

\* An offer is granted once for a payment, and as often to a user as it may be unless
\* calls overlapped.
LEMMA OfferKept ==
    ASSUME PointType, BesideInv, OfferInv, NEW c \in Calls, Acts(c)
    PROVE  OfferInv'
<1>0. Ways(c) /\ Writes(c)
  BY Going
<1>1. /\ granted \subseteq granted' /\ beside \subseteq beside' /\ granted \subseteq Calls
      /\ \A d \in Calls \ {c} : stage'[d] = stage[d]
  BY <1>0, Growing, Others DEF PointType
<1>2. CASE CommitGrant(c)
  <2>1. stage[c] = "commit" /\ granted' = granted \cup {c} /\ stage'[c] = "done" /\ beside' = beside
    BY <1>2 DEF CommitGrant, Goto, PointType
  <2>2. SamePayment(c, granted) = {} /\ c \notin granted /\ c \in Applying
    BY <2>1 DEF OfferInv, BesideInv, Applying
  <2>3. \A x \in granted' : SamePayment(x, granted)' = {}
    BY <2>1, <2>2 DEF OfferInv, SamePayment
  <2>4. ASSUME NEW x \in Calls, stage'[x] \in {"account", "commit"}
        PROVE  SamePayment(x, granted)' = {} /\ \A d \in SamePayment(x, Calls) : stage'[d] \notin {"account", "commit"}
    <3>1. x # c /\ stage[x] \in {"account", "commit"}
      BY <1>1, <2>1, <2>4
    <3>2. SamePayment(x, granted) = {} /\ \A d \in SamePayment(x, Calls) : stage[d] \notin {"account", "commit"}
      BY <3>1 DEF OfferInv
    <3>3. c \notin SamePayment(x, Calls)
      BY <2>1, <3>2
    <3>4. SamePayment(x, granted)' = {}
      BY <2>1, <3>1, <3>2, <3>3 DEF SamePayment
    <3>5. \A d \in SamePayment(x, Calls) : d \in Calls \ {c}
      BY <3>3 DEF SamePayment
    <3> QED
      BY <1>1, <3>2, <3>4, <3>5
  <2>5. ASSUME NEW u \in Users, \A a, b \in Of(u, granted)' : a # b => {a, b} \notin beside'
        PROVE  Cardinality(Of(u, granted)') <= PerUser
    <3>1. \A a, b \in Of(u, granted) : a # b => {a, b} \notin beside
      BY <2>1, <2>5 DEF Of
    <3>2. CASE UserOf[c] # u
      <4>1. Of(u, granted)' = Of(u, granted)
        BY <2>1, <3>2 DEF Of
      <4> QED
        BY <3>1, <4>1 DEF OfferInv
    <3>3. CASE UserOf[c] = u
      <4>1. Of(u, granted)' = Of(u, granted) \cup {c} /\ Of(u, granted) \subseteq Calls /\ c \in Calls \ Of(u, granted)
        BY <1>1, <2>1, <2>2, <3>3 DEF Of
      <4>2. \A d \in Of(u, granted) : {c, d} \notin beside
        BY <2>1, <2>5, <4>1
      <4>3. Cardinality(Of(u, granted)) < PerUser
        BY <2>2, <3>3, <4>2 DEF OfferInv
      <4>4. Cardinality(Of(u, granted) \cup {c}) = Cardinality(Of(u, granted)) + 1 /\ Cardinality(Of(u, granted)) \in Nat
        BY <4>1, CallSets
      <4> QED
        BY <4>1, <4>3, <4>4, LotFacts
    <3> QED
      BY <3>2, <3>3
  <2>6. ASSUME NEW x \in Applying', \A d \in Of(UserOf[x], granted)' : {x, d} \notin beside'
        PROVE  Cardinality(Of(UserOf[x], granted)') < PerUser
    <3>1. x \in Applying /\ x # c
      BY <1>1, <2>1 DEF Applying
    <3>2. UserOf[x] # UserOf[c]
      <4>1. SUFFICES ASSUME UserOf[x] = UserOf[c] PROVE FALSE
        OBVIOUS
      <4>2. {x, c} \in beside
        BY <2>2, <3>1, <4>1 DEF BesideInv
      <4>3. c \in Of(UserOf[x], granted)'
        BY <2>1, <4>1 DEF Of
      <4> QED
        BY <1>1, <2>6, <4>2, <4>3
    <3>3. Of(UserOf[x], granted)' = Of(UserOf[x], granted)
      BY <2>1, <3>2 DEF Of
    <3> QED
      BY <2>1, <2>6, <3>1, <3>3 DEF OfferInv
  <2> QED
    BY <2>3, <2>4, <2>5, <2>6 DEF OfferInv
<1>3. CASE granted' = granted
  <2>1. ASSUME NEW x \in Calls, stage'[x] \in {"account", "commit"}
        PROVE  SamePayment(x, granted) = {} /\ \A d \in SamePayment(x, Calls) : stage'[d] \notin {"account", "commit"}
    <3>1. CASE x = c
      <4>1. CASE RecordRedemption(c)
        <5>1. stage'[c] = IF SamePayment(c, granted) # {} THEN "done" ELSE IF PointsOf[c] = 0 THEN "commit" ELSE "account"
          BY <4>1 DEF RecordRedemption, Goto, PointType
        <5>2. SamePayment(c, granted) = {}
          BY <2>1, <3>1, <5>1
        <5>3. \A d \in SamePayment(c, Calls) : d \in Calls \ {c} /\ stage[d] \notin {"account", "commit"}
          BY <4>1 DEF RecordRedemption, Rivals, SamePayment, Open
        <5> QED
          BY <1>1, <3>1, <5>2, <5>3
      <4>2. CASE PointAccount(c)
        <5>1. stage[c] = "account"
          BY <4>2 DEF PointAccount
        <5>2. SamePayment(c, granted) = {} /\ \A d \in SamePayment(c, Calls) : stage[d] \notin {"account", "commit"}
          BY <5>1 DEF OfferInv
        <5>3. \A d \in SamePayment(c, Calls) : d \in Calls \ {c}
          BY DEF SamePayment
        <5> QED
          BY <1>1, <3>1, <5>2, <5>3
      <4> QED
        BY <1>0, <2>1, <3>1, <4>1, <4>2 DEF Ways
    <3>2. CASE x # c
      <4>1. stage[x] \in {"account", "commit"}
        BY <1>1, <2>1, <3>2
      <4>2. SamePayment(x, granted) = {} /\ \A d \in SamePayment(x, Calls) : stage[d] \notin {"account", "commit"}
        BY <4>1 DEF OfferInv
      <4>3. ASSUME c \in SamePayment(x, Calls) PROVE stage'[c] \notin {"account", "commit"}
        <5>1. ~ PointAccount(c)
          BY <4>2, <4>3 DEF PointAccount
        <5>2. x \in SamePayment(c, Open)
          BY <3>2, <4>1, <4>3 DEF SamePayment, Open
        <5>3. ~ RecordRedemption(c)
          BY <4>1, <5>2 DEF RecordRedemption, Rivals
        <5> QED
          BY <1>0, <5>1, <5>3 DEF Ways
      <4>4. \A d \in SamePayment(x, Calls) : d \in Calls
        BY DEF SamePayment
      <4> QED
        BY <1>1, <4>2, <4>3, <4>4
    <3> QED
      BY <3>1, <3>2
  <2>2. ASSUME NEW u \in Users, \A a, b \in Of(u, granted) : a # b => {a, b} \notin beside'
        PROVE  Cardinality(Of(u, granted)) <= PerUser
    BY <1>1, <2>2 DEF OfferInv
  <2>3. ASSUME NEW x \in Applying', \A d \in Of(UserOf[x], granted) : {x, d} \notin beside'
        PROVE  Cardinality(Of(UserOf[x], granted)) < PerUser
    <3>1. CASE x \in Applying
      BY <1>1, <2>3, <3>1 DEF OfferInv
    <3>2. CASE x \notin Applying
      <4>1. x = c /\ CountUsed(c)
        BY <1>0, <1>1, <3>2 DEF Applying, Ways, TakeQuota, BeginGrant, RecordRedemption, PointAccount
      <4>2. stage'[c] # "done"
        BY <4>1 DEF Applying
      <4>3. ~ UsedUp(c)
        BY <4>1, <4>2 DEF CountUsed, Goto, PointType
      <4>4. Of(UserOf[c], granted) \subseteq Calls
        BY <1>1 DEF Of
      <4>5. Cardinality(Of(UserOf[c], granted)) \in Nat
        BY <4>4, CallSets
      <4> QED
        BY <4>1, <4>3, <4>5, LotFacts DEF UsedUp
    <3> QED
      BY <3>1, <3>2
  <2>4. \A x \in granted : SamePayment(x, granted) = {}
    BY DEF OfferInv
  <2>5. \A u \in Users : Of(u, granted)' = Of(u, granted)
    BY <1>3 DEF Of
  <2>6. \A x \in Calls : SamePayment(x, granted)' = SamePayment(x, granted) /\ Of(UserOf[x], granted)' = Of(UserOf[x], granted)
    BY <1>3 DEF SamePayment, Of
  <2>7. Applying' \subseteq Calls
    BY DEF Applying
  <2> QED
    BY <1>1, <1>3, <2>1, <2>2, <2>3, <2>4, <2>5, <2>6, <2>7 DEF OfferInv
<1> QED
  BY <1>0, <1>2, <1>3 DEF Writes

\* Every place of the quota is taken by one call.
LEMMA QuotaKept ==
    ASSUME PointType, BesideInv, QuotaInv, NEW c \in Calls, Acts(c)
    PROVE  QuotaInv'
<1>0. Ways(c) /\ Writes(c)
  BY Going
<1>1. /\ granted \subseteq Calls /\ Takers \subseteq Calls
      /\ \A d \in Calls \ {c} : stage'[d] = stage[d]
  BY <1>0, Others DEF PointType, Takers
<1>2. kept' = kept
  BY <1>0 DEF Writes
<1>3. granted' \subseteq granted \cup {c} /\ (c \in granted' => c \in granted \/ stage[c] = "commit")
  BY <1>0, <1>1 DEF Writes, CommitGrant
<1>4. CASE TakeQuota(c) /\ stage'[c] = "begin"
  <2>1. /\ stage[c] = "take" /\ stage' = [stage EXCEPT ![c] = "begin"] /\ ~ (quota # Absent /\ quota <= 0)
        /\ quota' = IF quota # Absent /\ quota > 0 THEN quota - 1 ELSE quota
    BY <1>4 DEF TakeQuota, Goto, PointType
  <2>2. granted' = granted /\ c \notin granted
    BY <1>4, <2>1 DEF TakeQuota, BesideInv
  <2>3. Takers' = Takers \cup {c} /\ c \notin Takers
    BY <1>1, <2>1, <2>2 DEF Takers, PointType
  <2>4. Cardinality(Takers') = Cardinality(Takers) + 1 /\ Cardinality(Takers) \in Nat
    BY <1>1, <2>3, CallSets
  <2>5. ASSUME kept PROVE quota' \in Nat /\ quota' + Cardinality(Takers') <= Total
    <3>1. quota \in Nat /\ quota + Cardinality(Takers) <= Total /\ quota # Absent
      BY <2>5, LotFacts DEF QuotaInv
    <3>2. quota > 0 /\ quota' = quota - 1
      BY <2>1, <3>1
    <3> QED
      BY <2>4, <3>1, <3>2, LotFacts
  <2> QED
    BY <1>2, <2>5 DEF QuotaInv
<1>5. CASE ~ (TakeQuota(c) /\ stage'[c] = "begin")
  <2>1. Takers' \subseteq Takers
    BY <1>0, <1>1, <1>3, <1>5 DEF Takers, Ways, BeginGrant, RecordRedemption, PointAccount
  <2>2. Cardinality(Takers') <= Cardinality(Takers) /\ Cardinality(Takers') \in Nat /\ Cardinality(Takers) \in Nat
    BY <1>1, <2>1, CallSets
  <2>3. ASSUME kept PROVE quota' = quota
    <3>1. quota # Absent
      BY <2>3, LotFacts DEF QuotaInv
    <3>2. ASSUME TakeQuota(c) PROVE quota' = quota
      BY <1>5, <3>1, <3>2, <2>3 DEF TakeQuota, Goto, PointType, QuotaInv
    <3> QED
      BY <1>0, <3>2 DEF Writes
  <2>4. ASSUME kept PROVE quota' \in Nat /\ quota' + Cardinality(Takers') <= Total
    BY <2>2, <2>3, <2>4, LotFacts DEF QuotaInv
  <2> QED
    BY <1>2, <2>4 DEF QuotaInv
<1> QED
  BY <1>4, <1>5

\* Awards move on: nothing that is due or cleared is fresh again.
LEMMA LotMoves ==
    ASSUME PointType, BesideInv, LotInv, NEW c \in Calls, Acts(c), NEW l \in Lots
    PROVE  /\ lot[l] = "cleared" => lot'[l] = "cleared"
           /\ lot[l] = "due" => lot'[l] = IF ClearExpiry(c) /\ stage[c] = UserOf[l] THEN "cleared" ELSE "due"
           /\ lot'[l] = "due" => lot[l] = "due"
           /\ lot'[l] = "cleared" => lot[l] = "cleared" \/ (ClearExpiry(c) /\ stage[c] = UserOf[l] /\ lot[l] = "due")
           /\ expired[l] \in Nat /\ expired'[l] \in Nat /\ expired'[l] >= expired[l]
           /\ expired'[l] > expired[l] =>
                 /\ InsertExpire(c, UserOf[l])
                 /\ l \in found[c][UserOf[l]] /\ expired'[l] = expired[l] + 1
<1>0. Ways(c) /\ Writes(c) /\ PointType'
  BY Going, PointTypeKept
<1>1. expired[l] \in Nat /\ expired'[l] \in Nat
  BY <1>0 DEF PointType
<1>2. ASSUME NEW u \in Users, InsertExpire(c, u)
      PROVE  /\ expired'[l] >= expired[l]
             /\ expired'[l] > expired[l] =>
                   InsertExpire(c, UserOf[l]) /\ l \in found[c][UserOf[l]] /\ expired'[l] = expired[l] + 1
  <2>1. expired'[l] = expired[l] + IF l \in found[c][u] THEN 1 ELSE 0
    BY <1>2 DEF InsertExpire
  <2>2. l \in found[c][u] => UserOf[l] = u
    BY DEF LotInv
  <2> QED
    BY <1>1, <1>2, <2>1, <2>2
<1>3. /\ expired'[l] >= expired[l]
      /\ expired'[l] > expired[l] =>
            InsertExpire(c, UserOf[l]) /\ l \in found[c][UserOf[l]] /\ expired'[l] = expired[l] + 1
  <2>1. CASE expired' = expired
    BY <1>1, <2>1
  <2> QED
    BY <1>0, <1>2, <2>1 DEF Writes
<1>4. CASE CommitGrant(c)
  <2>1. lot' = [lot EXCEPT ![c] = IF PointsOf[c] > 0 THEN "fresh" ELSE "none"] /\ stage[c] = "commit"
    BY <1>4 DEF CommitGrant
  <2>2. lot[c] = "none"
    BY <2>1 DEF LotInv, BesideInv
  <2>3. lot'[l] = lot[l] \/ (lot[l] = "none" /\ lot'[l] \in {"fresh", "none"})
    BY <2>1, <2>2 DEF PointType
  <2>4. ~ ClearExpiry(c)
    BY <2>1, StagesApart DEF ClearExpiry
  <2> QED
    BY <1>1, <1>3, <2>3, <2>4
<1>5. CASE ClearExpiry(c)
  <2>1. lot'[l] = IF UserOf[l] = stage[c] /\ lot[l] = "due" THEN "cleared" ELSE lot[l]
    BY <1>5 DEF ClearExpiry, Cleared, Due, Of
  <2> QED
    BY <1>1, <1>3, <1>5, <2>1
<1>6. CASE lot' = lot /\ ~ ClearExpiry(c)
  BY <1>1, <1>3, <1>6
<1> QED
  BY <1>0, <1>4, <1>5, <1>6 DEF Writes

\* What is found is due, and what is taken stays due until it is cleared.
LEMMA LotKept ==
    ASSUME PointType, BesideInv, LotInv, NEW c \in Calls, Acts(c)
    PROVE  LotInv'
<1>0. Ways(c) /\ Writes(c) /\ PointType'
  BY Going, PointTypeKept
<1>1. /\ granted \subseteq granted' /\ swept \subseteq swept'
      /\ \A d \in Calls \ {c} : stage'[d] = stage[d]
  BY <1>0, Growing, Others
<1>2. ASSUME NEW x \in Calls \ granted' PROVE lot'[x] = "none"
  <2>1. lot[x] = "none" /\ x \in Lots
    BY <1>1, LotFacts DEF LotInv
  <2>2. CASE CommitGrant(c)
    <3>1. x # c
      BY <2>2 DEF CommitGrant
    <3> QED
      BY <2>1, <2>2, <3>1 DEF CommitGrant, PointType
  <2>3. CASE ClearExpiry(c)
    BY <2>1, <2>3 DEF ClearExpiry, Cleared, Due
  <2> QED
    BY <1>0, <2>1, <2>2, <2>3 DEF Writes
<1>3. \A l \in Lots : lot[l] \in {"due", "cleared"} => lot'[l] \in {"due", "cleared"}
  BY LotMoves
<1>4. ASSUME NEW l \in Lots, expired'[l] > 0
      PROVE  lot'[l] \in {"due", "cleared"} /\ \E t \in Calls : <<t, UserOf[l]>> \in swept'
  <2>1. CASE expired[l] > 0
    <3>1. lot[l] \in {"due", "cleared"} /\ \E t \in Calls : <<t, UserOf[l]>> \in swept
      BY <2>1 DEF LotInv
    <3> QED
      BY <1>1, <1>3, <3>1
  <2>2. CASE ~ (expired[l] > 0)
    <3>1. expired'[l] > expired[l]
      BY <1>4, <2>2, LotMoves
    <3>2. InsertExpire(c, UserOf[l]) /\ l \in found[c][UserOf[l]]
      BY <3>1, LotMoves
    <3>3. lot[l] \in {"due", "cleared"}
      BY <3>2, LotFacts DEF LotInv
    <3>4. <<c, UserOf[l]>> \in swept'
      BY <3>2 DEF InsertExpire
    <3> QED
      BY <1>3, <3>3, <3>4
  <2> QED
    BY <2>1, <2>2
<1>5. ASSUME NEW s \in Calls, NEW u \in Users, NEW l \in found'[s][u]
      PROVE  UserOf[l] = u /\ lot'[l] \in {"due", "cleared"}
  <2>1. l \in Lots
    BY <1>0 DEF PointType
  <2>2. CASE l \in found[s][u]
    <3>1. UserOf[l] = u /\ lot[l] \in {"due", "cleared"}
      BY <2>2 DEF LotInv
    <3> QED
      BY <1>3, <2>1, <3>1
  <2>3. CASE l \notin found[s][u]
    <3>1. ~ ClearExpiry(c)
      BY <1>5, <2>3 DEF ClearExpiry, PointType
    <3>2. FindStale(c)
      BY <1>0, <1>5, <2>3, <3>1 DEF Writes
    <3>3. l \in Due(u)
      BY <1>5, <2>3, <3>2 DEF FindStale, PointType
    <3>4. UserOf[l] = u /\ lot[l] \in {"due", "cleared"}
      BY <3>3 DEF Due, Of
    <3> QED
      BY <1>3, <2>1, <3>4
  <2> QED
    BY <2>2, <2>3
<1>6. ASSUME NEW s \in Calls, stage'[s] \in Users
      PROVE  <<s, stage'[s]>> \in swept' /\ \A l \in found'[s][stage'[s]] : expired'[l] > 0
  <2>1. CASE s = c
    <3>1. PICK u \in Users : InsertExpire(c, u)
      BY <1>0, <1>6, <2>1 DEF Ways
    <3>2. stage'[c] = u /\ <<c, u>> \in swept' /\ found' = found
      BY <3>1 DEF InsertExpire, PointType
    <3>3. ASSUME NEW l \in found[c][u] PROVE expired'[l] > 0
      <4>1. l \in Lots /\ expired[l] \in Nat
        BY DEF PointType
      <4>2. expired'[l] = expired[l] + 1
        BY <3>1, <4>1 DEF InsertExpire
      <4> QED
        BY <4>1, <4>2
    <3> QED
      BY <2>1, <3>2, <3>3
  <2>2. CASE s # c
    <3>1. stage'[s] = stage[s]
      BY <1>1, <2>2
    <3>2. <<s, stage[s]>> \in swept /\ \A l \in found[s][stage[s]] : expired[l] > 0
      BY <1>6, <3>1 DEF LotInv
    <3>3. found'[s] = found[s]
      BY <1>0, <2>2 DEF Writes, FindStale, ClearExpiry, PointType
    <3>4. ASSUME NEW l \in found[s][stage[s]] PROVE expired'[l] > 0
      <4>1. l \in Lots
        BY <1>6, <3>1 DEF PointType
      <4>2. expired[l] \in Nat /\ expired'[l] \in Nat /\ expired'[l] >= expired[l]
        BY <4>1, LotMoves
      <4>3. expired[l] > 0
        BY <3>2
      <4> QED
        BY <4>2, <4>3
    <3> QED
      BY <1>1, <3>1, <3>2, <3>3, <3>4
  <2> QED
    BY <2>1, <2>2
<1> QED
  BY <1>2, <1>4, <1>5, <1>6 DEF LotInv

\* A sweep that is under way, and where what it has found went.
LEMMA Swept ==
    ASSUME PointType, LotInv, NEW c \in Calls, Acts(c), NEW s \in Sweeping', NEW u \in Users
    PROVE  /\ s \notin Sweeping => s = c /\ FindStale(c) /\ found'[s][u] = Due(u)
           /\ s \in Sweeping => found'[s][u] = IF s = c /\ ClearExpiry(c) /\ stage[c] = u THEN {} ELSE found[s][u]
<1>0. Ways(c) /\ Writes(c) /\ PointType'
  BY Going, PointTypeKept
<1>1. \A d \in Calls \ {c} : stage'[d] = stage[d]
  BY <1>0, Others
<1>2. s \in Calls
  BY DEF Sweeping
<1>3. s \notin Sweeping => s = c /\ FindStale(c)
  BY <1>0, <1>1, <1>2 DEF Sweeping, Ways, InsertExpire, ClearExpiry
<1>4. FindStale(c) => c \notin Sweeping
  BY StagesApart DEF FindStale, Sweeping
<1>5. s \notin Sweeping => found'[s][u] = Due(u)
  BY <1>2, <1>3 DEF FindStale, PointType
<1>6. ASSUME s \in Sweeping PROVE found'[s][u] = IF s = c /\ ClearExpiry(c) /\ stage[c] = u THEN {} ELSE found[s][u]
  <2>1. CASE ClearExpiry(c)
    <3>1. found' = [found EXCEPT ![c][stage[c]] = {}] /\ stage[c] \in Users
      BY <2>1 DEF ClearExpiry
    <3> QED
      BY <1>2, <2>1, <3>1 DEF PointType
  <2>2. CASE FindStale(c)
    <3>1. s # c
      BY <1>4, <1>6, <2>2
    <3> QED
      BY <1>2, <2>2, <3>1 DEF FindStale, PointType
  <2>3. CASE found' = found /\ ~ ClearExpiry(c)
    BY <2>3
  <2> QED
    BY <1>0, <2>1, <2>2, <2>3 DEF Writes
<1> QED
  BY <1>3, <1>5, <1>6

\* Who finds what another has taken is beside it.
LEMMA SweepKept ==
    ASSUME PointType, BesideInv, LotInv, SweepInv, NEW c \in Calls, Acts(c)
    PROVE  SweepInv'
<1>0. Ways(c) /\ Writes(c) /\ PointType'
  BY Going, PointTypeKept
<1>1. /\ swept \subseteq swept' /\ beside \subseteq beside' /\ cut \subseteq cut'
      /\ \A d \in Calls \ {c} : stage'[d] = stage[d]
  BY <1>0, Growing, Others
<1> SUFFICES ASSUME cut' = {}, NEW l \in Lots, expired'[l] > 0
             PROVE  /\ lot'[l] = "due" => \E t \in Calls : stage'[t] = UserOf[l]
                    /\ \A s \in Sweeping' : stage'[s] # UserOf[l] /\ l \in found'[s][UserOf[l]] =>
                          \E t \in Calls : t # s /\ <<t, UserOf[l]>> \in swept' /\ {s, t} \in beside'
  BY DEF SweepInv
<1>2. cut = {} /\ UserOf[l] \in Users
  BY <1>1, LotFacts
<1>3. stage[c] \in Users => ClearExpiry(c)
  BY <1>0 DEF Writes
<1>4. CASE expired[l] > 0
  <2>1. /\ lot[l] = "due" => \E t \in Calls : stage[t] = UserOf[l]
        /\ \A s \in Sweeping : stage[s] # UserOf[l] /\ l \in found[s][UserOf[l]] =>
              \E t \in Calls : t # s /\ <<t, UserOf[l]>> \in swept /\ {s, t} \in beside
    BY <1>2, <1>4 DEF SweepInv
  <2>2. ASSUME lot'[l] = "due" PROVE \E t \in Calls : stage'[t] = UserOf[l]
    <3>1. lot[l] = "due" /\ ~ (ClearExpiry(c) /\ stage[c] = UserOf[l])
      BY <2>2, LotMoves
    <3>2. PICK t \in Calls : stage[t] = UserOf[l]
      BY <2>1, <3>1
    <3>3. t # c
      BY <1>2, <1>3, <3>1, <3>2
    <3> QED
      BY <1>1, <3>2, <3>3
  <2>3. ASSUME NEW s \in Sweeping', stage'[s] # UserOf[l], l \in found'[s][UserOf[l]]
        PROVE  \E t \in Calls : t # s /\ <<t, UserOf[l]>> \in swept' /\ {s, t} \in beside'
    <3>1. CASE s \in Sweeping
      <4>1. l \in found[s][UserOf[l]] /\ ~ (s = c /\ ClearExpiry(c) /\ stage[c] = UserOf[l])
        BY <1>2, <2>3, <3>1, Swept
      <4>2. s \in Calls
        BY <3>1 DEF Sweeping
      <4>3. stage[s] # UserOf[l]
        BY <1>1, <1>2, <1>3, <2>3, <4>1, <4>2
      <4> QED
        BY <1>1, <2>1, <3>1, <4>1, <4>3
    <3>2. CASE s \notin Sweeping
      <4>1. s = c /\ FindStale(c) /\ found'[c][UserOf[l]] = Due(UserOf[l])
        BY <1>2, <3>2, Swept
      <4>2. lot[l] = "due"
        BY <2>3, <4>1 DEF Due
      <4>3. PICK t \in Calls : stage[t] = UserOf[l]
        BY <2>1, <4>2
      <4>4. t # c /\ t \in Sweeping
        BY <1>2, <4>1, <4>3, StagesApart DEF FindStale, Sweeping
      <4>5. <<t, UserOf[l]>> \in swept
        BY <1>2, <4>3 DEF LotInv
      <4>6. {c, t} \in beside'
        BY <4>1, <4>4 DEF FindStale, Beside
      <4> QED
        BY <1>1, <4>1, <4>4, <4>5, <4>6
    <3> QED
      BY <3>1, <3>2
  <2> QED
    BY <2>2, <2>3
<1>5. CASE ~ (expired[l] > 0)
  <2>1. expired'[l] > expired[l]
    BY <1>5, LotMoves
  <2>2. InsertExpire(c, UserOf[l])
    BY <2>1, LotMoves
  <2>3. stage'[c] = UserOf[l] /\ <<c, UserOf[l]>> \in swept' /\ stage[c] = "expire"
    BY <2>2 DEF InsertExpire, PointType
  <2>4. ASSUME NEW s \in Sweeping', stage'[s] # UserOf[l]
        PROVE  s # c /\ {s, c} \in beside'
    <3>1. s # c /\ s \in Calls
      BY <2>3, <2>4 DEF Sweeping
    <3>2. s \in Sweeping /\ c \in Sweeping
      BY <1>1, <2>3, <2>4, <3>1 DEF Sweeping
    <3> QED
      BY <1>1, <3>1, <3>2 DEF BesideInv
  <2> QED
    BY <2>3, <2>4
<1> QED
  BY <1>4, <1>5

\* An award that is cleared was taken, or has fallen due behind a sweep.
LEMMA LuckKept ==
    ASSUME PointType, BesideInv, LotInv, SweepInv, LuckInv, NEW c \in Calls, Acts(c)
    PROVE  LuckInv'
<1>0. Ways(c) /\ Writes(c) /\ PointType'
  BY Going, PointTypeKept
<1>1. /\ swept \subseteq swept' /\ beside \subseteq beside' /\ cut \subseteq cut'
      /\ \A d \in Calls \ {c} : stage'[d] = stage[d]
  BY <1>0, Growing, Others
<1>2. lucky' = lucky
  BY <1>0 DEF Writes
<1>3. ASSUME NEW s \in Sweeping', NEW l \in Lots, lot'[l] = "due"
      PROVE  l \in lucky' \/ l \in found'[s][UserOf[l]]
  <2>1. lot[l] = "due" /\ ~ (ClearExpiry(c) /\ stage[c] = UserOf[l]) /\ UserOf[l] \in Users
    BY <1>3, LotMoves, LotFacts
  <2>2. CASE s \in Sweeping
    <3>1. l \in lucky \/ l \in found[s][UserOf[l]]
      BY <2>1, <2>2 DEF LuckInv
    <3> QED
      BY <1>2, <2>1, <2>2, <3>1, Swept
  <2>3. CASE s \notin Sweeping
    <3>1. found'[s][UserOf[l]] = Due(UserOf[l])
      BY <2>1, <2>3, Swept
    <3> QED
      BY <2>1, <3>1 DEF Due, Of
  <2> QED
    BY <2>2, <2>3
<1>4. ASSUME NEW l \in Lots, expired'[l] > 1
      PROVE  cut' # {} \/ \E s, t \in Calls :
                {<<s, UserOf[l]>>, <<t, UserOf[l]>>} \subseteq swept' /\ s # t /\ {s, t} \in beside'
  <2>1. CASE expired[l] > 1
    <3>1. cut # {} \/ \E s, t \in Calls :
             {<<s, UserOf[l]>>, <<t, UserOf[l]>>} \subseteq swept /\ s # t /\ {s, t} \in beside
      BY <2>1 DEF LuckInv, AwardsExpireOnce
    <3> QED
      BY <1>1, <3>1
  <2>2. CASE ~ (expired[l] > 1)
    <3>1. expired'[l] > expired[l]
      BY <1>4, <2>2, LotMoves
    <3>2. InsertExpire(c, UserOf[l]) /\ l \in found[c][UserOf[l]] /\ expired[l] > 0
      BY <1>4, <3>1, LotMoves
    <3>3. c \in Sweeping /\ stage[c] # UserOf[l] /\ <<c, UserOf[l]>> \in swept'
      BY <3>2, LotFacts, StagesApart DEF InsertExpire, Sweeping
    <3>4. cut = {} => \E t \in Calls : t # c /\ <<t, UserOf[l]>> \in swept /\ {c, t} \in beside
      BY <3>2, <3>3 DEF SweepInv
    <3> QED
      BY <1>1, <3>3, <3>4
  <2> QED
    BY <2>1, <2>2
<1>5. ASSUME NEW l \in Lots, lot'[l] = "cleared" PROVE expired'[l] > 0 \/ l \in lucky'
  <2>1. expired[l] > 0 => expired'[l] > 0
    BY LotMoves
  <2>2. CASE lot[l] = "cleared"
    BY <1>2, <2>1, <2>2 DEF LuckInv, AwardsExpireOnce
  <2>3. CASE lot[l] # "cleared"
    <3>1. ClearExpiry(c) /\ stage[c] = UserOf[l] /\ lot[l] = "due"
      BY <1>5, <2>3, LotMoves
    <3>2. c \in Sweeping /\ stage[c] \in Users
      BY <3>1 DEF ClearExpiry, Sweeping
    <3>3. l \in lucky \/ l \in found[c][stage[c]]
      BY <3>1, <3>2 DEF LuckInv
    <3>4. l \in found[c][stage[c]] => expired[l] > 0
      BY <3>2 DEF LotInv
    <3> QED
      BY <1>2, <2>1, <3>3, <3>4
  <2> QED
    BY <2>2, <2>3
<1> QED
  BY <1>3, <1>4, <1>5 DEF LuckInv, AwardsExpireOnce

LEMMA Payers ==
    ASSUME NEW c \in Calls
    PROVE  PayersOf[c] \in Seq(Users) /\ Len(PayersOf[c]) \in Nat /\ Len(PayersOf[c]) > 0
<1>1. PayersOf[c] \in Seq(Users) /\ PayersOf[c] # <<>>
  BY CallsHaveBodies
<1> QED
  BY <1>1, EmptySeq, LenProperties

LEMMA AskKept ==
    ASSUME PointType, AskInv, NEW c \in Calls, Acts(c)
    PROVE  AskInv'
<1>0. Ways(c) /\ Writes(c)
  BY Going
<1>1. \A d \in Calls \ {c} : stage'[d] = stage[d]
  BY <1>0, Others
<1>2. stage'[c] # "new"
  BY <1>0 DEF Ways
<1>3. asked[c] \in Seq(RequestStates) /\ Len(asked[c]) \in Nat /\ Len(asked[c]) <= Len(PayersOf[c])
  BY DEF AskInv
<1>4. CASE AskNext(c) /\ asked' # asked
  <2>1. /\ stage[c] = "ask" /\ asked' = [asked EXCEPT ![c] = Append(asked[c], "pending")]
        /\ stage'[c] = IF Len(asked[c]) + 1 = Len(PayersOf[c]) THEN "done" ELSE "ask"
    BY <1>4 DEF AskNext, Goto, PointType
  <2>2. Append(asked[c], "pending") \in Seq(RequestStates) /\ Len(Append(asked[c], "pending")) = Len(asked[c]) + 1
    BY <1>3, AppendProperties DEF RequestStates
  <2>3. asked'[c] = Append(asked[c], "pending") /\ \A d \in Calls \ {c} : asked'[d] = asked[d]
    BY <2>1 DEF AskInv
  <2>4. asked' \in [Calls -> Seq(RequestStates)]
    BY <2>1, <2>2 DEF AskInv
  <2>5. Len(asked[c]) < Len(PayersOf[c])
    BY <2>1 DEF AskInv
  <2>6. Len(asked'[c]) <= Len(PayersOf[c]) /\ (stage'[c] = "ask" => Len(asked'[c]) < Len(PayersOf[c]))
    BY <1>3, <2>1, <2>2, <2>3, <2>5, Payers
  <2> QED
    BY <1>1, <1>2, <2>3, <2>4, <2>6 DEF AskInv
<1>5. CASE asked' = asked
  <2>1. stage'[c] = "ask" => stage[c] = "ask" \/ InsertSplit(c)
    BY <1>0 DEF Ways, AskNext
  <2>2. InsertSplit(c) => Len(asked[c]) < Len(PayersOf[c])
    <3>1. InsertSplit(c) => asked[c] = <<>>
      BY DEF InsertSplit, AskInv
    <3> QED
      BY <3>1, Payers
  <2> QED
    BY <1>1, <1>2, <1>5, <2>1, <2>2 DEF AskInv
<1> QED
  BY <1>0, <1>4, <1>5 DEF Writes

\* Awards, and who took them, are as they were if nobody has touched them.
LEMMA AwardsUntouched ==
    ASSUME UNCHANGED <<lot, expired, lucky, swept, undercut, stage, found, beside, cut, granted>>
    PROVE  (LotInv => LotInv') /\ (SweepInv => SweepInv') /\ (LuckInv => LuckInv')
<1>1. LotInv => LotInv'
  BY DEF LotInv
<1>2. Sweeping' = Sweeping
  BY DEF Sweeping
<1>3. SweepInv => SweepInv'
  BY <1>2 DEF SweepInv
<1>4. LuckInv => LuckInv'
  BY <1>2 DEF LuckInv, AwardsExpireOnce
<1> QED
  BY <1>1, <1>3, <1>4

\* Apart from what calls do, a request is decided, the key is lost, an award falls due.
LEMMA Deciding ==
    ASSUME LoyaltyInv, NEW c \in Calls, NEW i \in DOMAIN asked[c], Decide(c, i)
    PROVE  LoyaltyInv'
<1>1. UNCHANGED <<quota, kept, points, lot, expired, lucky, swept, undercut, stage, found, beside, cut, redeemed, granted>>
  BY DEF Decide, offerVars, pointVars, callVars
<1>2. PICK status \in RequestStates : asked' = [asked EXCEPT ![c][i] = status]
  BY DEF Decide, RequestStates
<1>3. asked \in [Calls -> Seq(RequestStates)]
  BY DEF LoyaltyInv, AskInv
<1>4. asked[c] \in Seq(RequestStates) /\ i \in 1..Len(asked[c])
  BY <1>3
<1>5. [asked[c] EXCEPT ![i] = status] \in Seq(RequestStates) /\ Len([asked[c] EXCEPT ![i] = status]) = Len(asked[c])
  BY <1>4, ExceptSeq
<1>6. asked' \in [Calls -> Seq(RequestStates)] /\ \A d \in Calls : Len(asked'[d]) = Len(asked[d])
  BY <1>2, <1>3, <1>5
<1>7. \A d \in Calls : asked[d] = <<>> => asked'[d] = <<>>
  <2>1. ASSUME NEW d \in Calls, asked[d] = <<>> PROVE asked'[d] = <<>>
    <3>1. d # c
      BY <1>4, <2>1
    <3> QED
      BY <1>2, <1>3, <2>1, <3>1
  <2> QED
    BY <2>1
<1>8. AskInv'
  BY <1>1, <1>6, <1>7 DEF LoyaltyInv, AskInv
<1>9. PointType' /\ BesideInv' /\ PointsInv'
  BY <1>1 DEF LoyaltyInv, PointType, BesideInv, PointsInv, OverdrawnHasCause, Excused, TakenTwice, Entered, Redeeming, Applying, Sweeping, Of
<1>10. OfferInv' /\ QuotaInv'
  BY <1>1 DEF LoyaltyInv, OfferInv, QuotaInv, SamePayment, Applying, Takers, Of
<1>11. LotInv' /\ SweepInv' /\ LuckInv'
  BY <1>1, AwardsUntouched DEF LoyaltyInv
<1> QED
  BY <1>8, <1>9, <1>10, <1>11 DEF LoyaltyInv

LEMMA LosingTheKey ==
    ASSUME LoyaltyInv, LoseKey
    PROVE  LoyaltyInv'
<1>1. /\ UNCHANGED <<points, lot, expired, lucky, swept, undercut, stage, found, beside, cut, redeemed, granted, asked>>
      /\ quota' = Absent /\ kept' = FALSE
  BY DEF LoseKey, pointVars, callVars
<1>2. PointType' /\ AskInv' /\ BesideInv' /\ PointsInv'
  BY <1>1 DEF LoyaltyInv, PointType, AskInv, BesideInv, PointsInv, OverdrawnHasCause, Excused, TakenTwice, Entered, Redeeming, Applying,
     Sweeping, Of
<1>3. OfferInv' /\ QuotaInv'
  BY <1>1 DEF LoyaltyInv, OfferInv, QuotaInv, SamePayment, Applying, Takers, Of
<1>4. LotInv' /\ SweepInv' /\ LuckInv'
  BY <1>1, AwardsUntouched DEF LoyaltyInv
<1> QED
  BY <1>2, <1>3, <1>4 DEF LoyaltyInv

LEMMA FallingDue ==
    ASSUME LoyaltyInv, NEW l \in Lots, FallDue(l)
    PROVE  LoyaltyInv'
<1>1. /\ UNCHANGED <<quota, kept, points, expired, swept, undercut, stage, found, beside, cut, redeemed, granted, asked>>
      /\ lot[l] = "fresh" /\ lot' = [lot EXCEPT ![l] = "due"]
      /\ lucky' = IF Sweeping # {} THEN lucky \cup {l} ELSE lucky
  BY DEF FallDue, offerVars, callVars
<1>2. PointType
  BY DEF LoyaltyInv
<1>3. lot'[l] = "due" /\ \A m \in Lots \ {l} : lot'[m] = lot[m]
  BY <1>1, <1>2 DEF PointType
<1>4. PointType'
  BY <1>1, <1>2 DEF PointType, LotStates
<1>5. AskInv' /\ BesideInv' /\ PointsInv'
  <2>1. Entered' = Entered
    <3>1. \A m \in Lots : lot'[m] = "none" <=> lot[m] = "none"
      BY <1>1, <1>3
    <3> QED
      BY <1>1, <3>1 DEF Entered
  <2>2. PointsInv'
    BY <1>1, <2>1 DEF LoyaltyInv, PointsInv, OverdrawnHasCause, Excused, TakenTwice, Redeeming, Of
  <2> QED
    BY <1>1, <2>2 DEF LoyaltyInv, AskInv, BesideInv, Redeeming, Applying, Sweeping, Of
<1>6. OfferInv' /\ QuotaInv'
  BY <1>1 DEF LoyaltyInv, OfferInv, QuotaInv, SamePayment, Applying, Takers, Of
<1>7. LotInv'
  <2>1. LotInv
    BY DEF LoyaltyInv
  <2>2. \A c \in Calls \ granted' : lot'[c] = "none"
    <3>1. \A c \in Calls \ granted : c \in Lots /\ lot[c] = "none"
      BY <2>1, LotFacts DEF LotInv
    <3> QED
      BY <1>1, <1>3, <3>1
  <2>3. \A m \in Lots : lot[m] \in {"due", "cleared"} => lot'[m] \in {"due", "cleared"}
    BY <1>3
  <2>4. \A m \in Lots : expired[m] > 0 => lot'[m] \in {"due", "cleared"} /\ \E t \in Calls : <<t, UserOf[m]>> \in swept
    BY <2>1, <2>3 DEF LotInv
  <2>5. \A s \in Calls, u \in Users : \A m \in found[s][u] : UserOf[m] = u /\ lot'[m] \in {"due", "cleared"}
    <3>1. ASSUME NEW s \in Calls, NEW u \in Users, NEW m \in found[s][u]
          PROVE  UserOf[m] = u /\ lot'[m] \in {"due", "cleared"}
      <4>1. m \in Lots
        BY <1>2 DEF PointType
      <4>2. UserOf[m] = u /\ lot[m] \in {"due", "cleared"}
        BY <2>1 DEF LotInv
      <4> QED
        BY <2>3, <4>1, <4>2
    <3> QED
      BY <3>1
  <2>6. \A s \in Calls : stage[s] \in Users => <<s, stage[s]>> \in swept /\ \A m \in found[s][stage[s]] : expired[m] > 0
    BY <2>1 DEF LotInv
  <2> QED
    BY <1>1, <2>2, <2>4, <2>5, <2>6 DEF LotInv
<1>8. ~ (expired[l] > 0)
  BY <1>1 DEF LoyaltyInv, LotInv
<1>9. SweepInv'
  <2>1. ASSUME cut = {}, NEW m \in Lots, expired[m] > 0
        PROVE  /\ lot'[m] = "due" => \E t \in Calls : stage[t] = UserOf[m]
               /\ \A s \in Sweeping : stage[s] # UserOf[m] /\ m \in found[s][UserOf[m]] =>
                     \E t \in Calls : t # s /\ <<t, UserOf[m]>> \in swept /\ {s, t} \in beside
    <3>1. lot'[m] = lot[m]
      BY <1>3, <1>8, <2>1
    <3> QED
      BY <2>1, <3>1 DEF LoyaltyInv, SweepInv
  <2> QED
    BY <1>1, <2>1 DEF SweepInv, Sweeping
<1>10. LuckInv'
  <2>1. ASSUME NEW s \in Sweeping, NEW m \in Lots, lot'[m] = "due" PROVE m \in lucky' \/ m \in found[s][UserOf[m]]
    <3>1. CASE m = l
      BY <1>1, <3>1
    <3>2. CASE m # l
      <4>1. m \in lucky \/ m \in found[s][UserOf[m]]
        BY <1>3, <2>1, <3>2 DEF LoyaltyInv, LuckInv
      <4> QED
        BY <1>1, <4>1
    <3> QED
      BY <3>1, <3>2
  <2>2. AwardsExpireOnce'
    <3>1. lucky \subseteq lucky'
      BY <1>1
    <3>2. \A m \in Lots : lot'[m] = "cleared" => lot[m] = "cleared"
      BY <1>3
    <3>3. AwardsExpireOnce
      BY DEF LoyaltyInv, LuckInv
    <3> QED
      BY <1>1, <3>1, <3>2, <3>3 DEF AwardsExpireOnce
  <2> QED
    BY <1>1, <2>1, <2>2 DEF LuckInv, Sweeping
<1> QED
  BY <1>4, <1>5, <1>6, <1>7, <1>9, <1>10 DEF LoyaltyInv

LEMMA PointsStart ==
    LoyaltyInit => LoyaltyInv
<1> SUFFICES ASSUME LoyaltyInit PROVE LoyaltyInv
  OBVIOUS
<1>1. stage = [c \in Calls |-> "new"] /\ \A c \in Calls : stage[c] = "new" /\ stage[c] \notin Users
  BY StagesApart DEF LoyaltyInit
<1>2. Redeeming = {} /\ Applying = {} /\ Sweeping = {}
  BY <1>1 DEF Redeeming, Applying, Sweeping
<1>3. ASSUME NEW u \in Users PROVE SumFunctionOnSet(PointsOf, Of(u, Earned)) \in Nat
  <2>1. Of(u, Earned) \in SUBSET Lots
    BY DEF Of, Lots
  <2> QED
    BY <2>1, LotFacts
<1>4. points \in [Users -> Int] /\ \A u \in Users : points[u] >= 0
  BY <1>3 DEF LoyaltyInit
<1>5. PointType
  <2>1. lot \in [Lots -> LotStates] /\ expired \in [Lots -> Nat]
    BY DEF LoyaltyInit, LotStates
  <2>2. found \in [Calls -> [Users -> SUBSET Lots]]
    BY DEF LoyaltyInit
  <2>3. quota \in Nat \cup {Absent} /\ kept \in BOOLEAN
    BY LotFacts DEF LoyaltyInit
  <2>4. stage \in [Calls -> Stages \cup Users]
    BY <1>1, StagesApart
  <2> QED
    BY <1>4, <2>1, <2>2, <2>3, <2>4 DEF PointType, LoyaltyInit
<1>6. AskInv
  <2>1. asked = [c \in Calls |-> <<>>]
    BY DEF LoyaltyInit
  <2>2. <<>> \in Seq(RequestStates) /\ Len(<<>>) = 0
    OBVIOUS
  <2>3. asked \in [Calls -> Seq(RequestStates)]
    BY <2>1, <2>2
  <2>4. \A c \in Calls : asked[c] = <<>> /\ Len(asked[c]) <= Len(PayersOf[c])
    BY <2>1, <2>2, Payers
  <2> QED
    BY <1>1, <2>3, <2>4 DEF AskInv
<1>7. BesideInv /\ PointsInv
  <2>1. BesideInv
    BY <1>2 DEF BesideInv, LoyaltyInit
  <2>2. ASSUME NEW u \in Users
        PROVE  /\ points[u] = SumFunctionOnSet(Entered, Of(u, Lots))
               /\ points[u] + SumFunctionOnSet(PointsOf, Excused(u)) + SumFunctionOnSet(TakenTwice, Of(u, Lots)) >= 0
    <3>1. /\ IsFiniteSet(Of(u, Lots)) /\ Of(u, Lots) \subseteq Lots
          /\ Of(u, Earned) \subseteq Of(u, Lots) /\ Of(u, Lots) \ Of(u, Earned) \subseteq Calls
      BY LotFacts, FS_Subset DEF Of, Lots
    <3>2. ASSUME NEW l \in Of(u, Lots)
          PROVE  /\ Entered[l] = (IF l \in Earned THEN PointsOf[l] ELSE 0) /\ Entered[l] \in Nat
                 /\ TakenTwice[l] \in Nat
      <4>1. PICK p \in Nat : p = PointsOf[l] /\ 0 * p = 0
        BY <3>1, LotFacts, Times
      <4>2. l \in Lots /\ expired[l] = 0 /\ l \notin redeemed /\ lot[l] = IF l \in Earned THEN "fresh" ELSE "none"
        BY <3>1 DEF LoyaltyInit
      <4> QED
        BY <4>1, <4>2 DEF Entered, TakenTwice
    <3>3. \A l \in Of(u, Lots) : Entered[l] = (IF l \in Of(u, Earned) THEN PointsOf[l] ELSE 0) /\ Entered[l] \in Nat
      BY <3>2 DEF Of
    <3>4. SumFunctionOnSet(Entered, Of(u, Lots)) = SumFunctionOnSet(Entered, Of(u, Earned))
      <4>1. /\ \A l \in Of(u, Earned) : Entered[l] \in Int
            /\ \A l \in Of(u, Lots) \ Of(u, Earned) : Entered[l] = 0
        BY <3>1, <3>3
      <4> QED
        BY <3>1, <4>1, SumMore
    <3>5. SumFunctionOnSet(PointsOf, Of(u, Earned)) = SumFunctionOnSet(Entered, Of(u, Earned))
      <4>1. IsFiniteSet(Of(u, Earned)) /\ \A l \in Of(u, Earned) : PointsOf[l] \in Int /\ Entered[l] = PointsOf[l]
        BY <3>1, <3>3, LotFacts, FS_Subset
      <4> QED
        BY <4>1, SumSame
    <3>6. points[u] = SumFunctionOnSet(PointsOf, Of(u, Earned))
      BY DEF LoyaltyInit
    <3>7. Excused(u) = {} /\ SumFunctionOnSet(PointsOf, {}) = 0
      BY SumEmpty DEF Excused, Of, LoyaltyInit
    <3>8. SumFunctionOnSet(TakenTwice, Of(u, Lots)) \in Nat
      BY <3>1, <3>2, SumNat
    <3> QED
      BY <1>3, <3>4, <3>5, <3>6, <3>7, <3>8
  <2> QED
    BY <1>2, <2>1, <2>2 DEF PointsInv, OverdrawnHasCause
<1>8. OfferInv
  <2>1. \A u \in Users : Of(u, granted) = {}
    BY DEF Of, LoyaltyInit
  <2>2. Cardinality({}) = 0
    BY FS_EmptySet
  <2>3. \A u \in Users : Cardinality(Of(u, granted)) <= PerUser
    BY <2>1, <2>2, LotFacts
  <2>4. \A c \in granted : FALSE
    BY DEF LoyaltyInit
  <2> QED
    BY <1>1, <1>2, <2>3, <2>4 DEF OfferInv
<1>9. QuotaInv
  <2>1. Takers = {}
    BY <1>1 DEF Takers, LoyaltyInit
  <2>2. Cardinality({}) = 0
    BY FS_EmptySet
  <2>3. kept => quota = Total
    BY DEF LoyaltyInit
  <2> QED
    BY <2>1, <2>2, <2>3, LotFacts DEF QuotaInv
<1>10. LotInv
  <2>1. \A c \in Calls : lot[c] = "none"
    BY LotsDiffer DEF LoyaltyInit, Lots
  <2>2. \A l \in Lots : expired[l] = 0
    BY DEF LoyaltyInit
  <2>3. \A s \in Calls, u \in Users : found[s][u] = {}
    BY DEF LoyaltyInit
  <2> QED
    BY <1>1, <2>1, <2>2, <2>3 DEF LotInv
<1>11. SweepInv /\ LuckInv
  <2>1. \A l \in Lots : expired[l] = 0 /\ lot[l] # "cleared"
    BY DEF LoyaltyInit
  <2> QED
    BY <1>2, <2>1 DEF SweepInv, LuckInv, AwardsExpireOnce
<1> QED
  BY <1>5, <1>6, <1>7, <1>8, <1>9, <1>10, <1>11 DEF LoyaltyInv

\* The invariant of Loyalty, for any calls of any users: what each of them has found out,
\* has taken and was beside (Redeem, Apply, ExpireStale and the requests for money).
THEOREM PointsInvariance == LoyaltySpec => []LoyaltyInv
<1>1. LoyaltyInv /\ [LoyaltyNext]_loyaltyVars => LoyaltyInv'
  <2> SUFFICES ASSUME LoyaltyInv, [LoyaltyNext]_loyaltyVars PROVE LoyaltyInv'
    OBVIOUS
  <2>1. ASSUME NEW c \in Calls, Acts(c) PROVE LoyaltyInv'
    <3>1. PointType /\ AskInv /\ BesideInv /\ PointsInv /\ OfferInv /\ QuotaInv /\ LotInv /\ SweepInv /\ LuckInv
      BY DEF LoyaltyInv
    <3>2. PointType' /\ AskInv' /\ BesideInv'
      BY <2>1, <3>1, PointTypeKept, AskKept, BesideKept
    <3>3. PointsInv' /\ OfferInv' /\ QuotaInv'
      BY <2>1, <3>1, EntriesAddUp, PointsKept, OfferKept, QuotaKept
    <3>4. LotInv' /\ SweepInv' /\ LuckInv'
      BY <2>1, <3>1, LotKept, SweepKept, LuckKept
    <3> QED
      BY <3>2, <3>3, <3>4 DEF LoyaltyInv
  <2>2. CASE UNCHANGED loyaltyVars
    <3>1. UNCHANGED <<quota, kept, points, lot, expired, lucky, swept, undercut, stage, found, beside, cut, redeemed, granted, asked>>
      BY <2>2 DEF loyaltyVars, offerVars, pointVars, callVars
    <3>2. PointType' /\ AskInv' /\ BesideInv' /\ PointsInv'
      BY <3>1 DEF LoyaltyInv, PointType, AskInv, BesideInv, PointsInv, OverdrawnHasCause, Excused, TakenTwice, Entered, Redeeming,
         Applying, Sweeping, Of
    <3>3. OfferInv' /\ QuotaInv'
      BY <3>1 DEF LoyaltyInv, OfferInv, QuotaInv, SamePayment, Applying, Takers, Of
    <3>4. LotInv' /\ SweepInv' /\ LuckInv'
      BY <3>1, AwardsUntouched DEF LoyaltyInv
    <3> QED
      BY <3>2, <3>3, <3>4 DEF LoyaltyInv
  <2> QED
    BY <2>1, <2>2, Deciding, LosingTheKey, FallingDue DEF LoyaltyNext, Acts
<1> QED
  BY <1>1, PointsStart, PTL DEF LoyaltySpec

\* What is read from the tables of points and requests is always of its type.
THEOREM PointTypes == LoyaltySpec => []LoyaltyTypeOK
<1>1. LoyaltyInv => LoyaltyTypeOK
  BY DEF LoyaltyInv, PointType, AskInv, LoyaltyTypeOK, LotStates
<1> QED
  BY <1>1, PointsInvariance, PTL

\* Points are spent once: whatever a user owes, he redeemed it in calls that overlapped
\* (Redeem reads the balance and then inserts) or that a sweep came after, or sweeps took
\* it twice (ExpireStale).
THEOREM PointsAreSpentOnce == LoyaltySpec => []OverdrawnHasCause
<1>1. LoyaltyInv => OverdrawnHasCause
  BY DEF LoyaltyInv, PointsInv
<1> QED
  BY <1>1, PointsInvariance, PTL

\* An award expires once and none goes free, unless sweeps overlapped, one was cut short
\* between its two statements, or the award fell due behind one (ExpireStale).
THEOREM AwardsAreTakenOnce == LoyaltySpec => []AwardsExpireOnce
<1>1. LoyaltyInv => AwardsExpireOnce
  BY DEF LoyaltyInv, LuckInv
<1> QED
  BY <1>1, PointsInvariance, PTL

\* However many apply: one grant for a payment, no more than PerUser for a user unless
\* calls overlapped, and no more than Total while the key is there (Apply).
THEOREM OffersAreKept == LoyaltySpec => []OfferHolds
<1>1. LoyaltyInv => OfferHolds
  <2> SUFFICES ASSUME LoyaltyInv PROVE OfferHolds
    OBVIOUS
  <2>1. granted \subseteq Calls
    BY DEF LoyaltyInv, PointType
  <2>2. \A c \in granted : SamePayment(c, granted) = {}
    BY DEF LoyaltyInv, OfferInv
  <2>3. ASSUME NEW u \in Users, Cardinality(Of(u, granted)) > PerUser
        PROVE  \E c, d \in Of(u, granted) : c # d /\ {c, d} \in beside
    <3>1. Of(u, granted) \subseteq Calls
      BY <2>1 DEF Of
    <3>2. Cardinality(Of(u, granted)) \in Nat
      BY <3>1, CallSets
    <3>3. ~ (Cardinality(Of(u, granted)) <= PerUser)
      BY <2>3, <3>2, LotFacts
    <3> QED
      BY <3>3 DEF LoyaltyInv, OfferInv
  <2>4. kept => Cardinality(granted) <= Total
    <3>1. granted \subseteq Takers /\ Takers \subseteq Calls
      BY <2>1 DEF Takers
    <3>2. Cardinality(granted) <= Cardinality(Takers) /\ Cardinality(granted) \in Nat /\ Cardinality(Takers) \in Nat
      BY <3>1, CallSets
    <3>3. kept => quota \in Nat /\ quota + Cardinality(Takers) <= Total
      BY DEF LoyaltyInv, QuotaInv
    <3> QED
      BY <3>2, <3>3, LotFacts
  <2> QED
    BY <2>2, <2>3, <2>4 DEF OfferHolds
<1> QED
  BY <1>1, PointsInvariance, PTL

----
(***************************************************************************)
(* Reconciliation: what a run writes adds up, because sums can be taken by *)
(* reference and lost or invented amounts are differences, and what it has *)
(* found stays open, because rows are only added and only resolved.        *)
(***************************************************************************)

\* The sum over the image of a function that takes no value twice.
LEMMA SumImage ==
    ASSUME NEW S, IsFiniteSet(S), NEW m, \A x, y \in S : m[x] = m[y] => x = y,
           NEW f, NEW g, \A x \in S : g[x] \in Int /\ f[m[x]] = g[x]
    PROVE  SumFunctionOnSet(f, {m[x] : x \in S}) = SumFunctionOnSet(g, S)
<1> DEFINE Image(s) == {m[x] : x \in s}
           Bad == {s \in SUBSET S : IsFiniteSet(Image(s)) => SumFunctionOnSet(f, Image(s)) # SumFunctionOnSet(g, s)}
<1> SUFFICES ASSUME Bad # {} PROVE FALSE
  OBVIOUS
<1>1. PICK s \in Bad : \A t \in Bad : t \subseteq s => t = s
  <2>1. Bad \subseteq SUBSET S
    OBVIOUS
  <2> HIDE DEF Bad
  <2> QED
    BY <2>1, Least
<1>2. s \subseteq S /\ IsFiniteSet(s) /\ s # {}
  <2>1. Image({}) = {}
    OBVIOUS
  <2>2. SumFunctionOnSet(f, {}) = SumFunctionOnSet(g, {}) /\ IsFiniteSet({})
    BY SumEmpty, FS_EmptySet
  <2>3. {} \notin Bad
    BY <2>1, <2>2
  <2> QED
    BY <2>3, FS_Subset
<1>3. PICK x : x \in s
  BY <1>2
<1> DEFINE r == s \ {x}
<1>4. IsFiniteSet(Image(r)) /\ SumFunctionOnSet(f, Image(r)) = SumFunctionOnSet(g, r)
  BY <1>1, <1>3
<1>5. Image(s) = Image(r) \cup {m[x]} /\ m[x] \notin Image(r) /\ \A y \in Image(s) : f[y] \in Int
  BY <1>2, <1>3
<1>6. SumFunctionOnSet(g, s) = g[x] + SumFunctionOnSet(g, r)
  <2> HIDE DEF Bad
  <2> QED
    BY <1>2, <1>3, SumWithout
<1>7. IsFiniteSet(Image(s)) /\ SumFunctionOnSet(f, Image(s)) = SumFunctionOnSet(f, Image(r)) + f[m[x]]
  <2> HIDE DEF Image, Bad, r
  <2>1. IsFiniteSet(Image(s))
    BY <1>4, <1>5, FS_AddElement
  <2> DEFINE image == Image(s)
             value == m[x]
  <2>2. value \in image /\ image \ {value} = Image(r)
    BY <1>5
  <2>3. IsFiniteSet(image) /\ \A y \in image : f[y] \in Int
    BY <1>5, <2>1
  <2> HIDE DEF image, value
  <2>4. SumFunctionOnSet(f, image) = f[value] + SumFunctionOnSet(f, image \ {value})
    BY <2>2, <2>3, SumWithout
  <2>5. SumFunctionOnSet(f, image \ {value}) \in Int /\ f[value] \in Int
    <3>1. IsFiniteSet(image \ {value}) /\ \A y \in image \ {value} : f[y] \in Int
      BY <2>3, FS_Subset
    <3> QED
      BY <2>2, <2>3, <3>1, SumType
  <2>6. SumFunctionOnSet(f, image) = SumFunctionOnSet(f, image \ {value}) + f[value]
    BY <2>4, <2>5
  <2> QED
    BY <2>1, <2>2, <2>6 DEF image, value
<1>8. g[x] \in Int /\ f[m[x]] = g[x] /\ SumFunctionOnSet(g, r) \in Int
  <2>1. IsFiniteSet(r) /\ r \subseteq s
    BY <1>2, FS_Subset
  <2> HIDE DEF r, Bad
  <2> QED
    BY <1>2, <1>3, <2>1, SumType
<1>9. IsFiniteSet(Image(s)) /\ SumFunctionOnSet(f, Image(s)) = SumFunctionOnSet(g, s)
  <2> HIDE DEF Image, Bad, r
  <2> QED
    BY <1>4, <1>6, <1>7, <1>8
<1> QED
  BY <1>9

Lines == Seq([ref : Refs, amount : Int])
Inputs == [scope : Scopes, internal : Statements, provider : Statements]

Amounts(lines) == [i \in DOMAIN lines |-> lines[i].amount]
LinesOf(lines, S) == {i \in DOMAIN lines : lines[i].ref \in S}

LEMMA LinesAreLines ==
    ASSUME NEW lines \in Lines
    PROVE  /\ IsFiniteSet(DOMAIN lines)
           /\ \A S : IsFiniteSet(LinesOf(lines, S)) /\ LinesOf(lines, S) \subseteq DOMAIN lines
           /\ \A i \in DOMAIN lines : lines[i].ref \in Refs /\ Amounts(lines)[i] \in Int
           /\ \A S : SumOf(lines, S) = SumFunctionOnSet(Amounts(lines), LinesOf(lines, S))
           /\ \A S : SumOf(lines, S) \in Int
           /\ RefsOf(lines) \subseteq Refs /\ IsFiniteSet(RefsOf(lines))
<1>1. Len(lines) \in Nat /\ DOMAIN lines = 1..Len(lines) /\ \A i \in DOMAIN lines : lines[i] \in [ref : Refs, amount : Int]
  <2> DEFINE Records == [ref : Refs, amount : Int]
  <2>1. lines \in Seq(Records)
    BY DEF Lines
  <2> HIDE DEF Records
  <2>2. Len(lines) \in Nat /\ DOMAIN lines = 1..Len(lines) /\ \A i \in DOMAIN lines : lines[i] \in Records
    BY <2>1
  <2> QED
    BY <2>2 DEF Records
<1>2. IsFiniteSet(DOMAIN lines)
  <2>1. IsFiniteSet(1..Len(lines))
    BY <1>1, FS_Interval
  <2> QED
    BY <1>1, <2>1
<1>3. \A S : IsFiniteSet(LinesOf(lines, S)) /\ LinesOf(lines, S) \subseteq DOMAIN lines
  BY <1>2, FS_Subset DEF LinesOf
<1>4. \A i \in DOMAIN lines : lines[i].ref \in Refs /\ Amounts(lines)[i] \in Int
  BY <1>1 DEF Amounts
<1>5. \A S : SumOf(lines, S) = SumFunctionOnSet(Amounts(lines), LinesOf(lines, S))
  BY DEF SumOf, Amounts, LinesOf
<1>6. ASSUME NEW S PROVE SumOf(lines, S) \in Int
  <2>1. IsFiniteSet(LinesOf(lines, S)) /\ \A i \in LinesOf(lines, S) : Amounts(lines)[i] \in Int
    BY <1>3, <1>4
  <2> QED
    BY <1>5, <2>1, SumType
<1>7. RefsOf(lines) \subseteq Refs
  BY <1>4 DEF RefsOf
<1>8. IsFiniteSet(RefsOf(lines))
  <2> DEFINE m == [i \in DOMAIN lines |-> lines[i].ref]
  <2>1. m \in Surjection(DOMAIN lines, RefsOf(lines))
    BY DEF Surjection, RefsOf
  <2> HIDE DEF m
  <2> QED
    BY <1>2, <2>1, FS_Surjection
<1> QED
  BY <1>2, <1>3, <1>4, <1>5, <1>6, <1>7, <1>8

\* Lines may be added up reference by reference.
LEMMA Grouped ==
    ASSUME NEW lines \in Lines, NEW T, IsFiniteSet(T), NEW f, \A ref \in T : f[ref] = SumOf(lines, {ref})
    PROVE  SumFunctionOnSet(f, T) = SumOf(lines, T)
<1> DEFINE Bad == {t \in SUBSET T : SumFunctionOnSet(f, t) # SumOf(lines, t)}
<1> SUFFICES ASSUME Bad # {} PROVE FALSE
  OBVIOUS
<1>1. PICK t \in Bad : \A u \in Bad : u \subseteq t => u = t
  <2>1. Bad \subseteq SUBSET T
    OBVIOUS
  <2> HIDE DEF Bad
  <2> QED
    BY <2>1, Least
<1>2. t \subseteq T /\ IsFiniteSet(t) /\ t # {}
  <2>1. LinesOf(lines, {}) = {}
    BY DEF LinesOf
  <2>2. SumFunctionOnSet(f, {}) = SumOf(lines, {})
    BY <2>1, LinesAreLines, SumEmpty
  <2> QED
    BY <2>2, FS_Subset
<1>3. PICK ref : ref \in t
  BY <1>2
<1> DEFINE r == t \ {ref}
<1>4. SumFunctionOnSet(f, r) = SumOf(lines, r)
  BY <1>1, <1>3
<1>5. SumFunctionOnSet(f, t) = SumOf(lines, {ref}) + SumOf(lines, r)
  <2>1. f[ref] = SumOf(lines, {ref}) /\ \A x \in t : f[x] \in Int
    BY <1>2, <1>3, LinesAreLines
  <2>2. SumFunctionOnSet(f, t) = f[ref] + SumFunctionOnSet(f, r)
    <3> HIDE DEF Bad
    <3> QED
      BY <1>2, <1>3, <2>1, SumWithout
  <2> QED
    BY <1>4, <2>1, <2>2
<1>6. /\ LinesOf(lines, t) = LinesOf(lines, {ref}) \cup LinesOf(lines, r)
      /\ LinesOf(lines, {ref}) \cap LinesOf(lines, r) = {}
  BY <1>3 DEF LinesOf
<1>7. SumOf(lines, t) = SumOf(lines, {ref}) + SumOf(lines, r)
  <2> HIDE DEF r, Bad
  <2> DEFINE one == LinesOf(lines, {ref})
             rest == LinesOf(lines, r)
  <2>1. IsFiniteSet(one) /\ IsFiniteSet(rest) /\ one \cap rest = {} /\ \A i \in one \cup rest : Amounts(lines)[i] \in Int
    BY <1>6, LinesAreLines
  <2>2. SumOf(lines, {ref}) = SumFunctionOnSet(Amounts(lines), one) /\ SumOf(lines, r) = SumFunctionOnSet(Amounts(lines), rest)
    BY LinesAreLines
  <2>3. SumOf(lines, t) = SumFunctionOnSet(Amounts(lines), one \cup rest)
    BY <1>6, LinesAreLines
  <2> HIDE DEF one, rest
  <2>4. SumFunctionOnSet(Amounts(lines), one \cup rest)
          = SumFunctionOnSet(Amounts(lines), one) + SumFunctionOnSet(Amounts(lines), rest)
    BY <2>1, SumUnion
  <2> QED
    BY <2>2, <2>3, <2>4
<1> QED
  BY <1>5, <1>7

\* What one reference has on either side, and what they differ by.
LEMMA AmountFacts ==
    ASSUME NEW lines \in Lines, NEW ref
    PROVE  /\ ref \in RefsOf(lines) => Amount(lines, ref) = SumOf(lines, {ref}) /\ Amount(lines, ref) \in Int
           /\ ref \notin RefsOf(lines) => Amount(lines, ref) = Missing /\ SumOf(lines, {ref}) = 0
           /\ Amount(lines, ref) # Missing <=> ref \in RefsOf(lines)
<1>1. SumOf(lines, {ref}) \in Int
  BY LinesAreLines
<1>2. ASSUME ref \notin RefsOf(lines) PROVE SumOf(lines, {ref}) = 0
  <2>1. LinesOf(lines, {ref}) = {}
    BY <1>2 DEF LinesOf, RefsOf
  <2> QED
    BY <2>1, LinesAreLines, SumEmpty
<1> QED
  BY <1>1, <1>2, MissingIsNoAmount DEF Amount

LEMMA InputsAreLines ==
    ASSUME NEW lines \in Inputs
    PROVE  lines.internal \in Lines /\ lines.provider \in Lines /\ lines.scope \in Scopes
BY StatementsAreLines DEF Inputs, Lines

\* What a difference is by.
LEMMA DifferenceFacts ==
    ASSUME NEW lines \in Inputs, NEW ref \in AllRefs(lines)
    PROVE  /\ Difference(lines, ref).ref = ref
           /\ Difference(lines, ref).delta = SumOf(lines.internal, {ref}) - SumOf(lines.provider, {ref})
           /\ ref \in Matched(lines) => SumOf(lines.internal, {ref}) - SumOf(lines.provider, {ref}) = 0
<1>1. lines.internal \in Lines /\ lines.provider \in Lines
  BY InputsAreLines
<1>2. SumOf(lines.internal, {ref}) \in Int /\ SumOf(lines.provider, {ref}) \in Int
  BY <1>1, LinesAreLines
<1>3. ref \in RefsOf(lines.internal) \/ ref \in RefsOf(lines.provider)
  BY DEF AllRefs
<1>4. Difference(lines, ref).delta = DeltaOf(Amount(lines.internal, ref), Amount(lines.provider, ref))
      /\ Difference(lines, ref).ref = ref
  BY DEF Difference
<1>5. CASE ref \notin RefsOf(lines.provider)
  <2>1. Amount(lines.provider, ref) = Missing /\ SumOf(lines.provider, {ref}) = 0
    BY <1>1, <1>5, AmountFacts
  <2>2. Amount(lines.internal, ref) = SumOf(lines.internal, {ref}) /\ Amount(lines.internal, ref) # Missing
    BY <1>1, <1>3, <1>5, AmountFacts
  <2>3. ref \notin Matched(lines)
    BY <2>1, <2>2 DEF Matched
  <2>4. DeltaOf(Amount(lines.internal, ref), Amount(lines.provider, ref)) = SumOf(lines.internal, {ref})
    BY <2>1, <2>2 DEF DeltaOf
  <2> QED
    BY <1>2, <1>4, <2>1, <2>3, <2>4
<1>6. CASE ref \notin RefsOf(lines.internal)
  <2>1. Amount(lines.internal, ref) = Missing /\ SumOf(lines.internal, {ref}) = 0
    BY <1>1, <1>6, AmountFacts
  <2>2. Amount(lines.provider, ref) = SumOf(lines.provider, {ref}) /\ Amount(lines.provider, ref) # Missing
    BY <1>1, <1>3, <1>6, AmountFacts
  <2>3. ref \notin Matched(lines)
    BY <2>1, <2>2 DEF Matched
  <2>4. DeltaOf(Amount(lines.internal, ref), Amount(lines.provider, ref)) = -SumOf(lines.provider, {ref})
    BY <2>1, <2>2 DEF DeltaOf
  <2> QED
    BY <1>2, <1>4, <2>1, <2>3, <2>4
<1>7. CASE ref \in RefsOf(lines.internal) /\ ref \in RefsOf(lines.provider)
  <2>1. /\ Amount(lines.internal, ref) = SumOf(lines.internal, {ref}) /\ Amount(lines.internal, ref) # Missing
        /\ Amount(lines.provider, ref) = SumOf(lines.provider, {ref}) /\ Amount(lines.provider, ref) # Missing
    BY <1>1, <1>7, AmountFacts
  <2>2. DeltaOf(Amount(lines.internal, ref), Amount(lines.provider, ref))
          = SumOf(lines.internal, {ref}) - SumOf(lines.provider, {ref})
    BY <2>1 DEF DeltaOf
  <2>3. ref \in Matched(lines) => SumOf(lines.internal, {ref}) = SumOf(lines.provider, {ref})
    BY <2>1 DEF Matched
  <2> QED
    BY <1>2, <1>4, <2>2, <2>3
<1> QED
  BY <1>5, <1>6, <1>7

\* What every report says of the lines it was made of.
LEMMA ReportAddsUp ==
    ASSUME NEW lines \in Inputs
    PROVE  /\ SumFunctionOnSet([d \in Differences(lines) |-> d.delta], Differences(lines))
                = SumOf(lines.internal, Refs) - SumOf(lines.provider, Refs)
           /\ IsFiniteSet(Differences(lines))
           /\ Cardinality(AllRefs(lines)) = Cardinality(Matched(lines)) + Cardinality(Differences(lines))
           /\ Differences(lines) = {} <=>
                 /\ RefsOf(lines.internal) = RefsOf(lines.provider)
                 /\ \A ref \in Refs : SumOf(lines.internal, {ref}) = SumOf(lines.provider, {ref})
<1> DEFINE R == AllRefs(lines)
           D == R \ Matched(lines)
           m == [ref \in D |-> Difference(lines, ref)]
           ours == [ref \in R |-> SumOf(lines.internal, {ref})]
           theirs == [ref \in R |-> SumOf(lines.provider, {ref})]
           gap == [ref \in R |-> SumOf(lines.internal, {ref}) - SumOf(lines.provider, {ref})]
           deltas == [d \in Differences(lines) |-> d.delta]
<1>1. lines.internal \in Lines /\ lines.provider \in Lines
  BY InputsAreLines
<1>2. IsFiniteSet(R) /\ R \subseteq Refs
  BY <1>1, LinesAreLines, FS_Union DEF AllRefs
<1>3. IsFiniteSet(D) /\ D \subseteq R /\ Matched(lines) \subseteq R /\ IsFiniteSet(Matched(lines))
  BY <1>2, FS_Subset DEF Matched
<1>4. \A ref \in R : ours[ref] \in Int /\ theirs[ref] \in Int /\ gap[ref] = ours[ref] - theirs[ref] /\ gap[ref] \in Int
  BY <1>1, LinesAreLines
<1>5. Differences(lines) = {m[ref] : ref \in D}
  BY DEF Differences
<1>6. \A ref \in D : m[ref].ref = ref /\ m[ref] \in Differences(lines) /\ deltas[m[ref]] = gap[ref]
  BY <1>3, <1>5, DifferenceFacts
<1>7. \A x, y \in D : m[x] = m[y] => x = y
  BY <1>6
<1>8. SumFunctionOnSet(deltas, {m[ref] : ref \in D}) = SumFunctionOnSet(gap, D)
  <2>1. \A ref \in D : gap[ref] \in Int /\ deltas[m[ref]] = gap[ref]
    BY <1>3, <1>4, <1>6
  <2> HIDE DEF m, gap, deltas, D, R
  <2> QED
    BY <1>3, <1>7, <2>1, SumImage
<1>9. SumFunctionOnSet(gap, R) = SumFunctionOnSet(gap, D)
  <2>1. \A ref \in R \ D : gap[ref] = 0
    BY DifferenceFacts
  <2>2. \A ref \in D : gap[ref] \in Int
    BY <1>3, <1>4
  <2> HIDE DEF gap, D, R
  <2> QED
    BY <1>2, <1>3, <2>1, <2>2, SumMore
<1>10. SumFunctionOnSet(gap, R) = SumFunctionOnSet(ours, R) - SumFunctionOnSet(theirs, R)
  <2> HIDE DEF gap, ours, theirs, R
  <2> QED
    BY <1>2, <1>4, SumMinus
<1>11. SumFunctionOnSet(ours, R) = SumOf(lines.internal, R) /\ SumFunctionOnSet(theirs, R) = SumOf(lines.provider, R)
  <2>1. \A ref \in R : ours[ref] = SumOf(lines.internal, {ref}) /\ theirs[ref] = SumOf(lines.provider, {ref})
    OBVIOUS
  <2> HIDE DEF ours, theirs, R
  <2> QED
    BY <1>1, <1>2, <2>1, Grouped
<1>12. SumOf(lines.internal, R) = SumOf(lines.internal, Refs) /\ SumOf(lines.provider, R) = SumOf(lines.provider, Refs)
  <2>1. LinesOf(lines.internal, R) = LinesOf(lines.internal, Refs)
    BY <1>1, LinesAreLines DEF LinesOf, AllRefs, RefsOf
  <2>2. LinesOf(lines.provider, R) = LinesOf(lines.provider, Refs)
    BY <1>1, LinesAreLines DEF LinesOf, AllRefs, RefsOf
  <2> QED
    BY <1>1, <2>1, <2>2, LinesAreLines
<1>13. SumFunctionOnSet(deltas, Differences(lines)) = SumOf(lines.internal, Refs) - SumOf(lines.provider, Refs)
  <2>1. SumFunctionOnSet(deltas, Differences(lines)) = SumFunctionOnSet(gap, D)
    BY <1>5, <1>8
  <2> HIDE DEF deltas, gap, ours, theirs, R, D
  <2> QED
    BY <1>9, <1>10, <1>11, <1>12, <2>1
<1>14. IsFiniteSet(Differences(lines)) /\ Cardinality(Differences(lines)) = Cardinality(D)
  <2>1. m \in [D -> Differences(lines)]
    BY <1>6
  <2>2. m \in Injection(D, Differences(lines)) /\ m \in Surjection(D, Differences(lines))
    BY <1>5, <1>7, <2>1 DEF Injection, IsInjective, Surjection
  <2>3. ExistsBijection(D, Differences(lines))
    BY <2>2 DEF ExistsBijection, Bijection
  <2> HIDE DEF D, m
  <2> QED
    BY <1>3, <2>3, FS_Bijection
<1>15. Cardinality(R) = Cardinality(Matched(lines)) + Cardinality(Differences(lines))
  <2>1. Matched(lines) \cup D = R /\ Matched(lines) \cap D = {}
    BY <1>3
  <2>2. Cardinality(R) = Cardinality(Matched(lines)) + Cardinality(D) - Cardinality({})
    <3> HIDE DEF D, R
    <3> QED
      BY <1>3, <2>1, FS_Union
  <2>3. Cardinality(Matched(lines)) \in Nat /\ Cardinality(D) \in Nat /\ Cardinality({}) = 0
    <3> HIDE DEF D, R
    <3> QED
      BY <1>3, FS_CardinalityType, FS_EmptySet
  <2> HIDE DEF D, R
  <2> QED
    BY <1>14, <2>2, <2>3
<1>16. ASSUME Differences(lines) = {}
       PROVE  /\ RefsOf(lines.internal) = RefsOf(lines.provider)
              /\ \A ref \in Refs : SumOf(lines.internal, {ref}) = SumOf(lines.provider, {ref})
  <2>1. \A ref \in R : ref \in Matched(lines)
    BY <1>6, <1>16
  <2>2. \A ref \in R : Amount(lines.internal, ref) = Amount(lines.provider, ref)
    BY <2>1 DEF Matched
  <2>3. \A ref \in R : ref \in RefsOf(lines.internal) <=> ref \in RefsOf(lines.provider)
    BY <1>1, <2>2, AmountFacts
  <2>4. RefsOf(lines.internal) = RefsOf(lines.provider)
    BY <2>3 DEF AllRefs
  <2>5. ASSUME NEW ref \in Refs PROVE SumOf(lines.internal, {ref}) = SumOf(lines.provider, {ref})
    <3>1. CASE ref \in R
      BY <1>1, <2>2, <2>4, <3>1, AmountFacts DEF AllRefs
    <3>2. CASE ref \notin R
      BY <1>1, <3>2, AmountFacts DEF AllRefs
    <3> QED
      BY <3>1, <3>2
  <2> QED
    BY <2>4, <2>5
<1>17. ASSUME RefsOf(lines.internal) = RefsOf(lines.provider),
              \A ref \in Refs : SumOf(lines.internal, {ref}) = SumOf(lines.provider, {ref})
       PROVE  Differences(lines) = {}
  <2>1. \A ref \in R : ref \in RefsOf(lines.internal) /\ ref \in RefsOf(lines.provider) /\ ref \in Refs
    BY <1>2, <1>17 DEF AllRefs
  <2>2. \A ref \in R : Amount(lines.internal, ref) = Amount(lines.provider, ref)
    BY <1>1, <1>17, <2>1, AmountFacts
  <2>3. D = {}
    BY <2>2 DEF Matched
  <2> QED
    BY <1>5, <2>3
<1> QED
  BY <1>13, <1>14, <1>15, <1>16, <1>17

\* The row of a run, as it is written from the lines that were compared.
RunOf(lines) ==
    [compared |-> Cardinality(AllRefs(lines)), matched |-> Cardinality(Matched(lines)),
     discrepancies |-> Cardinality(Differences(lines)),
     delta |-> SumFunctionOnSet([d \in Differences(lines) |-> d.delta], Differences(lines)),
     status |-> IF Differences(lines) = {} THEN "clean" ELSE "differences"]

RowOf(s, d, resolution) == [scope |-> s, difference |-> d, resolution |-> resolution]

AllDifferences == UNION {Differences(lines) : lines \in Inputs}

RowSet == {RowOf(s, d, resolution) : s \in Scopes, d \in AllDifferences, resolution \in {"pending", "resolved"}}

\* Every row of a run is made of the lines it was made of last.
ReconcileInv ==
    /\ phase \in [Attempts -> {"new", "persist", "done"}]
    /\ \A c \in Attempts : phase[c] = "persist" => given[c] \in Inputs
    /\ DOMAIN given = Attempts /\ DOMAIN last = Scopes /\ DOMAIN runs = Scopes
    /\ rows \in Seq(RowSet)
    /\ resolved \in [Scopes -> SUBSET Refs]
    /\ \A s \in Scopes : runs[s] # Missing => last[s] \in Inputs /\ runs[s] = RunOf(last[s])
    /\ DifferencesStayOpen

\* Each element of a finite set is somewhere in the sequence it is turned into.
LEMMA SequenceOfAll ==
    ASSUME NEW S, IsFiniteSet(S)
    PROVE  /\ SetToSeq(S) \in Seq(S)
           /\ \A x \in S : \E i \in 1..Len(SetToSeq(S)) : SetToSeq(S)[i] = x
<1> DEFINE n == Cardinality(S)
           f == SetToSeq(S)
<1>1. n \in Nat /\ ExistsBijection(1..n, S)
  BY FS_CardinalityType
<1>2. \E g \in [1..n -> S] : IsInjective(g)
  BY <1>1 DEF ExistsBijection, Bijection, Injection
<1>3. f \in [1..n -> S] /\ IsInjective(f)
  <2> DEFINE P == {g \in [1..n -> S] : IsInjective(g)}
  <2>1. f = CHOOSE g \in [1..n -> S] : IsInjective(g)
    BY DEF SetToSeq
  <2> QED
    BY <1>2, <2>1
<1>4. IsFiniteSet(1..n) /\ Cardinality(1..n) = n
  BY <1>1, FS_Interval
<1>5. f \in Surjection(1..n, S)
  <2>1. f \in Injection(1..n, S)
    BY <1>3 DEF Injection
  <2> HIDE DEF f
  <2> QED
    BY <1>4, <2>1, FS_Injection
<1>6. f \in Seq(S) /\ Len(f) = n
  BY <1>1, <1>3
<1>7. \A x \in S : \E i \in 1..n : f[i] = x
  BY <1>5 DEF Surjection
<1> QED
  BY <1>6, <1>7

\* What Persist appends: a row for each difference.
LEMMA Persisting ==
    ASSUME ReconcileInv, NEW c \in Attempts, Persist(c)
    PROVE  /\ given[c] \in Inputs /\ given[c].scope \in Scopes
           /\ runs' = [runs EXCEPT ![given[c].scope] = RunOf(given[c])]
           /\ last' = [last EXCEPT ![given[c].scope] = given[c]]
           /\ resolved' = [resolved EXCEPT ![given[c].scope] = {}]
           /\ rows' \in Seq(RowSet)
           /\ Len(rows) <= Len(rows') /\ \A i \in 1..Len(rows) : rows'[i] = rows[i]
           /\ \A d \in Differences(given[c]) : \E i \in 1..Len(rows') :
                 rows'[i] = RowOf(given[c].scope, d, "pending")
<1> DEFINE lines == given[c]
           s == lines.scope
           new == SetToSeq(Differences(lines))
           more == [i \in DOMAIN new |-> RowOf(s, new[i], "pending")]
<1>1. lines \in Inputs /\ s \in Scopes
  BY InputsAreLines DEF ReconcileInv, Persist
<1>2. /\ runs' = [runs EXCEPT ![s] = RunOf(lines)] /\ last' = [last EXCEPT ![s] = lines]
      /\ resolved' = [resolved EXCEPT ![s] = {}] /\ rows' = rows \o more
  BY DEF Persist, Compare, RunOf, RowOf, NewRows
<1>3. new \in Seq(Differences(lines)) /\ \A d \in Differences(lines) : \E i \in 1..Len(new) : new[i] = d
  <2>1. IsFiniteSet(Differences(lines))
    BY <1>1, ReportAddsUp
  <2> QED
    BY <2>1, SequenceOfAll
<1> HIDE DEF new
<1>4. more \in Seq(RowSet) /\ Len(more) = Len(new) /\ Len(new) \in Nat
  <2>1. Len(new) \in Nat /\ DOMAIN new = 1..Len(new) /\ \A i \in DOMAIN new : new[i] \in Differences(lines)
    BY <1>3
  <2>2. \A d \in Differences(lines) : RowOf(s, d, "pending") \in RowSet
    BY <1>1 DEF RowSet, AllDifferences
  <2>3. \A i \in DOMAIN new : more[i] \in RowSet
    BY <2>1, <2>2
  <2> QED
    BY <2>1, <2>3
<1>5. rows \in Seq(RowSet) /\ Len(rows) \in Nat
  BY DEF ReconcileInv
<1>6. /\ rows \o more \in Seq(RowSet) /\ Len(rows \o more) = Len(rows) + Len(more)
      /\ \A i \in 1..Len(rows) : (rows \o more)[i] = rows[i]
      /\ \A i \in 1..Len(more) : (rows \o more)[Len(rows) + i] = more[i]
  <2> HIDE DEF more
  <2>1. rows \o more \in Seq(RowSet) /\ Len(rows \o more) = Len(rows) + Len(more)
    BY <1>4, <1>5, ConcatProperties
  <2>2. Len(more) \in Nat
    BY <1>4
  <2>3. \A i \in 1..(Len(rows) + Len(more)) :
           (rows \o more)[i] = IF i <= Len(rows) THEN rows[i] ELSE more[i - Len(rows)]
    BY <1>4, <1>5, ConcatProperties
  <2>4. ASSUME NEW i \in 1..Len(rows) PROVE (rows \o more)[i] = rows[i]
    BY <1>5, <2>2, <2>3
  <2>5. ASSUME NEW i \in 1..Len(more) PROVE (rows \o more)[Len(rows) + i] = more[i]
    <3>1. Len(rows) + i \in 1..(Len(rows) + Len(more)) /\ ~ (Len(rows) + i <= Len(rows)) /\ (Len(rows) + i) - Len(rows) = i
      BY <1>5, <2>2
    <3> QED
      BY <2>3, <3>1
  <2> QED
    BY <2>1, <2>4, <2>5
<1>7. ASSUME NEW d \in Differences(lines) PROVE \E i \in 1..Len(rows') : rows'[i] = RowOf(s, d, "pending")
  <2>1. PICK i \in 1..Len(new) : new[i] = d
    BY <1>3
  <2>2. more[i] = RowOf(s, d, "pending")
    <3>1. DOMAIN new = 1..Len(new)
      BY <1>3
    <3> QED
      BY <2>1, <3>1
  <2>3. Len(rows) + i \in 1..Len(rows') /\ rows'[Len(rows) + i] = more[i]
    <3> HIDE DEF more
    <3> QED
      BY <1>2, <1>4, <1>5, <1>6
  <2> QED
    BY <2>2, <2>3
<1>8. Len(rows) <= Len(rows') /\ \A i \in 1..Len(rows) : rows'[i] = rows[i]
  <2> HIDE DEF more
  <2> QED
    BY <1>2, <1>4, <1>5, <1>6
<1> QED
  BY <1>1, <1>2, <1>6, <1>7, <1>8

LEMMA Rows ==
    ASSUME NEW list \in Seq(RowSet)
    PROVE  /\ DOMAIN list = 1..Len(list) /\ Len(list) \in Nat
           /\ \A i \in 1..Len(list) : \E s \in Scopes, d \in AllDifferences, resolution \in {"pending", "resolved"} :
                 list[i] = RowOf(s, d, resolution)
<1>1. DOMAIN list = 1..Len(list) /\ Len(list) \in Nat /\ \A i \in 1..Len(list) : list[i] \in RowSet
  OBVIOUS
<1> QED
  BY <1>1 DEF RowSet

LEMMA PersistKeeps ==
    ASSUME ReconcileInv, NEW c \in Attempts, Persist(c)
    PROVE  ReconcileInv'
<1> DEFINE lines == given[c]
           s == lines.scope
<1>1. /\ lines \in Inputs /\ s \in Scopes
      /\ runs' = [runs EXCEPT ![s] = RunOf(lines)] /\ last' = [last EXCEPT ![s] = lines]
      /\ resolved' = [resolved EXCEPT ![s] = {}] /\ rows' \in Seq(RowSet)
      /\ Len(rows) <= Len(rows') /\ \A i \in 1..Len(rows) : rows'[i] = rows[i]
      /\ \A d \in Differences(lines) : \E i \in 1..Len(rows') : rows'[i] = RowOf(s, d, "pending")
  BY Persisting
<1>2. rows \in Seq(RowSet) /\ DOMAIN last = Scopes /\ DOMAIN runs = Scopes /\ resolved \in [Scopes -> SUBSET Refs]
  BY DEF ReconcileInv
<1>3. DOMAIN rows = 1..Len(rows) /\ DOMAIN rows' = 1..Len(rows') /\ Len(rows) \in Nat /\ Len(rows') \in Nat
  BY <1>1, <1>2, Rows
<1>4. /\ runs'[s] = RunOf(lines) /\ last'[s] = lines /\ resolved'[s] = {}
      /\ \A r \in Scopes \ {s} : runs'[r] = runs[r] /\ last'[r] = last[r] /\ resolved'[r] = resolved[r]
  BY <1>1, <1>2
<1>5. /\ phase' \in [Attempts -> {"new", "persist", "done"}] /\ given' = given /\ DOMAIN given = Attempts
      /\ \A b \in Attempts : phase'[b] = "persist" => given[b] \in Inputs
  BY DEF ReconcileInv, Persist
<1>6. DOMAIN last' = Scopes /\ DOMAIN runs' = Scopes /\ resolved' \in [Scopes -> SUBSET Refs]
  BY <1>1, <1>2
<1>7. \A r \in Scopes : runs'[r] # Missing => last'[r] \in Inputs /\ runs'[r] = RunOf(last'[r])
  <2>1. \A r \in Scopes : runs[r] # Missing => last[r] \in Inputs /\ runs[r] = RunOf(last[r])
    BY DEF ReconcileInv
  <2> QED
    BY <1>1, <1>4, <2>1
<1>8. ASSUME NEW r \in Scopes, runs'[r] # Missing, NEW d \in Differences(last'[r])
      PROVE  d.ref \in resolved'[r] \/ \E i \in OpenRows(d.ref)' : rows'[i].scope = r /\ rows'[i].difference = d
  <2>1. CASE r = s
    <3>1. PICK i \in 1..Len(rows') : rows'[i] = RowOf(s, d, "pending")
      BY <1>1, <1>4, <1>8, <2>1
    <3>2. rows'[i].scope = s /\ rows'[i].difference = d /\ rows'[i].resolution = "pending"
      BY <3>1 DEF RowOf
    <3>3. i \in OpenRows(d.ref)'
      BY <1>3, <3>2 DEF OpenRows
    <3> QED
      BY <2>1, <3>2, <3>3
  <2>2. CASE r # s
    <3>1. runs[r] # Missing /\ d \in Differences(last[r])
      BY <1>4, <1>8, <2>2
    <3>2. d.ref \in resolved[r] \/ \E i \in OpenRows(d.ref) : rows[i].scope = r /\ rows[i].difference = d
      BY <3>1 DEF ReconcileInv, DifferencesStayOpen
    <3>3. OpenRows(d.ref) \subseteq OpenRows(d.ref)' /\ \A i \in OpenRows(d.ref) : rows'[i] = rows[i]
      BY <1>1, <1>3 DEF OpenRows
    <3> QED
      BY <1>4, <2>2, <3>2, <3>3
  <2> QED
    BY <2>1, <2>2
<1>9. DifferencesStayOpen'
  BY <1>8 DEF DifferencesStayOpen
<1> QED
  BY <1>1, <1>5, <1>6, <1>7, <1>9 DEF ReconcileInv

LEMMA ResolveKeeps ==
    ASSUME ReconcileInv, NEW ref \in Refs, Resolve(ref)
    PROVE  ReconcileInv'
<1>1. /\ rows' = [i \in DOMAIN rows |->
                    IF i \in OpenRows(ref) THEN [rows[i] EXCEPT !.resolution = "resolved"] ELSE rows[i]]
      /\ resolved' = [s \in Scopes |->
                        IF \E i \in OpenRows(ref) : rows[i].scope = s THEN resolved[s] \cup {ref} ELSE resolved[s]]
      /\ UNCHANGED <<runs, phase, given, last>>
  BY DEF Resolve
<1>2. rows \in Seq(RowSet) /\ resolved \in [Scopes -> SUBSET Refs]
  BY DEF ReconcileInv
<1>3. DOMAIN rows = 1..Len(rows) /\ Len(rows) \in Nat
  BY <1>2, Rows
<1>4. \A i \in 1..Len(rows) : [rows[i] EXCEPT !.resolution = "resolved"] \in RowSet /\ rows[i] \in RowSet
  <2>1. ASSUME NEW i \in 1..Len(rows) PROVE [rows[i] EXCEPT !.resolution = "resolved"] \in RowSet
    <3>1. PICK s \in Scopes, d \in AllDifferences, resolution \in {"pending", "resolved"} : rows[i] = RowOf(s, d, resolution)
      BY <1>2, Rows
    <3>2. [rows[i] EXCEPT !.resolution = "resolved"] = RowOf(s, d, "resolved")
      BY <3>1 DEF RowOf
    <3> QED
      BY <3>2 DEF RowSet
  <2>2. \A i \in 1..Len(rows) : rows[i] \in RowSet
    BY <1>2
  <2> QED
    BY <2>1, <2>2
<1>5. rows' \in Seq(RowSet) /\ DOMAIN rows' = DOMAIN rows
  <2>1. rows' \in [1..Len(rows) -> RowSet]
    BY <1>1, <1>3, <1>4
  <2> QED
    BY <1>3, <2>1
<1>6. resolved' \in [Scopes -> SUBSET Refs] /\ \A s \in Scopes : resolved[s] \subseteq resolved'[s]
  BY <1>1, <1>2
<1>7. ASSUME NEW s \in Scopes, runs[s] # Missing, NEW d \in Differences(last[s])
      PROVE  d.ref \in resolved'[s] \/ \E i \in OpenRows(d.ref)' : rows'[i].scope = s /\ rows'[i].difference = d
  <2>1. d.ref \in resolved[s] \/ \E i \in OpenRows(d.ref) : rows[i].scope = s /\ rows[i].difference = d
    BY <1>7 DEF ReconcileInv, DifferencesStayOpen
  <2>2. CASE d.ref \in resolved[s]
    BY <1>6, <2>2
  <2>3. ASSUME NEW i \in OpenRows(d.ref), rows[i].scope = s, rows[i].difference = d
        PROVE  d.ref \in resolved'[s] \/ \E j \in OpenRows(d.ref)' : rows'[j].scope = s /\ rows'[j].difference = d
    <3>1. CASE d.ref = ref
      <4>1. \E j \in OpenRows(ref) : rows[j].scope = s
        BY <2>3, <3>1
      <4> QED
        BY <1>1, <3>1, <4>1
    <3>2. CASE d.ref # ref
      <4>1. i \in DOMAIN rows /\ i \notin OpenRows(ref)
        BY <2>3, <3>2 DEF OpenRows
      <4>2. rows'[i] = rows[i]
        BY <1>1, <4>1
      <4>3. i \in OpenRows(d.ref)'
        BY <1>5, <2>3, <4>2 DEF OpenRows
      <4> QED
        BY <2>3, <4>2, <4>3
    <3> QED
      BY <3>1, <3>2
  <2> QED
    BY <2>1, <2>2, <2>3
<1>8. DifferencesStayOpen'
  BY <1>1, <1>7 DEF DifferencesStayOpen
<1>9. /\ phase' \in [Attempts -> {"new", "persist", "done"}]
      /\ \A c \in Attempts : phase'[c] = "persist" => given'[c] \in Inputs
      /\ DOMAIN given' = Attempts /\ DOMAIN last' = Scopes /\ DOMAIN runs' = Scopes
      /\ \A s \in Scopes : runs'[s] # Missing => last'[s] \in Inputs /\ runs'[s] = RunOf(last'[s])
  BY <1>1 DEF ReconcileInv
<1> QED
  BY <1>5, <1>6, <1>8, <1>9 DEF ReconcileInv

\* Nothing that is written changes when a call starts, and nothing when it fails.
LEMMA StartKeeps ==
    ASSUME ReconcileInv, NEW c \in Attempts, Start(c) \/ RollBack(c)
    PROVE  ReconcileInv'
<1>1. UNCHANGED <<runs, rows, last, resolved>>
  BY DEF Start, RollBack
<1>2. DifferencesStayOpen'
  BY <1>1 DEF ReconcileInv, DifferencesStayOpen, OpenRows
<1>3. /\ phase' \in [Attempts -> {"new", "persist", "done"}] /\ DOMAIN given' = Attempts
      /\ \A b \in Attempts : phase'[b] = "persist" => given'[b] \in Inputs
  <2>1. /\ phase \in [Attempts -> {"new", "persist", "done"}] /\ DOMAIN given = Attempts
        /\ \A b \in Attempts : phase[b] = "persist" => given[b] \in Inputs
    BY DEF ReconcileInv
  <2>2. CASE RollBack(c)
    BY <2>1, <2>2 DEF RollBack
  <2>3. CASE Start(c)
    <3>1. PICK lines \in Inputs : given' = [given EXCEPT ![c] = lines]
      BY <2>3 DEF Start, Inputs
    <3> QED
      BY <2>1, <2>3, <3>1 DEF Start
  <2> QED
    BY <2>2, <2>3
<1> QED
  BY <1>1, <1>2, <1>3 DEF ReconcileInv

\* The invariant of Reconcile: the row of a scope is made of the lines it was given last,
\* and what these differ in is open or was resolved since (Runner.Run, Resolve).
THEOREM ReconcileInvariance == ReconcileSpec => []ReconcileInv
<1>1. ReconcileInit => ReconcileInv
  <2> SUFFICES ASSUME ReconcileInit PROVE ReconcileInv
    OBVIOUS
  <2>1. \A s \in Scopes : runs[s] = Missing
    BY DEF ReconcileInit
  <2>2. rows \in Seq(RowSet)
    BY DEF ReconcileInit
  <2> QED
    BY <2>1, <2>2 DEF ReconcileInit, ReconcileInv, DifferencesStayOpen
<1>2. ReconcileInv /\ [ReconcileNext]_reconcileVars => ReconcileInv'
  <2> SUFFICES ASSUME ReconcileInv, [ReconcileNext]_reconcileVars PROVE ReconcileInv'
    OBVIOUS
  <2>1. CASE UNCHANGED reconcileVars
    BY <2>1 DEF reconcileVars, ReconcileInv, DifferencesStayOpen, OpenRows
  <2>2. CASE ReconcileNext
    BY <2>2, PersistKeeps, ResolveKeeps, StartKeeps DEF ReconcileNext
  <2> QED
    BY <2>1, <2>2
<1> QED
  BY <1>1, <1>2, PTL DEF ReconcileSpec

\* Runs and rows are always of their types.
THEOREM ReconcileTypes == ReconcileSpec => []ReconcileTypeOK
<1>1. ReconcileInv => ReconcileTypeOK
  <2> SUFFICES ASSUME ReconcileInv PROVE ReconcileTypeOK
    OBVIOUS
  <2>1. ASSUME NEW s \in Scopes, runs[s] # Missing PROVE runs[s].delta \in Int
    <3>1. last[s] \in Inputs /\ runs[s] = RunOf(last[s])
      BY <2>1 DEF ReconcileInv
    <3>2. runs[s].delta = SumOf(last[s].internal, Refs) - SumOf(last[s].provider, Refs)
      BY <3>1, ReportAddsUp DEF RunOf
    <3>3. SumOf(last[s].internal, Refs) \in Int /\ SumOf(last[s].provider, Refs) \in Int
      BY <3>1, InputsAreLines, LinesAreLines
    <3> QED
      BY <3>2, <3>3
  <2>2. ASSUME NEW i \in DOMAIN rows PROVE rows[i].scope \in Scopes /\ rows[i].resolution \in {"pending", "resolved"}
    <3>1. rows \in Seq(RowSet)
      BY DEF ReconcileInv
    <3>2. PICK s \in Scopes, d \in AllDifferences, resolution \in {"pending", "resolved"} : rows[i] = RowOf(s, d, resolution)
      BY <3>1, Rows
    <3> QED
      BY <3>2 DEF RowOf
  <2>3. phase \in [Attempts -> {"new", "persist", "done"}] /\ resolved \in [Scopes -> SUBSET Refs]
    BY DEF ReconcileInv
  <2> QED
    BY <2>1, <2>2, <2>3 DEF ReconcileTypeOK
<1> QED
  BY <1>1, ReconcileInvariance, PTL

\* Whatever lines are compared: the delta of a run is all that is booked less all that
\* the provider has, its counts add up, and clean means that nothing differs (Compare).
THEOREM ReportsAddUp == ReconcileSpec => []RunsAddUp
<1>1. ReconcileInv => RunsAddUp
  <2> SUFFICES ASSUME ReconcileInv, NEW s \in Scopes, runs[s] # Missing
               PROVE  /\ runs[s].delta = SumOf(last[s].internal, Refs) - SumOf(last[s].provider, Refs)
                      /\ runs[s].compared = runs[s].matched + runs[s].discrepancies
                      /\ runs[s].status = "clean" <=>
                            /\ RefsOf(last[s].internal) = RefsOf(last[s].provider)
                            /\ \A ref \in Refs : SumOf(last[s].internal, {ref}) = SumOf(last[s].provider, {ref})
    BY DEF RunsAddUp
  <2>1. last[s] \in Inputs /\ runs[s] = RunOf(last[s])
    BY DEF ReconcileInv
  <2>2. /\ runs[s].delta = SumFunctionOnSet([d \in Differences(last[s]) |-> d.delta], Differences(last[s]))
        /\ runs[s].compared = Cardinality(AllRefs(last[s])) /\ runs[s].matched = Cardinality(Matched(last[s]))
        /\ runs[s].discrepancies = Cardinality(Differences(last[s]))
        /\ runs[s].status = "clean" <=> Differences(last[s]) = {}
    BY <2>1 DEF RunOf
  <2> QED
    BY <2>1, <2>2, ReportAddsUp
<1> QED
  BY <1>1, ReconcileInvariance, PTL

\* What the latest run of a day has found is open until its reference is resolved, also
\* if the day was run before and whatever other days and providers do (persist).
THEOREM DifferencesAreKept == ReconcileSpec => []DifferencesStayOpen
<1>1. ReconcileInv => DifferencesStayOpen
  BY DEF ReconcileInv
<1> QED
  BY <1>1, ReconcileInvariance, PTL
=============================================================================
