------------------------------ MODULE SumLemmas ------------------------------
(***************************************************************************)
(* SumFunction over a finite domain: what the byte counters of the runtime *)
(* (the pool's, the cache's) are proved with.  SumFunction is a fold, that *)
(* is the value of a recursive function on the subsets of the domain.      *)
(* Induction is obtained from the library's first-order minimum principle  *)
(* (WFMin): a set of naturals or of finite subsets that is closed under    *)
(* the step has no least missing member.                                   *)
(***************************************************************************)
EXTENDS Integers, Functions, FiniteSetTheorems, TLAPS

\* The element a fold takes from s, and the equation of a fold of f over D.
Pick(s) == CHOOSE x \in s : TRUE

FoldStep(g, f, s) == IF s = {} THEN 0 ELSE f[Pick(s)] + g[s \ {Pick(s)}]

IsFold(g, f, D) == g = [s \in SUBSET D |-> FoldStep(g, f, s)]

FoldOf(f) == CHOOSE g : IsFold(g, f, DOMAIN f)

\* The sum is the fold over the whole domain.
LEMMA SumUnfold ==
    ASSUME NEW f
    PROVE  SumFunction(f) = FoldOf(f)[DOMAIN f]
  BY DEF SumFunction, SumFunctionOnSet, FoldFunctionOnSet, MapThenFoldSet,
         FoldOf, IsFold, FoldStep, Pick

\* A fold takes elements of its set.
LEMMA PickIn ==
    ASSUME NEW s, s # {}
    PROVE  Pick(s) \in s
  BY DEF Pick

\* Induction on the naturals, with a set in the place of a predicate.
LEMMA NatSet ==
    ASSUME NEW T, 0 \in T, \A n \in Nat : n \in T => n + 1 \in T
    PROVE  Nat \subseteq T
<1> DEFINE B == Nat \ T
<1> SUFFICES ASSUME B # {} PROVE FALSE
  OBVIOUS
<1>1. PICK m \in B : \A k \in B : ~(<<k, m>> \in OpToRel(<, Nat))
  BY NatLessThanWellFounded, WFMin
<1>2. m - 1 \in B /\ m - 1 < m
  OBVIOUS
<1>3. <<m - 1, m>> \in OpToRel(<, Nat)
  BY <1>2 DEF OpToRel
<1> QED
  BY <1>1, <1>2, <1>3

\* Induction on the subsets of a finite set, along the elements a fold takes.
LEMMA FoldInduction ==
    ASSUME NEW D, IsFiniteSet(D), NEW T, {} \in T,
           \A s \in SUBSET D : s # {} /\ s \ {Pick(s)} \in T => s \in T
    PROVE  SUBSET D \subseteq T
<1> DEFINE B == (SUBSET D) \ T
<1> SUFFICES ASSUME B # {} PROVE FALSE
  OBVIOUS
<1>1. IsWellFoundedOn(StrictSubsetOrdering(D), SUBSET D)
  BY FS_StrictSubsetOrderingWellFounded, FS_FiniteSubsetsOfFinite
<1>2. PICK s \in B : \A t \in B : ~(<<t, s>> \in StrictSubsetOrdering(D))
  <2>1. B \subseteq SUBSET D /\ B # {}
    OBVIOUS
  <2> HIDE DEF B
  <2> QED
    BY <1>1, <2>1, WFMin
<1>3. s # {} /\ Pick(s) \in s
  <2>1. s # {}
    OBVIOUS
  <2> QED
    BY <2>1, PickIn
<1>4. s \ {Pick(s)} \in B
  BY <1>3
<1>5. <<s \ {Pick(s)}, s>> \in StrictSubsetOrdering(D)
  BY <1>3 DEF StrictSubsetOrdering
<1> QED
  BY <1>2, <1>4, <1>5

\* Taking one element leaves one fewer.
LEMMA SmallerByOne ==
    ASSUME NEW s, IsFiniteSet(s), s # {}
    PROVE  /\ Cardinality(s) \in Nat
           /\ Cardinality(s \ {Pick(s)}) = Cardinality(s) - 1
           /\ Cardinality(s) # 0
  BY PickIn, FS_RemoveElement, FS_CardinalityType, FS_EmptySet

\* A fold over a finite set exists: it is built size by size.
LEMMA FoldExists ==
    ASSUME NEW f, NEW D, IsFiniteSet(D)
    PROVE  \E g : IsFold(g, f, D)
<1> DEFINE UpTo(g, n) == \A s \in SUBSET D : Cardinality(s) <= n => g[s] = FoldStep(g, f, s)
           T == { n \in Nat : \E g : UpTo(g, n) }
<1>0. \A s \in SUBSET D : IsFiniteSet(s) /\ Cardinality(s) \in Nat
  BY FS_Subset, FS_CardinalityType
<1>1. 0 \in T
  <2> DEFINE g0 == [s \in SUBSET D |-> 0]
  <2>1. UpTo(g0, 0)
    BY <1>0, FS_EmptySet DEF FoldStep
  <2> QED
    BY <2>1
<1>2. ASSUME NEW n \in Nat, n \in T PROVE n + 1 \in T
  <2>1. PICK g : UpTo(g, n)
    BY <1>2
  <2> DEFINE h == [s \in SUBSET D |-> FoldStep(g, f, s)]
  <2>2. UpTo(h, n + 1)
    <3> SUFFICES ASSUME NEW s \in SUBSET D, Cardinality(s) <= n + 1
                 PROVE  h[s] = FoldStep(h, f, s)
      OBVIOUS
    <3>1. CASE s = {}
      BY <3>1 DEF FoldStep
    <3>2. CASE s # {}
      <4> DEFINE t == s \ {Pick(s)}
      <4>1. t \in SUBSET D /\ Cardinality(t) <= n
        BY <1>0, <3>2, SmallerByOne
      <4>2. h[t] = g[t]
        BY <2>1, <4>1
      <4> QED
        BY <3>2, <4>2 DEF FoldStep
    <3> QED
      BY <3>1, <3>2
  <2> HIDE DEF h, UpTo
  <2> QED
    BY <2>2
<1>3. Cardinality(D) \in T
  <2>1. Cardinality(D) \in Nat
    BY <1>0
  <2> HIDE DEF T
  <2> QED
    BY <2>1, <1>1, <1>2, NatSet
<1>4. PICK g : UpTo(g, Cardinality(D))
  BY <1>3
<1> DEFINE h == [s \in SUBSET D |-> g[s]]
<1>5. \A s \in SUBSET D : h[s] = FoldStep(h, f, s)
  <2> SUFFICES ASSUME NEW s \in SUBSET D PROVE h[s] = FoldStep(h, f, s)
    OBVIOUS
  <2>1. g[s] = FoldStep(g, f, s)
    BY <1>4, FS_Subset, <1>0
  <2>2. h[s \ {Pick(s)}] = g[s \ {Pick(s)}]
    OBVIOUS
  <2> QED
    BY <2>1, <2>2 DEF FoldStep
<1>6. IsFold(h, f, D)
  BY <1>5 DEF IsFold
<1> QED
  BY <1>6

\* The recursive equation of the fold that CHOOSE names.
LEMMA FoldEquation ==
    ASSUME NEW f, IsFiniteSet(DOMAIN f)
    PROVE  /\ FoldOf(f)[{}] = 0
           /\ \A s \in SUBSET (DOMAIN f) : s # {} =>
                 FoldOf(f)[s] = f[Pick(s)] + FoldOf(f)[s \ {Pick(s)}]
<1>1. IsFold(FoldOf(f), f, DOMAIN f)
  BY FoldExists DEF FoldOf
<1> QED
  BY <1>1 DEF IsFold, FoldStep
-----------------------------------------------------------------------------
\* A sum of integers is an integer, one of naturals a natural.
LEMMA SumType ==
    ASSUME NEW D, IsFiniteSet(D), NEW f \in [D -> Int]
    PROVE  /\ SumFunction(f) \in Int
           /\ f \in [D -> Nat] => SumFunction(f) \in Nat
<1> DEFINE F == FoldOf(f)
           T == { s \in SUBSET D : F[s] \in Int /\ (f \in [D -> Nat] => F[s] \in Nat) }
<1>1. /\ F[{}] = 0
      /\ \A s \in SUBSET D : s # {} => F[s] = f[Pick(s)] + F[s \ {Pick(s)}]
  BY FoldEquation
<1> HIDE DEF F
<1>2. {} \in T
  BY <1>1
<1>3. \A s \in SUBSET D : s # {} /\ s \ {Pick(s)} \in T => s \in T
  <2> SUFFICES ASSUME NEW s \in SUBSET D, s # {}, s \ {Pick(s)} \in T PROVE s \in T
    OBVIOUS
  <2>1. Pick(s) \in D
    BY PickIn
  <2> QED
    BY <1>1, <2>1
<1>4. D \in T
  <2> HIDE DEF T
  <2> QED
    BY <1>2, <1>3, FoldInduction
<1> QED
  BY <1>4, SumUnfold DEF F

\* A sum moves by what its summands move.
LEMMA SumChange ==
    ASSUME NEW D, IsFiniteSet(D), NEW f \in [D -> Int], NEW g \in [D -> Int],
           NEW d \in D, \A x \in D : x # d => g[x] = f[x]
    PROVE  SumFunction(g) = SumFunction(f) - f[d] + g[d]
<1> DEFINE F == FoldOf(f)
           G == FoldOf(g)
           T == { s \in SUBSET D : /\ F[s] \in Int
                                   /\ G[s] = F[s] + (IF d \in s THEN g[d] - f[d] ELSE 0) }
<1>1. /\ F[{}] = 0 /\ G[{}] = 0
      /\ \A s \in SUBSET D : s # {} =>
            /\ F[s] = f[Pick(s)] + F[s \ {Pick(s)}]
            /\ G[s] = g[Pick(s)] + G[s \ {Pick(s)}]
  BY FoldEquation
<1> HIDE DEF F, G
<1>2. {} \in T
  BY <1>1
<1>3. \A s \in SUBSET D : s # {} /\ s \ {Pick(s)} \in T => s \in T
  <2> SUFFICES ASSUME NEW s \in SUBSET D, s # {}, s \ {Pick(s)} \in T PROVE s \in T
    OBVIOUS
  <2>1. Pick(s) \in D /\ Pick(s) \in s
    BY PickIn
  <2> DEFINE t == s \ {Pick(s)}
  <2>4. F[t] \in Int /\ G[t] = F[t] + (IF d \in t THEN g[d] - f[d] ELSE 0)
    OBVIOUS
  <2>5. /\ F[s] = f[Pick(s)] + F[t] /\ G[s] = g[Pick(s)] + G[t]
        /\ f[Pick(s)] \in Int /\ f[d] \in Int /\ g[d] \in Int
    BY <1>1, <2>1
  <2>2. CASE Pick(s) = d
    <3>1. d \in s /\ d \notin t
      BY <2>1, <2>2
    <3> HIDE DEF t
    <3>2. F[s] \in Int /\ G[s] = F[s] + g[d] - f[d]
      BY <2>2, <2>4, <2>5, <3>1
    <3> QED
      BY <2>5, <3>1, <3>2
  <2>3. CASE Pick(s) # d
    <3>1. (d \in s <=> d \in t) /\ g[Pick(s)] = f[Pick(s)]
      BY <2>1, <2>3
    <3> HIDE DEF t
    <3> QED
      BY <2>4, <2>5, <3>1
  <2> QED
    BY <2>2, <2>3
<1>4. D \in T
  <2> HIDE DEF T
  <2> QED
    BY <1>2, <1>3, FoldInduction
<1>5. SumFunction(f) = F[D] /\ SumFunction(g) = G[D]
  BY SumUnfold DEF F, G
<1> QED
  BY <1>4, <1>5

\* A sum is at most another whose summands are at least as large.
LEMMA SumMonotone ==
    ASSUME NEW D, IsFiniteSet(D), NEW f \in [D -> Int], NEW g \in [D -> Int],
           \A x \in D : f[x] <= g[x]
    PROVE  SumFunction(f) <= SumFunction(g)
<1> DEFINE F == FoldOf(f)
           G == FoldOf(g)
           T == { s \in SUBSET D : F[s] \in Int /\ G[s] \in Int /\ F[s] <= G[s] }
<1>1. /\ F[{}] = 0 /\ G[{}] = 0
      /\ \A s \in SUBSET D : s # {} =>
            /\ F[s] = f[Pick(s)] + F[s \ {Pick(s)}]
            /\ G[s] = g[Pick(s)] + G[s \ {Pick(s)}]
  BY FoldEquation
<1> HIDE DEF F, G
<1>2. {} \in T
  BY <1>1
<1>3. \A s \in SUBSET D : s # {} /\ s \ {Pick(s)} \in T => s \in T
  <2> SUFFICES ASSUME NEW s \in SUBSET D, s # {}, s \ {Pick(s)} \in T PROVE s \in T
    OBVIOUS
  <2>1. Pick(s) \in D
    BY PickIn
  <2>2. f[Pick(s)] \in Int /\ g[Pick(s)] \in Int /\ f[Pick(s)] <= g[Pick(s)]
    BY <2>1
  <2>3. F[s] = f[Pick(s)] + F[s \ {Pick(s)}] /\ G[s] = g[Pick(s)] + G[s \ {Pick(s)}]
    BY <1>1
  <2> DEFINE t == s \ {Pick(s)}
  <2>4. F[t] \in Int /\ G[t] \in Int /\ F[t] <= G[t]
    OBVIOUS
  <2>5. F[s] = f[Pick(s)] + F[t] /\ G[s] = g[Pick(s)] + G[t]
    BY <2>3
  <2> HIDE DEF t
  <2>6. F[s] \in Int /\ G[s] \in Int /\ F[s] <= G[s]
    BY <2>2, <2>4, <2>5
  <2> QED
    BY <2>6
<1>4. D \in T
  <2> HIDE DEF T
  <2> QED
    BY <1>2, <1>3, FoldInduction
<1>5. SumFunction(f) = F[D] /\ SumFunction(g) = G[D]
  BY SumUnfold DEF F, G
<1> QED
  BY <1>4, <1>5

\* A sum of zeros.
LEMMA SumZero ==
    ASSUME NEW D, IsFiniteSet(D), NEW f \in [D -> Int], \A x \in D : f[x] = 0
    PROVE  SumFunction(f) = 0
<1> DEFINE F == FoldOf(f)
           T == { s \in SUBSET D : F[s] = 0 }
<1>1. /\ F[{}] = 0
      /\ \A s \in SUBSET D : s # {} => F[s] = f[Pick(s)] + F[s \ {Pick(s)}]
  BY FoldEquation
<1> HIDE DEF F
<1>2. {} \in T
  BY <1>1
<1>3. \A s \in SUBSET D : s # {} /\ s \ {Pick(s)} \in T => s \in T
  <2> SUFFICES ASSUME NEW s \in SUBSET D, s # {}, s \ {Pick(s)} \in T PROVE s \in T
    OBVIOUS
  <2>1. Pick(s) \in D
    BY PickIn
  <2>2. f[Pick(s)] = 0 /\ F[s] = f[Pick(s)] + F[s \ {Pick(s)}]
    BY <1>1, <2>1
  <2> QED
    BY <2>2
<1>4. D \in T
  <2> HIDE DEF T
  <2> QED
    BY <1>2, <1>3, FoldInduction
<1> QED
  BY <1>4, SumUnfold DEF F

\* A sum of summands of at least k is at least k times their number.
LEMMA SumAtLeast ==
    ASSUME NEW D, IsFiniteSet(D), NEW f \in [D -> Int], NEW k \in Int,
           \A x \in D : f[x] >= k
    PROVE  SumFunction(f) >= k * Cardinality(D)
<1> DEFINE F == FoldOf(f)
           T == { s \in SUBSET D : F[s] \in Int /\ F[s] >= k * Cardinality(s) }
<1>1. /\ F[{}] = 0
      /\ \A s \in SUBSET D : s # {} => F[s] = f[Pick(s)] + F[s \ {Pick(s)}]
  BY FoldEquation
<1> HIDE DEF F
<1>2. {} \in T
  <2>1. Cardinality({}) = 0
    BY FS_EmptySet
  <2>2. F[{}] \in Int /\ F[{}] >= k * Cardinality({})
    BY <1>1, <2>1
  <2> QED
    BY <2>2
<1>3. \A s \in SUBSET D : s # {} /\ s \ {Pick(s)} \in T => s \in T
  <2> SUFFICES ASSUME NEW s \in SUBSET D, s # {}, s \ {Pick(s)} \in T PROVE s \in T
    OBVIOUS
  <2> DEFINE t == s \ {Pick(s)}
             n == Cardinality(t)
  <2>1. f[Pick(s)] \in Int /\ f[Pick(s)] >= k
    BY PickIn
  <2>2. Cardinality(s) = n + 1 /\ n \in Int
    BY FS_Subset, SmallerByOne
  <2>3. F[t] \in Int /\ F[t] >= k * n /\ F[s] = f[Pick(s)] + F[t]
    BY <1>1
  <2> HIDE DEF t, n
  <2>4. k * (n + 1) = k * n + k /\ k * n \in Int
    BY <2>2
  <2>5. F[s] \in Int /\ F[s] >= k * (n + 1)
    BY <2>1, <2>3, <2>4
  <2> QED
    BY <2>2, <2>5
<1>4. D \in T
  <2> HIDE DEF T
  <2> QED
    BY <1>2, <1>3, FoldInduction
<1> QED
  BY <1>4, SumUnfold DEF F
\* The sum of f over a part of its domain is that of f on the part alone.
LEMMA SumOnSet ==
    ASSUME NEW f, NEW U, IsFiniteSet(U)
    PROVE  SumFunctionOnSet(f, U) = SumFunction([x \in U |-> f[x]])
<1> DEFINE r == [x \in U |-> f[x]]
           F == CHOOSE g : IsFold(g, f, U)
           G == FoldOf(r)
           T == { s \in SUBSET U : F[s] = G[s] }
<1>1. SumFunctionOnSet(f, U) = F[U]
  BY DEF SumFunctionOnSet, FoldFunctionOnSet, MapThenFoldSet, IsFold, FoldStep, Pick
<1>2. IsFold(F, f, U)
  BY FoldExists
<1>3. /\ F[{}] = 0
      /\ \A s \in SUBSET U : s # {} => F[s] = f[Pick(s)] + F[s \ {Pick(s)}]
  <2> HIDE DEF F
  <2> QED BY <1>2 DEF IsFold, FoldStep
<1>4. /\ G[{}] = 0
      /\ \A s \in SUBSET U : s # {} => G[s] = r[Pick(s)] + G[s \ {Pick(s)}]
  <2>1. DOMAIN r = U
    OBVIOUS
  <2> HIDE DEF r
  <2> QED BY <2>1, FoldEquation
<1>5. SumFunction(r) = G[U]
  <2>1. DOMAIN r = U
    OBVIOUS
  <2> HIDE DEF r
  <2> QED BY <2>1, SumUnfold
<1> HIDE DEF F, G
<1>6. {} \in T
  BY <1>3, <1>4
<1>7. \A s \in SUBSET U : s # {} /\ s \ {Pick(s)} \in T => s \in T
  <2> SUFFICES ASSUME NEW s \in SUBSET U, s # {}, s \ {Pick(s)} \in T PROVE s \in T
    OBVIOUS
  <2>1. Pick(s) \in U /\ r[Pick(s)] = f[Pick(s)]
    BY PickIn
  <2> QED BY <1>3, <1>4, <2>1
<1> HIDE DEF T
<1>8. SUBSET U \subseteq T
  BY <1>6, <1>7, FoldInduction
<1>9. U \in T
  BY <1>8
<1> QED
  BY <1>1, <1>5, <1>9 DEF T
=============================================================================
