--------------------------- MODULE DevicePool_proof ---------------------------
(***************************************************************************)
(* The memory pool for any number of addresses, request sizes and limits   *)
(* and any device size.  PoolInv is the inductive invariant.  Ownership    *)
(* with the types comes first: a pointer of a free list is known not to be *)
(* held only because both facts pin the driver's size of the pointer.  On  *)
(* it rest the reach of the trimming loop (NoLeak), the byte counters as   *)
(* the sums they are named after (CountInv) and the reason of a refusal.   *)
(***************************************************************************)
EXTENDS DevicePoolProps, SumLemmas, TLAPS

OwnershipInv == MapTypeOK /\ Ownership

\* Dropping the newest pointer of a free list.
LEMMA FrontOfList ==
    ASSUME NEW S, NEW s \in Seq(S), s # << >>
    PROVE  /\ Front(s) \in Seq(S)
           /\ Last(s) \in S
           /\ Last(s) \in ToSet(s)
           /\ ToSet(Front(s)) \subseteq ToSet(s)
           /\ Once(s) => Once(Front(s)) /\ Last(s) \notin ToSet(Front(s))
  BY DEF Front, Last, ToSet, Once

\* Filing a pointer on a free list.
LEMMA AppendToList ==
    ASSUME NEW S, NEW s \in Seq(S), NEW x \in S
    PROVE  /\ Append(s, x) \in Seq(S)
           /\ ToSet(Append(s, x)) = ToSet(s) \cup {x}
           /\ Once(s) /\ x \notin ToSet(s) => Once(Append(s, x))
  BY DEF ToSet, Once

\* Deleting a key of the map keeps the rest of the insertion order.
LEMMA WithoutType ==
    ASSUME NEW S, NEW s \in Seq(S), NEW c
    PROVE  Without(s, c) \in Seq(S)
<1>1. CASE c \in ToSet(s)
  <2> DEFINE i == CHOOSE i \in 1..Len(s) : s[i] = c
  <2>1. i \in 1..Len(s)
    BY <1>1 DEF ToSet
  <2> HIDE DEF i
  <2>2. SubSeq(s, 1, i - 1) \in Seq(S) /\ SubSeq(s, i + 1, Len(s)) \in Seq(S)
    BY <2>1
  <2>3. Without(s, c) = SubSeq(s, 1, i - 1) \o SubSeq(s, i + 1, Len(s))
    BY <1>1 DEF Without, i
  <2> QED
    BY <2>2, <2>3
<1>2. CASE c \notin ToSet(s)
  BY <1>2 DEF Without
<1> QED
  BY <1>1, <1>2

\* The library knows powers of two as the number of subsets.
LEMMA PowerOfTwo ==
    ASSUME NEW n \in Nat
    PROVE  2^n \in Nat \ {0}
<1> DEFINE S == 1..n
<1>1. IsFiniteSet(S) /\ Cardinality(S) = n
  BY FS_Interval
<1>2. IsFiniteSet(SUBSET S) /\ Cardinality(SUBSET S) = 2^n
  BY <1>1, FS_SUBSET
<1> HIDE DEF S
<1>3. SUBSET S # {}
  OBVIOUS
<1> QED
  BY <1>2, <1>3, FS_CardinalityType, FS_EmptySet

\* The exponent sizeClass takes is defined for every byte count.
LEMMA CeilLog2Type ==
    ASSUME NEW b \in Bytes
    PROVE  CeilLog2(b) \in 0..53
<1> DEFINE T == { k \in 0..53 : 2^k >= b }
<1>0. b \in Nat /\ T \subseteq Nat /\ \A k \in Nat : 2^k \in Nat
  BY BytesAssumption, PowerOfTwo
<1>4. T # {}
  <2>1. PICK k \in 0..53 : b <= 2^k
    BY BytesAssumption
  <2>2. 2^k >= b
    BY <1>0, <2>1
  <2> QED
    BY <2>2
<1>1. PICK k \in T : \A j \in T : ~(<<j, k>> \in OpToRel(<, Nat))
  <2> HIDE DEF T
  <2> QED
    BY <1>0, <1>4, NatLessThanWellFounded, WFMin
<1>2. \A j \in T : ~(j < k)
  <2> SUFFICES ASSUME NEW j \in T, j < k PROVE FALSE
    OBVIOUS
  <2>1. <<j, k>> \in OpToRel(<, Nat)
    BY <1>0 DEF OpToRel
  <2> QED
    BY <1>1, <2>1
<1>3. k = 0 \/ 2^(k-1) < b
  <2> SUFFICES ASSUME k # 0 PROVE 2^(k-1) < b
    OBVIOUS
  <2>1. k - 1 \in 0..53 /\ k - 1 \notin T
    BY <1>2
  <2>2. 2^(k-1) \in Nat
    BY <1>0, <2>1
  <2> QED
    BY <1>0, <2>1, <2>2
<1> QED
  BY <1>3 DEF CeilLog2

\* Rounding up to a multiple.
LEMMA RoundUp ==
    ASSUME NEW b \in Nat, NEW s \in Nat \ {0}
    PROVE  /\ ((b + s - 1) \div s) * s \in Nat
           /\ ((b + s - 1) \div s) * s >= b
  BY Z3

(* sizeClass never hands a request less than it asked for, whatever the      *)
(* request: rounding up to the eighth of an octave loses no byte.           *)
THEOREM SizeClass ==
    ASSUME NEW b \in Bytes
    PROVE  sizeClass(b) \in Nat /\ sizeClass(b) >= b /\ sizeClass(b) >= 512
<1>0. b \in Nat
  BY BytesAssumption
<1>1. CASE b <= 512
  BY <1>0, <1>1 DEF sizeClass
<1>2. CASE ~(b <= 512)
  <2> DEFINE k == CeilLog2(b) - 3
             e == IF k > 9 THEN k ELSE 9
             s == 2^e
  <2>1. e \in Nat
    BY CeilLog2Type
  <2>2. s \in Nat \ {0}
    BY <2>1, PowerOfTwo
  <2>3. sizeClass(b) = ((b + s - 1) \div s) * s
    BY <1>2 DEF sizeClass
  <2> HIDE DEF s
  <2>4. sizeClass(b) \in Nat /\ sizeClass(b) >= b
    BY <1>0, <2>2, <2>3, RoundUp
  <2> QED
    BY <1>0, <1>2, <2>4
<1> QED
  BY <1>1, <1>2

\* A class is a positive size.
LEMMA ClassPositive == Class \subseteq Nat \ {0} /\ 0 \notin Class
  BY SizeClass DEF Class

\* Moving a class to the newest end of the map.
LEMMA TouchType ==
    ASSUME order \in Seq(Class), NEW c \in Class
    PROVE  Append(Without(order, c), c) \in Seq(Class)
  BY WithoutType, AppendToList

\* Deleting a key that occurs once.
LEMMA WithoutEntry ==
    ASSUME NEW S, NEW s \in Seq(S), NEW c, Once(s)
    PROVE  /\ Without(s, c) \in Seq(S)
           /\ Once(Without(s, c))
           /\ ToSet(Without(s, c)) = ToSet(s) \ {c}
<1>1. CASE c \in ToSet(s)
  <2> DEFINE n == Len(s)
             i == CHOOSE i \in 1..Len(s) : s[i] = c
             a == SubSeq(s, 1, i - 1)
             b == SubSeq(s, i + 1, n)
             r == a \o b
  <2>1. i \in 1..n /\ s[i] = c /\ n \in Nat
    BY <1>1 DEF ToSet
  <2> HIDE DEF i
  <2>2. /\ a \in Seq(S) /\ Len(a) = i - 1 /\ \A j \in 1..(i - 1) : a[j] = s[j]
        /\ b \in Seq(S) /\ Len(b) = n - i /\ \A j \in 1..(n - i) : b[j] = s[i + j]
    BY <2>1
  <2>3. Without(s, c) = SubSeq(s, 1, i - 1) \o SubSeq(s, i + 1, Len(s))
    BY <1>1 DEF Without, i
  <2> HIDE DEF a, b, n
  <2>4. /\ r \in Seq(S) /\ Len(r) = n - 1
        /\ \A j \in 1..(n - 1) : r[j] = IF j < i THEN s[j] ELSE s[j + 1]
    <3>0. a \in Seq(S) /\ b \in Seq(S)
      BY <2>2
    <3>1. r \in Seq(S) /\ Len(r) = Len(a) + Len(b)
      BY <3>0
    <3>2. ASSUME NEW j \in 1..(n - 1) PROVE r[j] = IF j < i THEN s[j] ELSE s[j + 1]
      BY <2>1, <2>2
    <3> QED
      BY <2>1, <2>2, <3>1, <3>2
  <2> HIDE DEF r
  <2>5. Once(r)
    <3> SUFFICES ASSUME NEW j \in 1..(n - 1), NEW k \in 1..(n - 1), r[j] = r[k]
                 PROVE  j = k
      BY <2>4 DEF Once
    <3> DEFINE up(m) == IF m < i THEN m ELSE m + 1
    <3>1. up(j) \in 1..n /\ up(k) \in 1..n /\ s[up(j)] = s[up(k)]
      BY <2>1, <2>4
    <3>2. up(j) = up(k)
      BY <3>1 DEF Once, n
    <3> QED
      BY <2>1, <3>2
  <2>6. ASSUME NEW x \in ToSet(r) PROVE x \in ToSet(s) /\ x # c
    <3>1. PICK j \in 1..(n - 1) : x = r[j]
      BY <2>4 DEF ToSet
    <3>2. j \in 1..n /\ j + 1 \in 1..n
      BY <2>1
    <3> QED
      BY <2>1, <2>4, <3>1, <3>2 DEF ToSet, Once, n
  <2>7. ASSUME NEW x \in ToSet(s), x # c PROVE x \in ToSet(r)
    <3>1. PICK j \in 1..n : x = s[j]
      BY DEF ToSet, n
    <3>2. j < i \/ j > i
      BY <2>1, <2>7, <3>1
    <3>3. CASE j < i
      BY <2>1, <2>4, <3>1, <3>3 DEF ToSet
    <3>4. CASE j > i
      <4>1. j - 1 \in 1..(n - 1) /\ ~(j - 1 < i) /\ (j - 1) + 1 = j
        BY <2>1, <3>4
      <4>2. r[j - 1] = x
        BY <2>4, <3>1, <4>1
      <4> QED
        BY <2>4, <4>1, <4>2 DEF ToSet
    <3> QED
      BY <3>2, <3>3, <3>4
  <2>8. Without(s, c) = r
    BY <2>3 DEF r, a, b, n
  <2> QED
    BY <2>4, <2>5, <2>6, <2>7, <2>8
<1>2. CASE c \notin ToSet(s)
  BY <1>2 DEF Without
<1> QED
  BY <1>1, <1>2

\* Math.max.
LEMMA MaxOfTwo ==
    ASSUME NEW a \in Int, NEW b \in Int
    PROVE  /\ Max({a, b}) \in Int
           /\ Max({a, b}) >= a /\ Max({a, b}) >= b
           /\ Max({a, b}) = a \/ Max({a, b}) = b
<1>1. \E x \in {a, b} : \A y \in {a, b} : x >= y
  OBVIOUS
<1> QED
  BY <1>1 DEF Max

\* Finitely many requests have finitely many classes.
LEMMA ClassFinite == IsFiniteSet(Class)
<1> DEFINE f == [b \in Bytes |-> sizeClass(b)]
<1>1. f \in Surjection(Bytes, Class)
  BY DEF Surjection, Class
<1> QED
  BY <1>1, BytesAssumption, FS_Surjection

\* The bytes of free lists l, and of the requests of holders h.
PoolSum(l) == SumFunction([c \in Class |-> c * Len(l[c])])
HeldClass(b) == IF b = 0 THEN 0 ELSE sizeClass(b)
HeldSum(h) == SumFunction([p \in Ptr |-> HeldClass(h[p])])

\* SumChange over the classes.
LEMMA ClassSumChange ==
    ASSUME NEW f \in [Class -> Int], NEW g \in [Class -> Int], NEW c \in Class,
           \A d \in Class : d # c => g[d] = f[d]
    PROVE  SumFunction(g) = SumFunction(f) - f[c] + g[c]
  BY ClassFinite, SumChange

\* Filing a pointer in a list of class c adds c bytes, taking one out takes c.
LEMMA PoolSumMoves ==
    ASSUME NEW l \in [Class -> Seq(Ptr)], NEW c \in Class, NEW s \in Seq(Ptr)
    PROVE  /\ PoolSum(l) \in Nat
           /\ Len(s) = Len(l[c]) + 1 => PoolSum([l EXCEPT ![c] = s]) = PoolSum(l) + c
           /\ Len(s) = Len(l[c]) - 1 => PoolSum([l EXCEPT ![c] = s]) = PoolSum(l) - c
<1> DEFINE m == [l EXCEPT ![c] = s]
           f == [d \in Class |-> d * Len(l[d])]
           g == [d \in Class |-> d * Len(m[d])]
<1>0. Class \subseteq Nat /\ IsFiniteSet(Class)
  BY ClassPositive, ClassFinite
<1>1. m \in [Class -> Seq(Ptr)]
  OBVIOUS
<1>2. \A d \in Class : Len(l[d]) \in Nat /\ Len(m[d]) \in Nat
  BY <1>1
<1>3. f \in [Class -> Nat] /\ g \in [Class -> Nat]
  <2> HIDE DEF m
  <2> QED
    BY <1>0, <1>2
<1>4. PoolSum(l) = SumFunction(f) /\ PoolSum(m) = SumFunction(g)
  BY DEF PoolSum
<1>5. f[c] = c * Len(l[c]) /\ g[c] = c * Len(s)
  OBVIOUS
<1>15. \A d \in Class : d # c => g[d] = f[d]
  OBVIOUS
<1>16. f \in [Class -> Int] /\ g \in [Class -> Int]
  BY <1>3
<1> HIDE DEF f, g, m
<1>6. SumFunction(f) \in Nat
  BY <1>0, <1>3, <1>16, SumType
<1>7. SumFunction(g) = SumFunction(f) - f[c] + g[c]
  BY <1>15, <1>16, ClassSumChange
<1>8. c \in Int /\ Len(l[c]) \in Int
  BY <1>0, <1>2
<1>9. Len(s) = Len(l[c]) + 1 => g[c] = f[c] + c
  BY <1>5, <1>8
<1>10. Len(s) = Len(l[c]) - 1 => g[c] = f[c] - c
  BY <1>5, <1>8
<1>11. f[c] \in Int
  BY <1>3
<1>12. PoolSum(m) = PoolSum(l) - f[c] + g[c]
  BY <1>4, <1>7
<1>13. Len(s) = Len(l[c]) + 1 => PoolSum(m) = PoolSum(l) + c
  BY <1>4, <1>6, <1>8, <1>9, <1>11, <1>12
<1>14. Len(s) = Len(l[c]) - 1 => PoolSum(m) = PoolSum(l) - c
  BY <1>4, <1>6, <1>8, <1>10, <1>11, <1>12
<1> QED
  BY <1>4, <1>6, <1>13, <1>14 DEF m

\* Empty lists pool nothing.
LEMMA PoolSumEmpty ==
    ASSUME NEW l \in [Class -> Seq(Ptr)], \A c \in Class : l[c] = << >>
    PROVE  PoolSum(l) = 0
<1> DEFINE f == [c \in Class |-> c * Len(l[c])]
<1>1. \A c \in Class : f[c] = 0
  BY ClassPositive
<1>2. f \in [Class -> Int]
  BY <1>1
<1> HIDE DEF f
<1>3. SumFunction(f) = 0
  BY <1>1, <1>2, ClassFinite, SumZero
<1> QED
  BY <1>3 DEF PoolSum, f

\* A pointer changes hands.
LEMMA HeldSumMoves ==
    ASSUME NEW h \in [Ptr -> Bytes \cup {0}], NEW p \in Ptr, NEW b \in Bytes \cup {0}
    PROVE  /\ HeldSum(h) \in Nat
           /\ HeldSum([h EXCEPT ![p] = b]) = HeldSum(h) - HeldClass(h[p]) + HeldClass(b)
           /\ HeldClass(h[p]) \in Nat /\ HeldClass(b) \in Nat
<1> DEFINE m == [h EXCEPT ![p] = b]
           f == [q \in Ptr |-> HeldClass(h[q])]
           g == [q \in Ptr |-> HeldClass(m[q])]
<1>0. IsFiniteSet(Ptr)
  BY DeviceAssumption
<1>1. \A x \in Bytes \cup {0} : HeldClass(x) \in Nat
  BY SizeClass DEF HeldClass
<1>2. m \in [Ptr -> Bytes \cup {0}] /\ m[p] = b /\ \A q \in Ptr : q # p => m[q] = h[q]
  OBVIOUS
<1> HIDE DEF m
<1>3. f \in [Ptr -> Nat] /\ g \in [Ptr -> Nat]
  BY <1>1, <1>2
<1>4. f[p] = HeldClass(h[p]) /\ g[p] = HeldClass(b) /\ \A q \in Ptr : q # p => g[q] = f[q]
  BY <1>2
<1>5. HeldSum(h) = SumFunction(f) /\ HeldSum(m) = SumFunction(g)
  BY DEF HeldSum
<1> HIDE DEF f, g
<1>6. f \in [Ptr -> Int] /\ g \in [Ptr -> Int]
  BY <1>3
<1>7. SumFunction(f) \in Nat /\ SumFunction(g) = SumFunction(f) - f[p] + g[p]
  BY <1>0, <1>3, <1>4, <1>6, SumType, SumChange
<1> QED
  BY <1>1, <1>4, <1>5, <1>7 DEF m

\* Nothing is pooled or held at first.
LEMMA InitOwnership == Init => OwnershipInv
  BY DEF Init, OwnershipInv, MapTypeOK, Ownership, Once, ToSet

\* Every operation keeps the ownership of pointers.
LEMMA NextOwnership == OwnershipInv /\ [Next]_poolVars => OwnershipInv'
<1> SUFFICES ASSUME OwnershipInv, [Next]_poolVars PROVE OwnershipInv'
  OBVIOUS
<1> USE ClassPositive
<1>0. \A b \in Bytes : b # 0 /\ sizeClass(b) \in Class
  BY BytesAssumption DEF Class
<1>1. ASSUME NEW b \in Bytes, NEW p \in Ptr, AcquireFromPool(b, p) PROVE OwnershipInv'
  <2> DEFINE c == sizeClass(b)
  <2>1. c \in Class /\ list[c] \in Seq(Ptr) /\ list[c] # << >> /\ Once(list[c])
    BY <1>0, <1>1 DEF AcquireFromPool, OwnershipInv, MapTypeOK, Ownership
  <2>2. /\ Front(list[c]) \in Seq(Ptr)
        /\ ToSet(Front(list[c])) \subseteq ToSet(list[c])
        /\ Once(Front(list[c]))
        /\ p \notin ToSet(Front(list[c])) /\ p \in ToSet(list[c])
    BY <1>1, <2>1, FrontOfList DEF AcquireFromPool
  <2>3. MapTypeOK'
    BY <1>1, <2>1, <2>2, TouchType DEF AcquireFromPool, HandOut, OwnershipInv, MapTypeOK
  <2>4. \A d \in Class : ToSet(list'[d]) \subseteq ToSet(list[d]) /\ p \notin ToSet(list'[d])
    <3>1. list' = [list EXCEPT ![c] = Front(list[c])]
      BY <1>1 DEF AcquireFromPool
    <3>2. \A d \in Class \ {c} : p \notin ToSet(list[d])
      <4>1. size[p] = c
        BY <2>1, <2>2 DEF OwnershipInv, Ownership
      <4>2. \A d \in Class : \A q \in ToSet(list[d]) : size[q] = d
        BY DEF OwnershipInv, Ownership
      <4> HIDE DEF c
      <4> QED
        BY <4>1, <4>2
    <3>3. list'[c] = Front(list[c]) /\ \A d \in Class \ {c} : list'[d] = list[d]
      BY <2>1, <3>1 DEF OwnershipInv, MapTypeOK
    <3> HIDE DEF c
    <3> QED
      BY <2>1, <2>2, <3>2, <3>3
  <2>5. \A d \in Class : Once(list'[d])
    BY <1>1, <2>1, <2>2 DEF AcquireFromPool, OwnershipInv, MapTypeOK, Ownership
  <2>6. \A d \in Class : \A q \in ToSet(list'[d]) : size'[q] = d /\ held'[q] = 0
    <3> SUFFICES ASSUME NEW d \in Class, NEW q \in ToSet(list'[d])
                 PROVE  size'[q] = d /\ held'[q] = 0
      OBVIOUS
    <3>1. q \in ToSet(list[d]) /\ q # p
      BY <2>4
    <3> QED
      BY <1>1, <3>1 DEF AcquireFromPool, HandOut, OwnershipInv, MapTypeOK, Ownership
  <2>7. size[p] = c
    BY <2>1, <2>2 DEF OwnershipInv, Ownership
  <2>8. \A q \in Ptr : held'[q] # 0 => size'[q] = sizeClass(held'[q])
    BY <1>1, <2>7 DEF AcquireFromPool, HandOut, OwnershipInv, MapTypeOK, Ownership
  <2> QED
    BY <2>3, <2>5, <2>6, <2>8 DEF OwnershipInv, Ownership
<1>2. ASSUME NEW b \in Bytes, NEW p \in Ptr, AcquireFromDriver(b, p) PROVE OwnershipInv'
  <2>1. size[p] = 0 /\ sizeClass(b) \in Class
    BY <1>0, <1>2 DEF AcquireFromDriver, Grants
  <2>2. \A d \in Class : p \notin ToSet(list[d])
    BY <2>1 DEF OwnershipInv, Ownership
  <2>3. MapTypeOK'
    BY <1>2, <2>1 DEF AcquireFromDriver, HandOut, OwnershipInv, MapTypeOK
  <2> QED
    BY <1>2, <2>1, <2>2, <2>3 DEF AcquireFromDriver, HandOut, OwnershipInv, MapTypeOK, Ownership
<1>3. ASSUME NEW b \in Bytes, NEW p \in Ptr, AcquireAfterDrain(b, p) PROVE OwnershipInv'
  <2>1. Drained[p] = 0 /\ sizeClass(b) \in Class
    BY <1>0, <1>3 DEF AcquireAfterDrain, Grants
  <2>2. \A q \in Ptr : held[q] # 0 => q \notin Pooled /\ q # p
    BY <1>0, <2>1 DEF Drained, Pooled, OwnershipInv, MapTypeOK, Ownership
  <2>3. MapTypeOK'
    BY <1>3, <2>1 DEF AcquireAfterDrain, EmptyPool, HandOut, Drained, OwnershipInv, MapTypeOK
  <2>4. \A q \in Ptr : held'[q] # 0 => size'[q] = sizeClass(held'[q])
    BY <1>3, <2>1, <2>2 DEF AcquireAfterDrain, EmptyPool, HandOut, Drained, OwnershipInv, MapTypeOK, Ownership
  <2>5. \A d \in Class : Once(list'[d]) /\ ToSet(list'[d]) = {}
    BY <1>3 DEF AcquireAfterDrain, EmptyPool, Once, ToSet
  <2> QED
    BY <2>3, <2>4, <2>5 DEF OwnershipInv, Ownership
<1>4. ASSUME \/ drainPool
             \/ \E b \in Bytes : AcquireFails(b)
      PROVE  OwnershipInv'
  <2>1. /\ size' = Drained /\ EmptyPool /\ refused' \in Bytes \cup {0}
        /\ UNCHANGED << held, phase >>
    BY <1>4 DEF drainPool, AcquireFails
  <2>2. \A q \in Ptr : held[q] # 0 => q \notin Pooled
    BY DEF Pooled, OwnershipInv, MapTypeOK, Ownership
  <2>3. MapTypeOK'
    BY <2>1 DEF EmptyPool, Drained, OwnershipInv, MapTypeOK
  <2>4. \A d \in Class : Once(list'[d]) /\ ToSet(list'[d]) = {}
    BY <2>1 DEF EmptyPool, Once, ToSet
  <2>5. \A q \in Ptr : held'[q] # 0 => size'[q] = sizeClass(held'[q])
    BY <2>1, <2>2 DEF Drained, OwnershipInv, MapTypeOK, Ownership
  <2> QED
    BY <2>3, <2>4, <2>5 DEF OwnershipInv, Ownership
<1>5. ASSUME NEW p \in Ptr, Release(p) PROVE OwnershipInv'
  <2> DEFINE c == sizeClass(held[p])
  <2>1. c \in Class /\ list[c] \in Seq(Ptr) /\ size[p] = c /\ held[p] # 0
    BY <1>0, <1>5 DEF Release, OwnershipInv, MapTypeOK, Ownership
  <2>2. \A d \in Class : p \notin ToSet(list[d])
    BY <2>1 DEF OwnershipInv, Ownership
  <2>3. /\ Append(list[c], p) \in Seq(Ptr)
        /\ ToSet(Append(list[c], p)) = ToSet(list[c]) \cup {p}
        /\ Once(Append(list[c], p))
    <3>1. Once(list[c]) /\ p \notin ToSet(list[c])
      BY <2>1, <2>2 DEF OwnershipInv, Ownership
    <3> QED
      BY <2>1, <3>1, AppendToList
  <2>4. MapTypeOK'
    BY <1>5, <2>1, <2>3, TouchType DEF Release, EnterTrim, OwnershipInv, MapTypeOK
  <2> QED
    BY <1>5, <2>1, <2>2, <2>3, <2>4 DEF Release, OwnershipInv, MapTypeOK, Ownership
<1>6. ASSUME NEW p \in Ptr, FreeRaw(p) PROVE OwnershipInv'
  <2>1. \A d \in Class : p \notin ToSet(list[d])
    BY <1>6 DEF FreeRaw, OwnershipInv, Ownership
  <2> QED
    BY <1>6, <2>1 DEF FreeRaw, OwnershipInv, MapTypeOK, Ownership
<1>7. ASSUME TrimStep PROVE OwnershipInv'
  <2> DEFINE c == Head(order)
  <2>0. order \in Seq(Class) /\ order # << >>
    BY <1>7 DEF TrimStep, OwnershipInv, MapTypeOK
  <2>1. c \in Class /\ list[c] \in Seq(Ptr) /\ Tail(order) \in Seq(Class)
    <3>1. Head(order) \in Class /\ Tail(order) \in Seq(Class)
      BY <2>0
    <3> QED
      BY <3>1 DEF OwnershipInv, MapTypeOK
  <2>2. CASE list[c] = << >>
    <3>1. size' = size /\ list' = list /\ held' = held /\ refused' = refused
      BY <1>7, <2>1, <2>2 DEF TrimStep, OwnershipInv, MapTypeOK
    <3>2. order' \in Seq(Class) /\ phase' \in {"idle", "trim"}
      BY <1>7, <2>1 DEF TrimStep, OwnershipInv, MapTypeOK
    <3> QED
      BY <3>1, <3>2 DEF OwnershipInv, MapTypeOK, Ownership
  <2>3. CASE list[c] # << >>
    <3> DEFINE p == Last(list[c])
    <3>1. /\ Front(list[c]) \in Seq(Ptr)
          /\ p \in Ptr /\ p \in ToSet(list[c])
          /\ ToSet(Front(list[c])) \subseteq ToSet(list[c])
          /\ Once(Front(list[c])) /\ p \notin ToSet(Front(list[c]))
      BY <2>1, <2>3, FrontOfList DEF OwnershipInv, Ownership
    <3>2. /\ size' = [size EXCEPT ![p] = 0]
          /\ list' = [list EXCEPT ![c] = Front(list[c])]
          /\ held' = held /\ refused' = refused
      BY <1>7, <2>3 DEF TrimStep
    <3>3. order' \in Seq(Class) /\ phase' \in {"idle", "trim"}
      BY <1>7, <2>1 DEF TrimStep, OwnershipInv, MapTypeOK
    <3>4. MapTypeOK'
      BY <2>1, <3>1, <3>2, <3>3 DEF OwnershipInv, MapTypeOK
    <3>5. size[p] = c /\ held[p] = 0
      BY <2>1, <3>1 DEF OwnershipInv, Ownership
    <3>6. \A d \in Class : ToSet(list'[d]) \subseteq ToSet(list[d]) /\ p \notin ToSet(list'[d])
      <4>1. \A d \in Class \ {c} : p \notin ToSet(list[d])
        <5> HIDE DEF p, c
        <5> QED
          BY <3>5 DEF OwnershipInv, Ownership
      <4> QED
        BY <2>1, <3>1, <3>2, <4>1 DEF OwnershipInv, MapTypeOK
    <3>7. \A d \in Class : Once(list'[d])
      BY <2>1, <3>1, <3>2 DEF OwnershipInv, MapTypeOK, Ownership
    <3>8. \A d \in Class : \A q \in ToSet(list'[d]) : size'[q] = d /\ held'[q] = 0
      <4> SUFFICES ASSUME NEW d \in Class, NEW q \in ToSet(list'[d])
                   PROVE  size'[q] = d /\ held'[q] = 0
        OBVIOUS
      <4>1. q \in ToSet(list[d]) /\ q # p
        BY <3>6
      <4> QED
        BY <3>2, <4>1 DEF OwnershipInv, MapTypeOK, Ownership
    <3>9. \A q \in Ptr : held'[q] # 0 => size'[q] = sizeClass(held'[q])
      BY <3>2, <3>5 DEF OwnershipInv, MapTypeOK, Ownership
    <3> QED
      BY <3>4, <3>7, <3>8, <3>9 DEF OwnershipInv, Ownership
  <2> QED
    BY <2>2, <2>3
<1>8. ASSUME \/ \E l \in Limits : setPoolLimit(l)
             \/ resetPeakLiveBytes
             \/ UNCHANGED poolVars
      PROVE  OwnershipInv'
  BY <1>8 DEF setPoolLimit, EnterTrim, resetPeakLiveBytes, poolVars,
              OwnershipInv, MapTypeOK, Ownership
<1> QED
  BY <1>1, <1>2, <1>3, <1>4, <1>5, <1>6, <1>7, <1>8 DEF Next, Acquire

-----------------------------------------------------------------------------
\* Touching a class makes it the last key and keeps the others.
LEMMA TouchOrder ==
    ASSUME NEW S, NEW s \in Seq(S), NEW c \in S, Once(s)
    PROVE  /\ ToSet(Append(Without(s, c), c)) = ToSet(s) \cup {c}
           /\ Once(Append(Without(s, c), c))
<1>1. /\ Without(s, c) \in Seq(S) /\ Once(Without(s, c))
      /\ ToSet(Without(s, c)) = ToSet(s) \ {c}
  BY WithoutEntry
<1> QED
  BY <1>1, AppendToList

\* The loop drops the oldest key.
LEMMA DropOldest ==
    ASSUME NEW S, NEW s \in Seq(S), s # << >>, Once(s)
    PROVE  /\ Tail(s) \in Seq(S) /\ Once(Tail(s))
           /\ ToSet(s) = ToSet(Tail(s)) \cup {Head(s)}
<1>1. /\ Tail(s) \in Seq(S) /\ Len(s) \in Nat \ {0} /\ Len(Tail(s)) = Len(s) - 1
      /\ Head(s) = s[1] /\ \A i \in 1..Len(Tail(s)) : Tail(s)[i] = s[i + 1]
  OBVIOUS
<1>2. Once(Tail(s))
  BY <1>1 DEF Once
<1>3. ASSUME NEW x \in ToSet(s) PROVE x \in ToSet(Tail(s)) \cup {Head(s)}
  <2>1. PICK i \in 1..Len(s) : s[i] = x
    BY DEF ToSet
  <2>2. CASE i = 1
    BY <1>1, <2>1, <2>2
  <2>3. CASE i # 1
    <3>1. i - 1 \in 1..Len(Tail(s)) /\ Tail(s)[i - 1] = x
      BY <1>1, <2>1, <2>3
    <3>2. DOMAIN Tail(s) = 1..Len(Tail(s))
      BY <1>1
    <3>3. x \in ToSet(Tail(s))
      BY <3>1, <3>2 DEF ToSet
    <3> QED
      BY <3>3
  <2> QED
    BY <2>2, <2>3
<1>4. ToSet(Tail(s)) \cup {Head(s)} \subseteq ToSet(s)
  BY <1>1 DEF ToSet
<1> QED
  BY <1>1, <1>2, <1>3, <1>4

\* Popping takes the newest pointer and leaves the others.
LEMMA PopNewest ==
    ASSUME NEW S, NEW s \in Seq(S), s # << >>
    PROVE  ToSet(s) = ToSet(Front(s)) \cup {Last(s)}
<1>1. /\ Len(s) \in Nat \ {0} /\ Front(s) = [i \in 1..(Len(s) - 1) |-> s[i]]
      /\ Last(s) = s[Len(s)] /\ DOMAIN s = 1..Len(s)
  BY DEF Front, Last
<1> QED
  BY <1>1 DEF ToSet

\* Nothing is allocated at first.
LEMMA InitReach == Init => NoLeak
  BY DEF Init, NoLeak, Once, ToSet

\* Every operation keeps all memory within reach.
LEMMA NextReach == OwnershipInv /\ NoLeak /\ [Next]_poolVars => NoLeak'
<1> SUFFICES ASSUME OwnershipInv, NoLeak, [Next]_poolVars PROVE NoLeak'
  OBVIOUS
<1> USE ClassPositive
<1>0. \A b \in Bytes : sizeClass(b) \in Class
  BY DEF Class
<1>a. /\ order \in Seq(Class) /\ Once(order) /\ list \in [Class -> Seq(Ptr)]
      /\ held \in [Ptr -> Bytes \cup {0}] /\ size \in [Ptr -> Class \cup {0}]
  BY DEF OwnershipInv, MapTypeOK, NoLeak
<1>1. ASSUME NEW b \in Bytes, NEW p \in Ptr, AcquireFromPool(b, p) PROVE NoLeak'
  <2> DEFINE c == sizeClass(b)
  <2>1. /\ c \in Class /\ list[c] # << >> /\ p = Last(list[c])
        /\ order' = Append(Without(order, c), c)
        /\ list' = [list EXCEPT ![c] = Front(list[c])]
        /\ size' = size /\ held' = [held EXCEPT ![p] = b]
    BY <1>0, <1>1 DEF AcquireFromPool, HandOut
  <2> HIDE DEF c
  <2>2. ToSet(order') = ToSet(order) \cup {c} /\ Once(order')
    BY <1>a, <2>1, TouchOrder
  <2>3. \A d \in Class : list'[d] # << >> => d \in ToSet(order')
    BY <1>a, <2>1, <2>2 DEF NoLeak
  <2>4. b # 0
    BY BytesAssumption
  <2>5. \A q \in ToSet(list[c]) : q = p \/ q \in ToSet(Front(list[c]))
    BY <1>a, <2>1, PopNewest
  <2>6. ASSUME NEW q \in Ptr, size'[q] # 0 PROVE held'[q] # 0 \/ q \in Pooled'
    <3>1. CASE q = p
      BY <1>a, <2>1, <2>4, <3>1
    <3>2. CASE q # p /\ held[q] # 0
      BY <1>a, <2>1, <3>2
    <3>3. CASE q # p /\ q \in Pooled
      <4>1. PICK d \in Class : q \in ToSet(list[d])
        BY <3>3 DEF Pooled
      <4>2. q \in ToSet(list'[d])
        BY <1>a, <2>1, <2>5, <3>3, <4>1
      <4> QED
        BY <4>2 DEF Pooled
    <3> QED
      BY <2>1, <2>6, <3>1, <3>2, <3>3 DEF NoLeak
  <2> QED
    BY <2>2, <2>3, <2>6 DEF NoLeak
<1>2. ASSUME NEW b \in Bytes, NEW p \in Ptr, AcquireFromDriver(b, p) PROVE NoLeak'
  <2>1. b # 0
    BY BytesAssumption
  <2>2. Pooled' = Pooled
    BY <1>2 DEF AcquireFromDriver, Pooled
  <2> QED
    BY <1>a, <1>2, <2>1, <2>2 DEF AcquireFromDriver, HandOut, NoLeak
<1>3. ASSUME NEW b \in Bytes, NEW p \in Ptr, AcquireAfterDrain(b, p) PROVE NoLeak'
  <2>1. b # 0
    BY BytesAssumption
  <2>2. ASSUME NEW q \in Ptr, size'[q] # 0 PROVE held'[q] # 0
    BY <1>a, <1>3, <2>1, <2>2 DEF AcquireAfterDrain, HandOut, Drained, NoLeak
  <2> QED
    BY <1>3, <2>2 DEF AcquireAfterDrain, EmptyPool, NoLeak, Once
<1>4. ASSUME drainPool \/ \E b \in Bytes : AcquireFails(b) PROVE NoLeak'
  <2>1. size' = Drained /\ EmptyPool /\ held' = held
    BY <1>4 DEF drainPool, AcquireFails
  <2>2. ASSUME NEW q \in Ptr, size'[q] # 0 PROVE held'[q] # 0
    BY <1>a, <2>1, <2>2 DEF Drained, NoLeak
  <2> QED
    BY <2>1, <2>2 DEF EmptyPool, NoLeak, Once
<1>5. ASSUME NEW p \in Ptr, Release(p) PROVE NoLeak'
  <2> DEFINE c == sizeClass(held[p])
  <2>1. /\ c \in Class
        /\ order' = Append(Without(order, c), c)
        /\ list' = [list EXCEPT ![c] = Append(list[c], p)]
        /\ size' = size /\ held' = [held EXCEPT ![p] = 0]
    BY <1>0, <1>a, <1>5 DEF Release
  <2> HIDE DEF c
  <2>2. ToSet(order') = ToSet(order) \cup {c} /\ Once(order')
    BY <1>a, <2>1, TouchOrder
  <2>3. \A d \in Class : list'[d] # << >> => d \in ToSet(order')
    BY <1>a, <2>1, <2>2 DEF NoLeak
  <2>4. ToSet(list'[c]) = ToSet(list[c]) \cup {p} /\ \A d \in Class : d # c => list'[d] = list[d]
    BY <1>a, <2>1, AppendToList
  <2>5. Pooled \cup {p} \subseteq Pooled'
    BY <2>1, <2>4 DEF Pooled
  <2>6. \A q \in Ptr : size'[q] # 0 => held'[q] # 0 \/ q \in Pooled'
    BY <1>a, <2>1, <2>5 DEF NoLeak
  <2> QED
    BY <2>2, <2>3, <2>6 DEF NoLeak
<1>6. ASSUME NEW p \in Ptr, FreeRaw(p) PROVE NoLeak'
  <2>1. Pooled' = Pooled
    BY <1>6 DEF FreeRaw, Pooled
  <2> QED
    BY <1>a, <1>6, <2>1 DEF FreeRaw, NoLeak
<1>7. ASSUME TrimStep PROVE NoLeak'
  <2> DEFINE c == Head(order)
             rest == IF list[c] = << >> THEN list[c] ELSE Front(list[c])
  <2>1. /\ order # << >> /\ c \in Class
        /\ list' = [list EXCEPT ![c] = rest]
        /\ order' = IF rest = << >> THEN Tail(order) ELSE order
        /\ size' = IF list[c] = << >> THEN size ELSE [size EXCEPT ![Last(list[c])] = 0]
        /\ held' = held
    <3>1. order # << >>
      BY <1>7 DEF TrimStep
    <3>2. c \in Class
      BY <1>a, <3>1
    <3> QED
      BY <1>7, <3>1, <3>2 DEF TrimStep
  <2>2. \A q \in ToSet(list[c]) : list[c] # << >> /\ (q = Last(list[c]) \/ q \in ToSet(rest))
    <3>1. list[c] = << >> => ToSet(list[c]) = {}
      BY DEF ToSet
    <3>2. list[c] \in Seq(Ptr)
      BY <1>a, <2>1
    <3> QED
      BY <3>1, <3>2, PopNewest
  <2> HIDE DEF c, rest
  <2>3. list'[c] = rest /\ \A d \in Class : d # c => list'[d] = list[d]
    BY <1>a, <2>1
  <2>4. Once(order') /\ ToSet(order) \subseteq ToSet(order') \cup {c}
        /\ (rest # << >> => c \in ToSet(order'))
    <3>1. /\ Once(Tail(order)) /\ ToSet(order) = ToSet(Tail(order)) \cup {c}
      BY <1>a, <2>1, DropOldest DEF c
    <3> QED
      BY <1>a, <2>1, <3>1
  <2>5. \A d \in Class : list'[d] # << >> => d \in ToSet(order')
    BY <2>3, <2>4 DEF NoLeak
  <2>6. ASSUME NEW q \in Ptr, size'[q] # 0 PROVE held'[q] # 0 \/ q \in Pooled'
    <3>1. size[q] # 0 /\ (list[c] # << >> => q # Last(list[c]))
      BY <1>a, <2>1, <2>6
    <3>2. CASE q \in Pooled
      <4>1. PICK d \in Class : q \in ToSet(list[d])
        BY <3>2 DEF Pooled
      <4>2. q \in ToSet(list'[d])
        BY <2>2, <2>3, <3>1, <4>1
      <4> QED
        BY <4>2 DEF Pooled
    <3> QED
      BY <2>1, <3>1, <3>2 DEF NoLeak
  <2> QED
    BY <2>4, <2>5, <2>6 DEF NoLeak
<1>8. ASSUME \/ \E l \in Limits : setPoolLimit(l)
             \/ resetPeakLiveBytes
             \/ UNCHANGED poolVars
      PROVE  NoLeak'
  BY <1>8 DEF setPoolLimit, resetPeakLiveBytes, poolVars, NoLeak, Pooled
<1> QED
  BY <1>1, <1>2, <1>3, <1>4, <1>5, <1>6, <1>7, <1>8 DEF Next, Acquire

-----------------------------------------------------------------------------
\* The counters, with what their steps need: the limit is never negative.
CountInv ==
    /\ {pooledBytes, liveBytes, peakLiveBytes, poolCap, rawFreed} \subseteq Int
    /\ poolCap >= 0
    /\ Accounting
    /\ WithinLimit

\* Accounting in terms of the sums the lemmas are about.
LEMMA CountMeaning ==
    CountInv <=>
        /\ pooledBytes \in Int /\ liveBytes \in Int /\ peakLiveBytes \in Int
        /\ poolCap \in Int /\ rawFreed \in Int /\ poolCap >= 0
        /\ pooledBytes = PoolSum(list)
        /\ liveBytes = HeldSum(held) + rawFreed
        /\ peakLiveBytes >= liveBytes
        /\ phase = "idle" /\ poolCap # 0 => pooledBytes <= poolCap
<1>1. HeldBytes = HeldSum(held)
  BY DEF HeldBytes, HeldSum, HeldClass
<1>2. SumFunction([c \in Class |-> c * Len(list[c])]) = PoolSum(list)
  BY DEF PoolSum
<1> QED
  BY <1>1, <1>2 DEF CountInv, Accounting, WithinLimit

\* The same after a step.
LEMMA CountMeaningNext ==
    CountInv' <=>
        /\ pooledBytes' \in Int /\ liveBytes' \in Int /\ peakLiveBytes' \in Int
        /\ poolCap' \in Int /\ rawFreed' \in Int /\ poolCap' >= 0
        /\ pooledBytes' = PoolSum(list')
        /\ liveBytes' = HeldSum(held') + rawFreed'
        /\ peakLiveBytes' >= liveBytes'
        /\ phase' = "idle" /\ poolCap' # 0 => pooledBytes' <= poolCap'
<1>1. HeldBytes' = HeldSum(held')
  BY DEF HeldBytes, HeldSum, HeldClass
<1>2. SumFunction([c \in Class |-> c * Len(list'[c])]) = PoolSum(list')
  BY DEF PoolSum
<1> QED
  BY <1>1, <1>2 DEF CountInv, Accounting, WithinLimit

\* What the driver has allocated is a number of bytes.
LEMMA UsedBytesType ==
    ASSUME NEW sz \in [Ptr -> Class \cup {0}]
    PROVE  UsedBytes(sz) \in Int
<1>0. Class \cup {0} \subseteq Int
  BY ClassPositive
<1>1. sz \in [Ptr -> Int]
  BY <1>0
<1> QED
  BY <1>1, DeviceAssumption, SumType DEF UsedBytes

\* The computed limit is never 0, the mark of a limit not yet computed.
LEMMA DefaultLimitType == MapTypeOK => DefaultLimit \in Int /\ DefaultLimit >= 1
<1> SUFFICES ASSUME MapTypeOK PROVE DefaultLimit \in Int /\ DefaultLimit >= 1
  OBVIOUS
<1>1. FreeBytes(size) \in Int
  BY UsedBytesType, DeviceAssumption DEF FreeBytes, MapTypeOK
<1>2. FreeDivisor \in Nat \ {0} /\ MinPoolBytes \in Nat \ {0}
  BY DeviceAssumption
<1>3. FreeBytes(size) \div FreeDivisor \in Int
  BY <1>1, <1>2
<1> DEFINE free == FreeBytes(size) \div FreeDivisor
<1>4. Max({free, MinPoolBytes}) \in Int /\ Max({free, MinPoolBytes}) >= MinPoolBytes
  <2>1. free \in Int /\ MinPoolBytes \in Int
    BY <1>2, <1>3
  <2> HIDE DEF free
  <2> QED
    BY <2>1, MaxOfTwo
<1> QED
  BY <1>2, <1>4 DEF DefaultLimit

\* All counters start at 0.
LEMMA InitCount == Init => CountInv
<1> SUFFICES ASSUME Init PROVE CountInv
  OBVIOUS
<1>1. PoolSum(list) = 0
  <2>1. list \in [Class -> Seq(Ptr)] /\ \A c \in Class : list[c] = << >>
    BY DEF Init
  <2> QED
    BY <2>1, PoolSumEmpty
<1>2. HeldSum(held) = 0
  <2> DEFINE f == [p \in Ptr |-> HeldClass(held[p])]
  <2>1. f \in [Ptr -> Int] /\ \A p \in Ptr : f[p] = 0
    BY DEF Init, HeldClass
  <2> HIDE DEF f
  <2>2. SumFunction(f) = 0
    BY <2>1, DeviceAssumption, SumZero
  <2> QED
    BY <2>2 DEF HeldSum, f
<1> QED
  BY <1>1, <1>2, CountMeaning DEF Init

\* Every operation keeps the counters right and the pool within its limit.
LEMMA NextCount == OwnershipInv /\ NoLeak /\ CountInv /\ [Next]_poolVars => CountInv'
<1> SUFFICES ASSUME OwnershipInv, NoLeak, CountInv, [Next]_poolVars PROVE CountInv'
  OBVIOUS
<1>a. /\ list \in [Class -> Seq(Ptr)] /\ held \in [Ptr -> Bytes \cup {0}]
      /\ order \in Seq(Class)
      /\ \A b \in Bytes : sizeClass(b) \in Class /\ sizeClass(b) \in Nat
  BY SizeClass DEF OwnershipInv, MapTypeOK, Class
<1>b. /\ pooledBytes \in Int /\ liveBytes \in Int /\ peakLiveBytes \in Int
      /\ poolCap \in Int /\ rawFreed \in Int /\ poolCap >= 0
      /\ pooledBytes = PoolSum(list)
      /\ liveBytes = HeldSum(held) + rawFreed
      /\ peakLiveBytes >= liveBytes
      /\ phase = "idle" /\ poolCap # 0 => pooledBytes <= poolCap
  BY CountMeaning
\* What HandOut does to the counters of held bytes.
<1>c. ASSUME NEW b \in Bytes, NEW p \in Ptr, HandOut(b, p), held[p] = 0
      PROVE  /\ liveBytes' \in Int /\ peakLiveBytes' \in Int
             /\ liveBytes' = HeldSum(held') + rawFreed'
             /\ peakLiveBytes' >= liveBytes'
             /\ UNCHANGED << poolCap, phase, rawFreed >>
  <2>1. /\ HeldSum(held) \in Nat
        /\ HeldSum(held') = HeldSum(held) + sizeClass(b)
    <3>1. held' = [held EXCEPT ![p] = b]
      BY <1>c DEF HandOut
    <3>2. HeldClass(held[p]) = 0 /\ HeldClass(b) = sizeClass(b)
      BY <1>c, BytesAssumption DEF HeldClass
    <3>3. /\ HeldSum(held) \in Nat
          /\ HeldSum([held EXCEPT ![p] = b]) = HeldSum(held) - HeldClass(held[p]) + HeldClass(b)
      BY <1>a, HeldSumMoves
    <3> QED
      BY <1>a, <3>1, <3>2, <3>3
  <2>2. /\ liveBytes + sizeClass(b) \in Int
        /\ peakLiveBytes' \in Int /\ peakLiveBytes' >= liveBytes + sizeClass(b)
    <3> DEFINE n == liveBytes + sizeClass(b)
    <3>1. n \in Int /\ peakLiveBytes \in Int
      BY <1>a, <1>b
    <3>2. peakLiveBytes' = Max({peakLiveBytes, n})
      BY <1>c DEF HandOut
    <3> HIDE DEF n
    <3>3. n \in Int /\ peakLiveBytes' \in Int /\ peakLiveBytes' >= n
      BY <3>1, <3>2, MaxOfTwo
    <3> QED
      BY <3>3 DEF n
  <2> QED
    BY <1>a, <1>b, <1>c, <2>1, <2>2 DEF HandOut
\* An emptied pool.
<1>d. ASSUME EmptyPool PROVE pooledBytes' = 0 /\ PoolSum(list') = 0
  <2>1. list' \in [Class -> Seq(Ptr)] /\ \A d \in Class : list'[d] = << >>
    BY <1>d DEF EmptyPool
  <2> QED
    BY <1>d, <2>1, PoolSumEmpty DEF EmptyPool
<1>1. ASSUME NEW b \in Bytes, NEW p \in Ptr, AcquireFromPool(b, p) PROVE CountInv'
  <2> DEFINE c == sizeClass(b)
  <2>1. /\ c \in Class /\ c \in Nat /\ list[c] \in Seq(Ptr) /\ list[c] # << >> /\ p = Last(list[c])
        /\ list' = [list EXCEPT ![c] = Front(list[c])]
        /\ pooledBytes' = pooledBytes - c
        /\ HandOut(b, p) /\ phase = "idle"
    BY <1>a, <1>1 DEF AcquireFromPool
  <2> HIDE DEF c
  <2>2. held[p] = 0
    <3>1. p \in ToSet(list[c])
      BY <2>1, FrontOfList
    <3> QED
      BY <2>1, <3>1 DEF OwnershipInv, Ownership
  <2>3. Front(list[c]) \in Seq(Ptr) /\ Len(Front(list[c])) = Len(list[c]) - 1
    BY <2>1 DEF Front
  <2>4. PoolSum(list') = PoolSum(list) - c
    BY <1>a, <2>1, <2>3, PoolSumMoves
  <2>5. /\ liveBytes' \in Int /\ peakLiveBytes' \in Int
        /\ liveBytes' = HeldSum(held') + rawFreed'
        /\ peakLiveBytes' >= liveBytes'
        /\ UNCHANGED << poolCap, phase, rawFreed >>
    BY <1>c, <2>1, <2>2
  <2> QED
    BY <1>b, <2>1, <2>4, <2>5, CountMeaningNext
<1>2. ASSUME NEW b \in Bytes, NEW p \in Ptr, AcquireFromDriver(b, p) PROVE CountInv'
  <2>1. HandOut(b, p) /\ size[p] = 0 /\ UNCHANGED << list, pooledBytes >>
    BY <1>2 DEF AcquireFromDriver, Grants
  <2>2. held[p] = 0
    BY <1>a, <2>1, ClassPositive DEF OwnershipInv, Ownership
  <2> QED
    BY <1>b, <1>c, <2>1, <2>2, CountMeaningNext
<1>3. ASSUME NEW b \in Bytes, NEW p \in Ptr, AcquireAfterDrain(b, p) PROVE CountInv'
  <2>1. HandOut(b, p) /\ Drained[p] = 0 /\ EmptyPool
    BY <1>3 DEF AcquireAfterDrain, Grants
  <2>2. held[p] = 0
    BY <1>a, <2>1, ClassPositive DEF Drained, Pooled, OwnershipInv, Ownership
  <2> QED
    BY <1>b, <1>c, <1>d, <2>1, <2>2, CountMeaningNext
<1>4. ASSUME drainPool \/ \E b \in Bytes : AcquireFails(b) PROVE CountInv'
  <2>1. EmptyPool /\ UNCHANGED << liveBytes, peakLiveBytes, poolCap, phase, held, rawFreed >>
    BY <1>4 DEF drainPool, AcquireFails
  <2> QED
    BY <1>b, <1>d, <2>1, CountMeaningNext
<1>5. ASSUME NEW p \in Ptr, Release(p) PROVE CountInv'
  <2> DEFINE c == sizeClass(held[p])
  <2>1. /\ c \in Class /\ c \in Nat /\ list[c] \in Seq(Ptr)
        /\ list' = [list EXCEPT ![c] = Append(list[c], p)]
        /\ pooledBytes' = pooledBytes + c
        /\ liveBytes' = liveBytes - c
        /\ held' = [held EXCEPT ![p] = 0]
        /\ EnterTrim(poolCap, pooledBytes + c)
        /\ UNCHANGED << peakLiveBytes, rawFreed >>
    BY <1>a, <1>5 DEF Release
  <2>2. HeldClass(held[p]) = c /\ HeldClass(0) = 0
    BY <1>5 DEF Release, HeldClass
  <2> HIDE DEF c
  <2>3. Append(list[c], p) \in Seq(Ptr) /\ Len(Append(list[c], p)) = Len(list[c]) + 1
    BY <2>1
  <2>4. PoolSum(list') = PoolSum(list) + c
    BY <1>a, <2>1, <2>3, PoolSumMoves
  <2>5. HeldSum(held') = HeldSum(held) - c /\ HeldSum(held) \in Nat
    <3>1. /\ HeldSum(held) \in Nat
          /\ HeldSum([held EXCEPT ![p] = 0]) = HeldSum(held) - HeldClass(held[p]) + HeldClass(0)
      BY <1>a, HeldSumMoves
    <3> QED
      BY <2>1, <2>2, <3>1
  <2>6. /\ poolCap' \in Int /\ poolCap' >= 0
        /\ phase' = "idle" => pooledBytes + c <= poolCap'
    BY <1>b, <2>1, DefaultLimitType DEF EnterTrim, OwnershipInv
  <2>7. pooledBytes' \in Int /\ pooledBytes' = PoolSum(list')
    BY <1>b, <2>1, <2>4
  <2>8. /\ liveBytes' \in Int /\ peakLiveBytes' \in Int /\ rawFreed' \in Int
        /\ liveBytes' = HeldSum(held') + rawFreed' /\ peakLiveBytes' >= liveBytes'
    <3>1. c \in Nat /\ liveBytes' = liveBytes - c /\ UNCHANGED << peakLiveBytes, rawFreed >>
      BY <2>1
    <3> QED
      BY <1>b, <2>5, <3>1
  <2>9. phase' = "idle" /\ poolCap' # 0 => pooledBytes' <= poolCap'
    BY <2>1, <2>6
  <2> QED
    BY <2>6, <2>7, <2>8, <2>9, CountMeaningNext
<1>6. ASSUME NEW p \in Ptr, FreeRaw(p) PROVE CountInv'
  <2> DEFINE c == sizeClass(held[p])
  <2>1. /\ c \in Nat
        /\ held' = [held EXCEPT ![p] = 0]
        /\ rawFreed' = rawFreed + c
        /\ UNCHANGED << list, pooledBytes, liveBytes, peakLiveBytes, poolCap, phase >>
    BY <1>a, <1>6 DEF FreeRaw
  <2>2. HeldClass(held[p]) = c /\ HeldClass(0) = 0
    BY <1>6 DEF FreeRaw, HeldClass
  <2>3. /\ HeldSum(held) \in Nat
        /\ HeldSum([held EXCEPT ![p] = 0]) = HeldSum(held) - HeldClass(held[p]) + HeldClass(0)
    BY <1>a, HeldSumMoves
  <2> HIDE DEF c
  <2> QED
    BY <1>b, <2>1, <2>2, <2>3, CountMeaningNext
<1>7. ASSUME TrimStep PROVE CountInv'
  <2> DEFINE c == Head(order)
  <2>1. order # << >> /\ c \in Class /\ c \in Nat /\ list[c] \in Seq(Ptr)
    <3>1. order # << >>
      BY <1>7 DEF TrimStep
    <3>2. c \in Class
      BY <1>a, <3>1
    <3> QED
      BY <1>a, <3>1, <3>2, ClassPositive
  <2>2. UNCHANGED << liveBytes, peakLiveBytes, poolCap, held, rawFreed >>
    BY <1>7 DEF TrimStep
  <2>3. pooledBytes' = PoolSum(list') /\ pooledBytes' \in Int
    <3>1. CASE list[c] = << >>
      <4>1. pooledBytes' = pooledBytes /\ list' = list
        BY <1>7, <1>a, <2>1, <3>1 DEF TrimStep
      <4> QED
        BY <1>b, <4>1
    <3>2. CASE list[c] # << >>
      <4>1. pooledBytes' = pooledBytes - c /\ list' = [list EXCEPT ![c] = Front(list[c])]
        BY <1>7, <3>2 DEF TrimStep
      <4>2. Front(list[c]) \in Seq(Ptr) /\ Len(Front(list[c])) = Len(list[c]) - 1
        BY <2>1, <3>2 DEF Front
      <4> HIDE DEF c
      <4>3. PoolSum(list') = PoolSum(list) - c
        BY <1>a, <2>1, <4>1, <4>2, PoolSumMoves
      <4> QED
        BY <1>b, <2>1, <4>1, <4>3
    <3> QED
      BY <3>1, <3>2
  <2>4. phase' = "idle" => pooledBytes' <= poolCap \/ order' = << >>
    BY <1>7 DEF TrimStep
  <2>5. order' = << >> => pooledBytes' = 0
    <3> SUFFICES ASSUME order' = << >> PROVE PoolSum(list') = 0
      BY <2>3
    <3>1. NoLeak' /\ OwnershipInv'
      BY NextReach, NextOwnership
    <3>2. ToSet(order') = {}
      BY DEF ToSet
    <3>3. \A d \in Class : list'[d] = << >>
      BY <3>1, <3>2 DEF NoLeak
    <3>4. list' \in [Class -> Seq(Ptr)]
      BY <3>1 DEF OwnershipInv, MapTypeOK
    <3> QED
      BY <3>3, <3>4, PoolSumEmpty
  <2> QED
    BY <1>b, <2>2, <2>3, <2>4, <2>5, CountMeaningNext
<1>8. ASSUME NEW l \in Limits, setPoolLimit(l) PROVE CountInv'
  <2>1. l \in Int /\ Max({l, 0}) \in Int /\ Max({l, 0}) >= 0
    <3>1. l \in Int /\ 0 \in Int
      BY BytesAssumption
    <3> QED
      BY <3>1, MaxOfTwo
  <2>2. /\ EnterTrim(Max({l, 0}), pooledBytes)
        /\ UNCHANGED << list, pooledBytes, liveBytes, peakLiveBytes, held, rawFreed >>
    BY <1>8 DEF setPoolLimit
  <2>3. /\ poolCap' \in Int /\ poolCap' >= 0
        /\ phase' = "idle" => pooledBytes <= poolCap'
    BY <1>b, <2>1, <2>2, DefaultLimitType DEF EnterTrim, OwnershipInv
  <2> QED
    BY <1>b, <2>2, <2>3, CountMeaningNext
<1>9. ASSUME resetPeakLiveBytes PROVE CountInv'
  BY <1>b, <1>9, CountMeaningNext DEF resetPeakLiveBytes
<1>10. ASSUME UNCHANGED poolVars PROVE CountInv'
  BY <1>b, <1>10, CountMeaningNext DEF poolVars
<1> QED
  BY <1>1, <1>2, <1>3, <1>4, <1>5, <1>6, <1>7, <1>8, <1>9, <1>10 DEF Next, Acquire

\* Once the pool is drained the driver has allocated what callers hold.
LEMMA DrainedIsHeld == OwnershipInv /\ NoLeak => UsedBytes(Drained) = HeldBytes
<1> SUFFICES ASSUME OwnershipInv, NoLeak PROVE UsedBytes(Drained) = HeldBytes
  OBVIOUS
<1>1. ASSUME NEW p \in Ptr
      PROVE  Drained[p] = IF held[p] = 0 THEN 0 ELSE sizeClass(held[p])
  <2>1. p \in Pooled => held[p] = 0
    BY DEF Pooled, OwnershipInv, Ownership
  <2> QED
    BY <2>1 DEF Drained, OwnershipInv, Ownership, NoLeak
<1>2. Drained = [p \in Ptr |-> IF held[p] = 0 THEN 0 ELSE sizeClass(held[p])]
  BY <1>1 DEF Drained
<1> QED
  BY <1>2 DEF UsedBytes, HeldBytes

\* When every address is held, the device is full.
LEMMA AllHeld ==
    OwnershipInv /\ (\A p \in Ptr : held[p] # 0) => HeldBytes >= DeviceBytes /\ HeldBytes \in Int
<1> SUFFICES ASSUME OwnershipInv, \A p \in Ptr : held[p] # 0
             PROVE  HeldBytes >= DeviceBytes /\ HeldBytes \in Int
  OBVIOUS
<1> DEFINE f == [p \in Ptr |-> IF held[p] = 0 THEN 0 ELSE sizeClass(held[p])]
<1>1. \A p \in Ptr : f[p] \in Int /\ f[p] >= 512
  BY SizeClass DEF OwnershipInv, MapTypeOK
<1>2. f \in [Ptr -> Int]
  BY <1>1
<1>3. HeldBytes = SumFunction(f)
  BY DEF HeldBytes
<1> HIDE DEF f
<1>4. SumFunction(f) >= 512 * Cardinality(Ptr) /\ SumFunction(f) \in Int
  BY <1>1, <1>2, DeviceAssumption, SumAtLeast, SumType
<1>5. DeviceBytes \in Int /\ DeviceBytes <= 512 * Cardinality(Ptr) /\ Cardinality(Ptr) \in Int
  BY DeviceAssumption, FS_CardinalityType
<1> QED
  BY <1>3, <1>4, <1>5

\* Every operation keeps NoSpuriousOOM.
LEMMA NextRefused ==
    OwnershipInv /\ NoLeak /\ NoSpuriousOOM /\ [Next]_poolVars => NoSpuriousOOM'
<1> SUFFICES ASSUME OwnershipInv, NoLeak, NoSpuriousOOM, [Next]_poolVars
             PROVE  NoSpuriousOOM'
  OBVIOUS
<1>1. ASSUME NEW b \in Bytes, AcquireFails(b) PROVE NoSpuriousOOM'
  <2> DEFINE c == sizeClass(b)
  <2>1. Refuses(Drained, c) /\ refused' = b /\ held' = held
    BY <1>1 DEF AcquireFails
  <2>2. c \in Nat /\ c >= 512 /\ DeviceBytes \in Int
    BY SizeClass, DeviceAssumption
  <2>3. HeldBytes' = HeldBytes
    BY <2>1 DEF HeldBytes
  <2>4. HeldBytes + c > DeviceBytes
    <3>1. CASE \E p \in Ptr : Drained[p] = 0
      <4>1. ~(UsedBytes(Drained) + c <= DeviceBytes)
        BY <2>1, <3>1 DEF Refuses, Grants
      <4>2. UsedBytes(Drained) \in Int
        <5>1. Drained \in [Ptr -> Class \cup {0}]
          BY DEF Drained, OwnershipInv, MapTypeOK
        <5> QED
          BY <5>1, UsedBytesType
      <4>3. UsedBytes(Drained) = HeldBytes
        BY DrainedIsHeld
      <4> QED
        BY <2>2, <4>1, <4>2, <4>3
    <3>2. CASE \A p \in Ptr : Drained[p] # 0
      <4>1. \A p \in Ptr : held[p] # 0
        BY <3>2 DEF Drained, NoLeak
      <4>2. HeldBytes >= DeviceBytes /\ HeldBytes \in Int
        BY <4>1, AllHeld
      <4> QED
        BY <2>2, <4>2
    <3> QED
      BY <3>1, <3>2
  <2> QED
    BY <2>1, <2>3, <2>4 DEF NoSpuriousOOM
<1>2. ASSUME \/ TrimStep
             \/ UNCHANGED poolVars
      PROVE  NoSpuriousOOM'
  BY <1>2 DEF TrimStep, poolVars, NoSpuriousOOM, HeldBytes
<1>3. ASSUME \/ \E b \in Bytes, p \in Ptr : Acquire(b, p)
             \/ \E p \in Ptr : Release(p) \/ FreeRaw(p)
             \/ \E l \in Limits : setPoolLimit(l)
             \/ drainPool
             \/ resetPeakLiveBytes
      PROVE  NoSpuriousOOM'
  BY <1>3 DEF Acquire, AcquireFromPool, AcquireFromDriver, AcquireAfterDrain, HandOut,
              Release, FreeRaw, setPoolLimit, drainPool, resetPeakLiveBytes, NoSpuriousOOM
<1> QED
  BY <1>1, <1>2, <1>3 DEF Next


-----------------------------------------------------------------------------
\* The whole of what the pool keeps.
PoolInv == OwnershipInv /\ NoLeak /\ CountInv /\ NoSpuriousOOM

\* A new pool has all of it.
LEMMA InitPool == Init => PoolInv
  BY InitOwnership, InitReach, InitCount DEF PoolInv, Init, NoSpuriousOOM

\* Every step of the pool, whoever takes it, keeps all of it.
LEMMA NextPool == PoolInv /\ [Next]_poolVars => PoolInv'
  BY NextOwnership, NextReach, NextCount, NextRefused DEF PoolInv

\* So it holds in every behaviour of the pool.
LEMMA PoolInvariant == Spec => []PoolInv
  BY InitPool, NextPool, PTL DEF Spec

(* Type correctness of the pool, counters included.                         *)
THEOREM PoolTypes == Spec => []TypeOK
<1>1. PoolInv => TypeOK
  BY DEF PoolInv, OwnershipInv, CountInv, TypeOK
<1> QED
  BY <1>1, PoolInvariant, PTL DEF Spec

(* No memory is out of reach: every allocation of the driver is held or in  *)
(* a free list, and every list that has a pointer is under a key of the map *)
(* the trimming loop will come to.                                          *)
THEOREM PoolNoLeak == Spec => []NoLeak
<1>1. PoolInv => NoLeak
  BY DEF PoolInv
<1> QED
  BY <1>1, PoolInvariant, PTL DEF Spec

(* The byte counters are the sums they are named after, after any mix of    *)
(* drains, retries, trims and raw frees.                                    *)
THEOREM PoolAccounting == Spec => []Accounting
<1>1. PoolInv => Accounting
  BY DEF PoolInv, CountInv
<1> QED
  BY <1>1, PoolInvariant, PTL DEF Spec

(* Between calls the pool keeps no more than its limit.                     *)
THEOREM PoolWithinLimit == Spec => []WithinLimit
<1>1. PoolInv => WithinLimit
  BY DEF PoolInv, CountInv
<1> QED
  BY <1>1, PoolInvariant, PTL DEF Spec

(* An allocation fails only when what callers hold leaves no room for it.   *)
THEOREM PoolNoSpuriousOOM == Spec => []NoSpuriousOOM
<1>1. PoolInv => NoSpuriousOOM
  BY DEF PoolInv
<1> QED
  BY <1>1, PoolInvariant, PTL DEF Spec

(* Every pooled pointer is in exactly one free list, of the class the       *)
(* driver allocated it with, and held by nobody; every held pointer has the *)
(* size of its request's class.                                             *)
THEOREM PoolOwnership == Spec => []Ownership
<1>1. OwnershipInv => Ownership
  BY DEF OwnershipInv
<1> QED
  BY <1>1, InitOwnership, NextOwnership, PTL DEF Spec

(* acquire never hands out a pointer that somebody still holds.             *)
THEOREM PoolNoDoubleHandOut == Spec => NoDoubleHandOut
<1> DEFINE Step == \A p \in Ptr : held[p] # 0 => held'[p] \in {held[p], 0}
<1>1. OwnershipInv /\ Next => Step
  <2> SUFFICES ASSUME OwnershipInv, Next PROVE Step
    OBVIOUS
  <2>1. ASSUME NEW b \in Bytes, NEW p \in Ptr, Acquire(b, p) PROVE Step
    <3>1. held' = [held EXCEPT ![p] = b]
      BY <2>1 DEF Acquire, AcquireFromPool, AcquireFromDriver, AcquireAfterDrain, HandOut
    <3>2. CASE AcquireFromPool(b, p)
      <4>1. sizeClass(b) \in Class
        BY DEF Class
      <4>2. p \in ToSet(list[sizeClass(b)])
        BY <3>2, <4>1, FrontOfList DEF AcquireFromPool, OwnershipInv, MapTypeOK
      <4> QED
        BY <3>1, <4>1, <4>2 DEF OwnershipInv, MapTypeOK, Ownership
    <3>3. CASE AcquireFromDriver(b, p)
      <4>1. size[p] = 0
        BY <3>3 DEF AcquireFromDriver, Grants
      <4>2. held[p] = 0
        BY <4>1, ClassPositive DEF OwnershipInv, MapTypeOK, Ownership, Class
      <4> QED
        BY <3>1, <4>2 DEF OwnershipInv, MapTypeOK
    <3>4. CASE AcquireAfterDrain(b, p)
      <4>1. Drained[p] = 0
        BY <3>4 DEF AcquireAfterDrain, Grants
      <4>2. held[p] = 0
        BY <4>1, ClassPositive DEF Drained, Pooled, OwnershipInv, MapTypeOK, Ownership, Class
      <4> QED
        BY <3>1, <4>2 DEF OwnershipInv, MapTypeOK
    <3> QED
      BY <2>1, <3>2, <3>3, <3>4 DEF Acquire
  <2>2. ASSUME NEW p \in Ptr, Release(p) \/ FreeRaw(p) PROVE Step
    BY <2>2 DEF Release, FreeRaw, OwnershipInv, MapTypeOK
  <2>3. ASSUME \/ \E b \in Bytes : AcquireFails(b)
               \/ \E l \in Limits : setPoolLimit(l)
               \/ TrimStep \/ drainPool \/ resetPeakLiveBytes
        PROVE  Step
    BY <2>3 DEF AcquireFails, setPoolLimit, TrimStep, drainPool, resetPeakLiveBytes
  <2> QED
    BY <2>1, <2>2, <2>3 DEF Next
<1>2. OwnershipInv /\ [Next]_poolVars => [Step]_poolVars
  BY <1>1
<1> QED
  BY <1>2, InitOwnership, NextOwnership, PTL DEF Spec, NoDoubleHandOut
=============================================================================
